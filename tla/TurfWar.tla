------------------------------ MODULE TurfWar -------------------------------
(***************************************************************************)
(* One gang zone and the wars for it.                                      *)
(*                                                                         *)
(* A GangZoneItem is a C++ object over one document of the database.  A    *)
(* reload of the zones destroys it and makes another, so objects are       *)
(* numbered; the bytes of a destroyed object remain, and so do the timers  *)
(* that carry a pointer to it.  A war is started by the main thread and    *)
(* ended by a timer's callback on a pool thread, which is split where the  *)
(* main thread or another callback can interleave; callbacks of the game   *)
(* server run on the main thread and are single actions.                   *)
(*                                                                         *)
(* External: the timer queue (a timer that is due is dispatched, and its   *)
(* callback is over, before the next minute), the streamer (tells who      *)
(* enters and leaves), the database (a write takes effect, or returns      *)
(* without having taken effect, or takes effect late).  Word-level races   *)
(* on the counters are left out.  Two bounds beside the constants: a war   *)
(* starts at most once a minute (OncePerMinute), and one write at a time   *)
(* is late (Delayed).                                                      *)
(***************************************************************************)
EXTENDS Integers, FiniteSets, FiniteSetsExt

CONSTANTS
    Teams,           \* object ids of the teams
    NoTeam,          \* an unset object id
    Players,         \* player slots
    TurfWarLast,     \* Gaming.turfwarlast, minutes
    TurfWarTimeout,  \* Gaming.turfwartimeout, minutes
    MaxObjects,      \* bound on GangZoneItem objects made between restarts
    MaxKills,        \* bound on each counter
    Lossy            \* whether the database may lose or delay a write

ASSUME TurfWarAssumption ==
    /\ NoTeam \notin Teams
    /\ TurfWarLast \in Nat \ {0}
    /\ TurfWarTimeout \in Nat \ {0}
    /\ MaxObjects \in Nat \ {0}
    /\ MaxKills \in Nat
    /\ Lossy \in BOOLEAN

VARIABLES
    team,      \* GetTeamId() of each player's profile
    listed,    \* players on the roster of their team
    loaded,    \* teams in TeamMgr
    inZone,    \* players inside the zone's rectangle
    made,      \* number of objects constructed
    cur,       \* the object GangZoneMgr holds; NoObject if none
    zone,      \* the bytes of each object
    endTimers, \* minutes left on the armed end timers of each object
    timeouts,  \* minutes left on its armed timeout timers
    call,      \* the EndWar call of each object and kind of timer
    saved,     \* the owner in the zone's document; Missing if there is none
    stray,     \* the owner, or the removal (Missing), still under way to it
    answered,  \* history: an owner's member was, or came, in during its war
    left,      \* history: of its timeout timers, those older than its war
    late,      \* history: a kill came after an EndWar last reset its counters
    crossed,   \* history: an EndWar call passed the check inside another
    unsure     \* history: the document may name an owner its object never had

place == <<team, listed, loaded, inZone>>
objects == <<made, cur, zone>>
timers == <<endTimers, timeouts, call>>
document == <<saved, stray>>
history == <<answered, left, late, crossed, unsure>>
vars == <<place, objects, timers, document, history>>

Objects == 1 .. MaxObjects
NoObject == 0
Missing == "missing"
NoWrite == "no write"
Kinds == {"end", "timeout"}
AnyTeam == Teams \cup {NoTeam}

\* `Missing` and `NoWrite` are nobody's object ids.
ASSUME MissingAssumption == Missing \notin AnyTeam /\ NoWrite \notin AnyTeam

\* ref: `_timeouttimerid`, which no constructor sets.  "set" names the timeout
\* timer created last, armed or not.
\* doc: `_uniqueid` names the zone's document ("live"), a document that was
\* removed ("stale"), or, after Destroy, nothing ("unset").
Zones ==
    [owner : AnyTeam, inWar : BOOLEAN, attacker : AnyTeam,
     enemyKill : 0 .. MaxKills, memberDeath : 0 .. MaxKills,
     ref : {"uninit", "zero", "set"}, doc : {"live", "stale", "unset"}]

NewZone(owner) ==
    [owner |-> owner, inWar |-> FALSE, attacker |-> NoTeam,
     enemyKill |-> 0, memberDeath |-> 0, ref |-> "uninit", doc |-> "live"]

\* at: the statement EndWar executes next.  won: the attacker it announced as
\* the winner, when it will return true.
Calls ==
    [at : {"none", "begin", "save", "own", "reset", "clear", "end"}, won : AnyTeam]

NoCall == [at |-> "none", won |-> NoTeam]

Running(o) == \E k \in Kinds : call[o][k].at # "none"

\* A call past EndWar's check of InWar, which nothing stops any more.
Past(c) == c.at \in {"save", "own", "reset", "clear", "end"}

\* An owner on its way to the document: nobody knows what it will name.
Expected == stray \in AnyTeam

(***************************************************************************)
(* The server starts (or starts again) on what the database holds: a zone  *)
(* whose owner is not among the loaded teams cannot be constructed.        *)
(***************************************************************************)

Start(teams, owner) ==
    /\ team' = [p \in Players |-> NoTeam]
    /\ listed' = {}
    /\ loaded' = teams
    /\ inZone' = {}
    /\ made' = IF owner \in teams THEN 1 ELSE 0
    /\ cur' = IF owner \in teams THEN 1 ELSE NoObject
    /\ zone' = [o \in Objects |-> NewZone(IF owner \in teams THEN owner ELSE NoTeam)]
    /\ endTimers' = [o \in Objects |-> {}]
    /\ timeouts' = [o \in Objects |-> {}]
    /\ call' = [o \in Objects |-> [k \in Kinds |-> NoCall]]
    /\ answered' = [o \in Objects |-> FALSE]
    /\ left' = [o \in Objects |-> {}]
    /\ late' = [o \in Objects |-> FALSE]
    /\ crossed' = [o \in Objects |-> FALSE]
    /\ unsure' = Expected

Init ==
    /\ team = [p \in Players |-> NoTeam]
    /\ listed = {}
    /\ loaded = Teams
    /\ inZone = {}
    /\ saved \in Teams
    /\ stray = NoWrite
    /\ made = 1 /\ cur = 1
    /\ zone = [o \in Objects |-> NewZone(saved)]
    /\ endTimers = [o \in Objects |-> {}]
    /\ timeouts = [o \in Objects |-> {}]
    /\ call = [o \in Objects |-> [k \in Kinds |-> NoCall]]
    /\ answered = [o \in Objects |-> FALSE]
    /\ left = [o \in Objects |-> {}]
    /\ late = [o \in Objects |-> FALSE]
    /\ crossed = [o \in Objects |-> FALSE]
    /\ unsure = FALSE

\* The process dies: killed, or by an exception or a bad pointer in a callback.
\* What is under way to the database is not recalled.
Crash ==
    /\ \E teams \in SUBSET Teams : Start(teams, saved)
    /\ UNCHANGED document

(***************************************************************************)
(* Players.                                                                *)
(***************************************************************************)

\* The team dialog: Quit throws unless the player is listed in a loaded team,
\* Join when the new team is not loaded.
TeamSelect(p, t) ==
    /\ team[p] # t
    /\ team[p] # NoTeam => team[p] \in loaded /\ p \in listed
    /\ team' = [team EXCEPT ![p] = IF t \in loaded THEN t ELSE NoTeam]
    /\ listed' = IF t \in loaded THEN listed \cup {p} ELSE listed \ {p}
    /\ UNCHANGED <<loaded, inZone, objects, timers, document, history>>

\* A disconnect that runs to its end quits the team.
OnPlayerDisconnect(p) ==
    /\ team[p] # NoTeam => team[p] \in loaded /\ p \in listed
    /\ team' = [team EXCEPT ![p] = NoTeam]
    /\ listed' = listed \ {p}
    /\ inZone' = inZone \ {p}
    /\ UNCHANGED <<loaded, objects, timers, document, history>>

\* TeamMgr.LoadAllFromDatabase: new Team objects with empty rosters.
ReloadTeams(teams) ==
    /\ loaded' = teams
    /\ listed' = {}
    /\ UNCHANGED <<team, inZone, objects, timers, document, history>>

\* Mutant: `_timeouttimerid` is zeroed and the timer left armed.
MemberArrived_NoDestroy(o) ==
    /\ zone' = [zone EXCEPT ![o].ref = "zero"]
    /\ answered' = [answered EXCEPT ![o] = TRUE]
    /\ UNCHANGED <<timeouts, left>>

\* Destroying the timer named by `_timeouttimerid`: the one created last, so
\* the one with most time left, unless it has fired and none is left.
MemberArrived(o) ==
    /\ timeouts' = [timeouts EXCEPT ![o] =
                       IF zone[o].ref = "set" /\ @ # {} THEN @ \ {Max(@)} ELSE @]
    /\ left' = [left EXCEPT ![o] = @ \cap timeouts'[o]]
    /\ zone' = [zone EXCEPT ![o].ref = "zero"]
    /\ answered' = [answered EXCEPT ![o] = TRUE]

\* The message needs the owner's team; without it nothing else happens.
OnPlayerEnter(p) ==
    /\ p \notin inZone
    /\ inZone' = inZone \cup {p}
    /\ IF /\ cur # NoObject
          /\ zone[cur].owner \in loaded
          /\ zone[cur].inWar /\ team[p] = zone[cur].owner
       THEN MemberArrived(cur)
       ELSE UNCHANGED <<timeouts, left, zone, answered>>
    /\ UNCHANGED <<team, listed, loaded, made, cur, endTimers, call, document,
                   late, crossed, unsure>>

OnPlayerExit(p) ==
    /\ p \in inZone
    /\ inZone' = inZone \ {p}
    /\ UNCHANGED <<team, listed, loaded, objects, timers, document, history>>

(***************************************************************************)
(* War.                                                                    *)
(***************************************************************************)

Members(t) == {p \in listed : team[p] = t}

\* The bound on wars: two timers of a kind fall due at different minutes.
OncePerMinute ==
    TurfWarLast \notin endTimers[cur] /\ TurfWarTimeout \notin timeouts[cur]

\* Mutants: minutes are taken for seconds; an undefended zone gets the timeout
\* timer only; the end timer is armed with the other period.
EndTimer_Seconds(memberinzone) == {TurfWarLast * 60}

EndTimer_Defended(memberinzone) == IF memberinzone THEN {TurfWarLast} ELSE {}

EndTimer_Swapped(memberinzone) == {TurfWarTimeout}

\* The end timers a war arms.
EndTimer(memberinzone) == {TurfWarLast}

\* TurfWarTrigger::Effect and StartWar: both timers are created before InWar
\* is set; the counters are not touched, nor what earlier wars left armed.
StartWar(p) ==
    LET z == zone[cur]
        memberinzone == Members(z.owner) \cap inZone # {}
    IN  /\ cur # NoObject /\ OncePerMinute
        /\ team[p] # z.owner
        /\ z.owner \in loaded /\ Members(z.owner) # {}
        /\ ~ z.inWar
        /\ team[p] \in loaded
        /\ zone' = [zone EXCEPT ![cur].inWar = TRUE, ![cur].attacker = team[p],
                                ![cur].ref = IF memberinzone THEN @ ELSE "set"]
        /\ endTimers' = [endTimers EXCEPT ![cur] = @ \cup EndTimer(memberinzone)]
        /\ timeouts' = [timeouts EXCEPT ![cur] =
                           IF memberinzone THEN @ ELSE @ \cup {TurfWarTimeout}]
        /\ answered' = [answered EXCEPT ![cur] = memberinzone]
        /\ left' = [left EXCEPT ![cur] = timeouts[cur]]
        /\ UNCHANGED <<place, made, cur, call, document, late, crossed, unsure>>

\* The turf war counter of OnPlayerDeath: p dies in the zone by the hand of k.
OnPlayerDeath(p, k) ==
    LET z == zone[cur]
        loss == z.inWar /\ team[p] = z.owner /\ team[k] = z.attacker
        gain == z.inWar /\ team[p] = z.attacker /\ team[k] = z.owner
    IN  /\ cur # NoObject /\ p \in inZone /\ p # k
        /\ loss \/ gain
        /\ loss => z.memberDeath < MaxKills
        /\ gain => z.enemyKill < MaxKills
        /\ zone' = [zone EXCEPT ![cur].memberDeath = IF loss THEN @ + 1 ELSE @,
                                ![cur].enemyKill = IF gain THEN @ + 1 ELSE @]
        /\ late' = [late EXCEPT ![cur] =
                       @ \/ \E c \in Kinds : call[cur][c].at \in {"clear", "end"}]
        /\ UNCHANGED <<place, made, cur, timers, document, answered, left,
                       crossed, unsure>>

(***************************************************************************)
(* EndWar, on a pool thread.                                               *)
(***************************************************************************)

\* The statements of EndWar(causedbytimeout); o is the object of the pointer,
\* which may have been destroyed.
Step(o, k, from, to) ==
    /\ call[o][k].at = from
    /\ call' = [call EXCEPT ![o][k].at = to]

Dispatch(o, k) ==
    /\ call[o][k].at = "none"
    /\ IF k = "end"
       THEN /\ 0 \in endTimers[o]
            /\ endTimers' = [endTimers EXCEPT ![o] = @ \ {0}]
            /\ UNCHANGED <<timeouts, left>>
       ELSE /\ 0 \in timeouts[o]
            /\ timeouts' = [timeouts EXCEPT ![o] = @ \ {0}]
            /\ left' = [left EXCEPT ![o] = @ \ {0}]
            /\ UNCHANGED endTimers
    /\ call' = [call EXCEPT ![o][k] = [at |-> "begin", won |-> NoTeam]]
    /\ UNCHANGED <<place, objects, document, answered, late, crossed, unsure>>

AttackerWins(o, k) == k = "timeout" \/ zone[o].enemyKill < zone[o].memberDeath

\* The war is over already: EndWar returns false.
EndWarSkip(o, k) ==
    /\ call[o][k].at = "begin" /\ ~ zone[o].inWar
    /\ call' = [call EXCEPT ![o][k] = NoCall]
    /\ UNCHANGED <<place, objects, endTimers, timeouts, document, history>>

\* A timeout destroys the end timer armed last.
EndTimerDestroyed(o, k) ==
    endTimers' = [endTimers EXCEPT ![o] =
                     IF k = "timeout" /\ @ # {} THEN @ \ {Max(@)} ELSE @]

Crosses(o, k) ==
    crossed' = [crossed EXCEPT ![o] = @ \/ \E j \in Kinds \ {k} : Past(call[o][j])]

\* Mutant: a draw returns without ending the war.
EndWarDecide_Draw(o, k) ==
    /\ call[o][k].at = "begin" /\ zone[o].inWar
    /\ IF ~ AttackerWins(o, k) /\ zone[o].enemyKill = zone[o].memberDeath
       THEN call' = [call EXCEPT ![o][k] = NoCall]
       ELSE call' = [call EXCEPT ![o][k].at = IF AttackerWins(o, k) THEN "save" ELSE "reset"]
    /\ EndTimerDestroyed(o, k)
    /\ Crosses(o, k)
    /\ UNCHANGED <<place, objects, timeouts, document, answered, left, late, unsure>>

\* The winner is decided and his team, whose name is announced, looked up.
EndWarDecide(o, k) ==
    /\ call[o][k].at = "begin" /\ zone[o].inWar
    /\ (IF AttackerWins(o, k) THEN zone[o].attacker ELSE zone[o].owner) \in loaded
    /\ call' = [call EXCEPT ![o][k] =
                   [at |-> IF AttackerWins(o, k) THEN "save" ELSE "reset",
                    won |-> IF AttackerWins(o, k) THEN zone[o].attacker ELSE NoTeam]]
    /\ EndTimerDestroyed(o, k)
    /\ Crosses(o, k)
    /\ UNCHANGED <<place, objects, timeouts, document, answered, left, late, unsure>>

\* The lookup fails, or SetOwner on an object that was destroyed: nobody
\* catches the exception and the process dies.  (So it does when the Update of
\* SetOwner throws: EndWarSave, with any of its outcomes, and then Crash.)
EndWarThrows(o, k) ==
    /\ \/ /\ call[o][k].at = "begin" /\ zone[o].inWar
          /\ (IF AttackerWins(o, k) THEN zone[o].attacker ELSE zone[o].owner) \notin loaded
       \/ call[o][k].at = "save" /\ zone[o].doc = "unset"
    /\ Crash

\* Mutants: the owner is not saved; a document that is gone is written anew.
EndWarSave_Skips(o, k) ==
    /\ Step(o, k, "save", "own")
    /\ UNCHANGED <<place, objects, endTimers, timeouts, document, history>>

EndWarSave_Upserts(o, k) ==
    /\ zone[o].doc # "unset"
    /\ Step(o, k, "save", "own")
    /\ saved' = zone[o].attacker
    /\ unsure' = (unsure \/ (zone[o].doc = "live" /\ o # cur))
    /\ UNCHANGED <<place, objects, endTimers, timeouts, stray, answered, left, late,
                   crossed>>

\* A write is late; one at a time.
Delayed(value) == Lossy /\ stray = NoWrite /\ stray' = value

\* SetOwner takes a reference to `_warinfo.Attacker` and reads it twice.  The
\* update matches nothing once the document is gone; it may return without
\* having taken effect, and the write be lost or still under way.
EndWarSave(o, k) ==
    /\ zone[o].doc # "unset"
    /\ Step(o, k, "save", "own")
    /\ \/ /\ zone[o].doc = "stale"
          /\ UNCHANGED <<document, unsure>>
       \/ /\ zone[o].doc = "live"
          /\ saved' = zone[o].attacker
          /\ unsure' = (cur \notin {o, NoObject} \/ Expected)
          /\ UNCHANGED stray
       \/ /\ zone[o].doc = "live" /\ Lossy
          /\ UNCHANGED stray \/ Delayed(zone[o].attacker)
          /\ unsure' = (cur # NoObject \/ Expected')
          /\ UNCHANGED saved
    /\ UNCHANGED <<place, objects, endTimers, timeouts, answered, left, late, crossed>>

\* Mutant: the update is not followed by the assignment.
EndWarOwn_NotAssigned(o, k) ==
    /\ Step(o, k, "own", "reset")
    /\ UNCHANGED <<place, objects, endTimers, timeouts, document, history>>

EndWarOwn(o, k) ==
    /\ Step(o, k, "own", "reset")
    /\ zone' = [zone EXCEPT ![o].owner = zone[o].attacker]
    /\ UNCHANGED <<place, made, cur, endTimers, timeouts, document, history>>

\* Mutant: one counter is forgotten.
EndWarReset_One(o, k) ==
    /\ Step(o, k, "reset", "clear")
    /\ zone' = [zone EXCEPT ![o].enemyKill = 0]
    /\ late' = [late EXCEPT ![o] = FALSE]
    /\ UNCHANGED <<place, made, cur, endTimers, timeouts, document, answered, left,
                   crossed, unsure>>

EndWarReset(o, k) ==
    /\ Step(o, k, "reset", "clear")
    /\ zone' = [zone EXCEPT ![o].enemyKill = 0, ![o].memberDeath = 0]
    /\ late' = [late EXCEPT ![o] = FALSE]
    /\ UNCHANGED <<place, made, cur, endTimers, timeouts, document, answered, left,
                   crossed, unsure>>

EndWarClear(o, k) ==
    /\ Step(o, k, "clear", "end")
    /\ zone' = [zone EXCEPT ![o].attacker = NoTeam]
    /\ UNCHANGED <<place, made, cur, endTimers, timeouts, document, history>>

EndWarEnd(o, k) ==
    /\ call[o][k].at = "end"
    /\ call' = [call EXCEPT ![o][k] = NoCall]
    /\ zone' = [zone EXCEPT ![o].inWar = FALSE]
    /\ answered' = [answered EXCEPT ![o] = FALSE]
    /\ left' = [left EXCEPT ![o] = {}]
    /\ UNCHANGED <<place, made, cur, endTimers, timeouts, document, late, crossed,
                   unsure>>

EndWar(o, k) ==
    \/ EndWarSkip(o, k) \/ EndWarDecide(o, k) \/ EndWarThrows(o, k)
    \/ EndWarSave(o, k) \/ EndWarOwn(o, k) \/ EndWarReset(o, k)
    \/ EndWarClear(o, k) \/ EndWarEnd(o, k)

\* A minute passes.
Minus1(minutes) == [o \in Objects |-> {m - 1 : m \in minutes[o]}]

Tick ==
    /\ \A o \in Objects : 0 \notin endTimers[o] \cup timeouts[o] /\ ~ Running(o)
    /\ \E o \in Objects : endTimers[o] \cup timeouts[o] # {}
    /\ endTimers' = Minus1(endTimers)
    /\ timeouts' = Minus1(timeouts)
    /\ left' = Minus1(left)
    /\ UNCHANGED <<place, objects, call, document, answered, late, crossed, unsure>>

(***************************************************************************)
(* Administration.  ~GangZoneItem removes the area and the trigger and     *)
(* leaves the timers alone.                                                *)
(***************************************************************************)

Construct(owner) ==
    /\ made' = made + 1
    /\ cur' = made + 1
    /\ zone' = [zone EXCEPT ![made + 1] = NewZone(owner)]

\* GangZoneMgr.LoadAllFromDatabase; without an object when the query fails or
\* the owner's team is not loaded.
ReloadZones ==
    /\ made < MaxObjects
    /\ \/ saved \in loaded /\ Construct(saved)
       \/ cur' = NoObject /\ UNCHANGED <<made, zone>>
    /\ unsure' = Expected
    /\ UNCHANGED <<place, timers, document, answered, left, late, crossed>>

\* An object once the document is removed.
Removed(o) == IF zone[o].doc = "live" THEN [zone[o] EXCEPT !.doc = "stale"] ELSE zone[o]

\* The document goes, and with it what was under way to it.
DocumentRemoved == saved' = Missing /\ stray' = NoWrite

\* The remove dialog: document, then object.  Destroy may return without having
\* removed the document.
RemoveZone ==
    /\ cur # NoObject
    /\ LET Gone == [zone EXCEPT ![cur].doc = "unset"]
       IN  \/ /\ zone[cur].doc = "live" /\ DocumentRemoved
              /\ zone' = [o \in Objects |-> IF o = cur THEN Gone[o] ELSE Removed(o)]
           \/ /\ zone[cur].doc = "live" /\ Delayed(Missing)
              /\ zone' = Gone /\ UNCHANGED saved
           \/ /\ zone[cur].doc = "live" => Lossy
              /\ zone' = Gone /\ UNCHANGED document
    /\ cur' = NoObject
    /\ unsure' = Expected'
    /\ UNCHANGED <<place, made, timers, answered, left, late, crossed>>

\* Destroy throws: the document is removed, or will be, and the object stays.
RemoveZoneFails ==
    /\ cur # NoObject /\ zone[cur].doc = "live"
    /\ \/ DocumentRemoved /\ zone' = [o \in Objects |-> Removed(o)]
       \/ Delayed(Missing) /\ UNCHANGED <<saved, zone>>
    /\ UNCHANGED <<place, made, cur, timers, history>>

\* The last step of the create dialog: the document is written first; there is
\* no object if the error check or the read back throws, or if the leader's
\* team is not loaded (any more).
CreateZone(p) ==
    /\ cur = NoObject /\ saved = Missing /\ made < MaxObjects
    /\ saved' = team[p]
    /\ (team[p] \in loaded /\ Construct(team[p])) \/ UNCHANGED objects
    /\ unsure' = FALSE
    /\ UNCHANGED <<place, timers, stray, answered, left, late, crossed>>

\* The write under way takes effect.
LateWrite ==
    /\ stray # NoWrite
    /\ saved' = stray
    /\ stray' = NoWrite
    /\ zone' = IF stray = Missing THEN [o \in Objects |-> Removed(o)] ELSE zone
    /\ UNCHANGED <<place, made, cur, timers, history>>

Next ==
    \/ \E p \in Players, t \in Teams : TeamSelect(p, t)
    \/ \E p \in Players :
          \/ OnPlayerDisconnect(p) \/ OnPlayerEnter(p) \/ OnPlayerExit(p)
          \/ StartWar(p) \/ CreateZone(p)
    \/ \E p, k \in Players : OnPlayerDeath(p, k)
    \/ \E teams \in SUBSET Teams : ReloadTeams(teams)
    \/ \E o \in Objects, k \in Kinds : Dispatch(o, k) \/ EndWar(o, k)
    \/ Tick
    \/ ReloadZones
    \/ RemoveZone
    \/ RemoveZoneFails
    \/ LateWrite
    \/ Crash

Spec == Init /\ [][Next]_vars

\* The timer queue's clock runs, and its threads run what they were given.
FairSpec ==
    /\ Spec
    /\ WF_vars(Tick)
    /\ \A o \in Objects, k \in Kinds : WF_vars(Dispatch(o, k)) /\ WF_vars(EndWar(o, k))

(***************************************************************************)
(* Properties.                                                             *)
(***************************************************************************)

TypeOK ==
    /\ team \in [Players -> AnyTeam]
    /\ listed \in SUBSET Players
    /\ loaded \in SUBSET Teams
    /\ inZone \in SUBSET Players
    /\ made \in 0 .. MaxObjects
    /\ cur \in 0 .. made
    /\ zone \in [Objects -> Zones]
    /\ endTimers \in [Objects -> SUBSET (0 .. TurfWarLast)]
    /\ timeouts \in [Objects -> SUBSET (0 .. TurfWarTimeout)]
    /\ call \in [Objects -> [Kinds -> Calls]]
    /\ saved \in AnyTeam \cup {Missing}
    /\ stray \in AnyTeam \cup {Missing, NoWrite}
    /\ answered \in [Objects -> BOOLEAN]
    /\ left \in [Objects -> SUBSET (0 .. TurfWarTimeout)]
    /\ \A o \in Objects : left[o] \subseteq timeouts[o]
    /\ late \in [Objects -> BOOLEAN]
    /\ crossed \in [Objects -> BOOLEAN]
    /\ unsure \in BOOLEAN

\* A zone in war always has something that will end the war: an end timer is
\* armed, or an EndWar call is running.
WarHasAnEnd ==
    \A o \in Objects :
        zone[o].inWar => endTimers[o] # {} \/ \E k \in Kinds : call[o][k].at # "none"

\* The zone's owner is the one its document names, or EndWar is between the
\* update and the assignment, unless a write of the owner was lost or late or
\* came from a destroyed object; and then the next load, restart or saved
\* conquest brings the two together again.
OwnerSaved ==
    ~ unsure /\ cur # NoObject /\ saved # Missing /\ ~ crossed[cur] =>
        \/ zone[cur].owner = saved
        \/ \E k \in Kinds : call[cur][k].at = "own"

\* EndWar's "true = Attacker wins": a call that will return true has given the
\* zone to the team whose victory it announced, unless another call crossed it.
TrueMeansAttackerWins ==
    \A o \in Objects, k \in Kinds :
        /\ call[o][k].won # NoTeam /\ call[o][k].at \in {"reset", "clear", "end"}
        /\ ~ crossed[o]
        => zone[o].owner = call[o][k].won

\* Two calls cross only where turfwartimeout is not below turfwarlast: else the
\* timeout's call ends the war and takes the end timer with it, and no timer of
\* one war is left for the next.
CallsDoNotCross ==
    TurfWarTimeout < TurfWarLast => \A o \in Objects : ~ crossed[o]

\* Once a member of the owner was in the zone or came, the timeout timer of the
\* running war is not armed: MemberArrived never misses it, nor takes the timer
\* of an earlier war for it.
TimeoutOnlyUnanswered ==
    \A o \in Objects : zone[o].inWar /\ answered[o] => timeouts[o] \subseteq left[o]

\* StartWar does not reset the counters and need not: between wars they are
\* zero, unless a kill was counted while EndWar was about to finish; and that
\* kill counts in the next war only.
ScoreStartsLevel ==
    \A o \in Objects :
        ~ zone[o].inWar /\ ~ late[o] => zone[o].enemyKill = 0 /\ zone[o].memberDeath = 0

\* Every war ends.
WarsEnd == \A o \in Objects : zone[o].inWar ~> ~ zone[o].inWar

=============================================================================
