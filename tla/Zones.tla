------------------------------- MODULE Zones --------------------------------
(***************************************************************************)
(* The gang zones of the server: the wizard that makes them, the dialog    *)
(* that removes them, the loads at start-up and on demand, and the area    *)
(* and trigger that lead from a place on the map to a zone.                *)
(*                                                                         *)
(* A zone is a document and, once constructed, an object in GangZoneMgr    *)
(* under the number the game server gave it.  Its area and trigger carry   *)
(* that number; they are made and removed together, and `mark` stands for  *)
(* both.  All of it runs on the main thread: every handler is one action.  *)
(*                                                                         *)
(* External: the database (a write may throw and yet take effect, or       *)
(* return without effect; either way it may take effect later, as Store    *)
(* promises), GangZoneCreate (the lowest number that is free).             *)
(*                                                                         *)
(* The spawn waypoint of a zone is a document that nothing here reads      *)
(* again, and its Create does not read it back: whatever becomes of that   *)
(* write, a Create that returns lets the wizard go on to the zone.         *)
(***************************************************************************)
EXTENDS Integers, Sequences, FiniteSets, FiniteSetsExt

CONSTANTS
    Docs,      \* object ids of zone documents
    Teams,     \* object ids of the teams
    NoTeam,    \* an unset object id
    Players,   \* administrators, one per slot
    Leader,    \* the leader of each team
    MaxMarks   \* bound on areas (and triggers) at the same time

ASSUME ZonesAssumption ==
    /\ IsFiniteSet(Docs)
    /\ NoTeam \notin Teams
    /\ {"unwritten", "removed"} \cap (Teams \cup {NoTeam}) = {}
    /\ "nodoc" \notin Docs
    /\ Leader \in [Teams -> Players]
    /\ MaxMarks \in Nat /\ Cardinality(Docs) <= MaxMarks

VARIABLES
    loaded,    \* teams in TeamMgr
    team,      \* GetTeamId() of each player's profile
    owner,     \* the zone documents: the owner, Unwritten or Removed
    stray,     \* writes of zone documents that were given up and are under way
    reg,       \* GangZoneMgr, and the areas and triggers
    later,     \* OnGameModeInit got past the zones: triggers, properties, timers
    step,      \* the variable gz_create of each player: what is set, or NoVar
    dlg,       \* the dialog a player has open
    list,      \* the zones his remove dialog shows
    old,       \* history: players whose list is older than some zone
    half,      \* history: a constructor threw and left its area and trigger
    excuse     \* history: "switch" once a player changed team while making a
               \* zone; else "fault" if the database has failed since the start

world == <<loaded, owner, stray, reg, later>>
wizard == <<step, dlg, list, old>>
history == <<half, excuse>>
vars == <<team, world, wizard, history>>

Unwritten == "unwritten"
Removed == "removed"
NoDoc == "nodoc"
Numbers == 1 .. Cardinality(Docs)   \* no more zones than documents
Marks == 1 .. MaxMarks
NoMark == [zone |-> 0, doc |-> NoDoc]
NoZone == [doc |-> NoDoc, mark |-> 0]
NoList == [z \in Numbers |-> NoDoc]
NoVar == {"novar"}

\* places: spawn point and trigger, wherever the player stands.
Steps == {"min", "max", "places"}

Fault(x) == IF x = "switch" THEN x ELSE "fault"

Written == {d \in Docs : owner[d] \notin {Unwritten, Removed}}

\* Object ids that were never generated.
Fresh == {d \in Docs : owner[d] = Unwritten /\ \A s \in stray : s.doc # d}

Write(d, t) == owner' = [owner EXCEPT ![d] = t] /\ stray' = stray

\* No effect, or a late one.  Bound: one write under way at a time.
NoWrite(d, t) ==
    /\ owner' = owner
    /\ stray' = stray \/ (stray = {} /\ stray' = {[doc |-> d, owner |-> t]})

(***************************************************************************)
(* Construction.  r is a registry: zones by number, marks by streamer id.  *)
(***************************************************************************)

Registries ==
    [zone : [Numbers -> [doc : Docs, mark : Marks] \cup {NoZone}],
     mark : [Marks -> [zone : Numbers, doc : Docs] \cup {NoMark}]]

Empty == [zone |-> [z \in Numbers |-> NoZone], mark |-> [m \in Marks |-> NoMark]]

FreeNumber(r) == Min({z \in Numbers : r.zone[z] = NoZone})

\* Identifier::get: ids removed and ids never used, the lowest first.
FreeMarks(r) == {m \in Marks : r.mark[m] = NoMark}

Marked(r, d) ==
    [r EXCEPT !.mark[Min(FreeMarks(r))] = [zone |-> FreeNumber(r), doc |-> d]]

Construct(r, d) ==
    [Marked(r, d) EXCEPT !.zone[FreeNumber(r)] = [doc |-> d, mark |-> Min(FreeMarks(r))]]

\* Mutant: the destructor forgets the area and the trigger.
Destruct_Leaves(r, Z) == [r EXCEPT !.zone = [z \in Numbers |-> IF z \in Z THEN NoZone ELSE @[z]]]

\* ~GangZoneItem of the zones with numbers in Z; the numbers go back.
Destruct(r, Z) ==
    [zone |-> [z \in Numbers |-> IF z \in Z THEN NoZone ELSE r.zone[z]],
     mark |-> [m \in Marks |-> IF \E z \in Z : r.zone[z].mark = m THEN NoMark ELSE r.mark[m]]]

Orders(D) == {s \in [1 .. Cardinality(D) -> D] : \A i, j \in DOMAIN s : s[i] = s[j] => i = j}

\* The registry after each of the zones in s.
Constructed(r, s) ==
    LET got[k \in 0 .. Len(s)] == IF k = 0 THEN r ELSE Construct(got[k - 1], s[k])
    IN  got

\* How many zones of s come before the first whose owner is not loaded.
Reached(s, teams) ==
    CHOOSE n \in 0 .. Len(s) :
        /\ \A k \in 1 .. n : owner[s[k]] \in teams
        /\ n < Len(s) => owner[s[n + 1]] \notin teams

\* The constructors run over the cursor, in some order, until one throws or the
\* cursor fails.  The area and the trigger come before the lookup of the owner's
\* team: a zone whose owner is not loaded ("bad") leaves them behind.
Ends(r, s, teams) ==
    LET n == Reached(s, teams)
        got == Constructed(r, s)
    IN  {[reg |-> IF n = Len(s) THEN got[n] ELSE Marked(got[n], s[n + 1]),
          end |-> IF n = Len(s) THEN "done" ELSE "bad"]}
        \cup {[reg |-> got[k], end |-> "fault"] : k \in 0 .. n}

Outcomes(r, teams) == UNION {Ends(r, s, teams) : s \in Orders(Written)}

(***************************************************************************)
(* Start-up and reloads.                                                   *)
(***************************************************************************)

Init ==
    /\ loaded = Teams
    /\ team = [p \in Players |-> NoTeam]
    /\ owner = [d \in Docs |-> Unwritten]
    /\ stray = {}
    /\ reg = Empty
    /\ later = TRUE
    /\ step = [p \in Players |-> NoVar]
    /\ dlg = [p \in Players |-> "none"]
    /\ list = [p \in Players |-> NoList]
    /\ old = {}
    /\ half = FALSE /\ excuse = "none"

\* The process ends, anyhow, and starts again.  The loads are made in order and
\* the first one that throws is the last; those after the zones are one.
OnGameModeInit ==
    /\ \/ /\ loaded' = Teams
          /\ \E out \in Outcomes(Empty, Teams) :
                /\ reg' = out.reg
                /\ later' = (out.end = "done")
                /\ half' = (out.end = "bad")
                /\ excuse' = IF out.end = "fault" THEN Fault(excuse)
                             ELSE IF excuse = "switch" THEN excuse ELSE "none"
       \/ /\ loaded' \in SUBSET Teams
          /\ reg' = Empty /\ later' = FALSE /\ half' = FALSE
          /\ excuse' = Fault(excuse)
    /\ team' = [p \in Players |-> NoTeam]
    /\ step' = [p \in Players |-> NoVar]
    /\ dlg' = [p \in Players |-> "none"]
    /\ list' = [p \in Players |-> NoList]
    /\ old' = {}
    /\ UNCHANGED <<owner, stray>>

ReloadTeams ==
    /\ loaded' \in SUBSET Teams
    /\ excuse' = IF loaded' = Teams THEN excuse ELSE Fault(excuse)
    /\ UNCHANGED <<team, owner, stray, reg, later, wizard, half>>

\* Every list shown before is old now.
Listing == {p \in Players : dlg[p] = "remove"}

ReloadZones ==
    /\ Cardinality(FreeMarks(Destruct(reg, Numbers))) >= Cardinality(Written)
    /\ \E out \in Outcomes(Destruct(reg, Numbers), loaded) :
          /\ reg' = out.reg
          /\ half' = (half \/ out.end = "bad")
          /\ excuse' = IF out.end = "fault" THEN Fault(excuse) ELSE excuse
    /\ old' = Listing
    /\ UNCHANGED <<team, loaded, owner, stray, later, step, dlg, list>>

\* A write under way takes effect, on top of whatever came after it.
LateWrite ==
    \E s \in stray :
        /\ owner' = [owner EXCEPT ![s.doc] = s.owner]
        /\ stray' = {}
        /\ excuse' = Fault(excuse)
        /\ UNCHANGED <<team, loaded, reg, later, wizard, half>>

(***************************************************************************)
(* Players and their teams.                                                *)
(***************************************************************************)

\* The team of a player who leads none is never read here.
Leaders == {Leader[t] : t \in Teams}

CloseDialog(p) ==
    /\ dlg' = [dlg EXCEPT ![p] = "none"]
    /\ list' = [list EXCEPT ![p] = NoList]
    /\ old' = old \ {p}

\* The team dialog, which takes the place of any other.  Quit throws unless the
\* team is loaded; Join when the new team is not.
TeamSelect(p, t) ==
    /\ team[p] # t
    /\ team[p] # NoTeam => team[p] \in loaded
    /\ team' = [team EXCEPT ![p] = IF t \in loaded THEN t ELSE NoTeam]
    /\ excuse' = IF step[p] # NoVar THEN "switch" ELSE excuse
    /\ CloseDialog(p)
    /\ UNCHANGED <<world, step, half>>

OnPlayerDisconnect(p) ==
    /\ team[p] # NoTeam => team[p] \in loaded
    /\ team' = [team EXCEPT ![p] = NoTeam]
    /\ step' = [step EXCEPT ![p] = NoVar]
    /\ CloseDialog(p)
    /\ UNCHANGED <<world, history>>

(***************************************************************************)
(* The wizard.                                                             *)
(***************************************************************************)

\* Mutant: everybody may.
MenuCreate_NoLeader(p) ==
    /\ dlg[p] = "none"
    /\ step[p] = NoVar
    /\ dlg' = [dlg EXCEPT ![p] = "name"]
    /\ UNCHANGED <<team, world, step, list, old, history>>

\* /gz, create: the leader of a loaded team, not making a zone already.
MenuCreate(p) ==
    /\ dlg[p] = "none"
    /\ team[p] \in loaded /\ Leader[team[p]] = p
    /\ step[p] = NoVar
    /\ dlg' = [dlg EXCEPT ![p] = "name"]
    /\ UNCHANGED <<team, world, step, list, old, history>>

CreateName(p) ==
    /\ dlg[p] = "name"
    /\ dlg' = [dlg EXCEPT ![p] = "none"]
    /\ step' = [step EXCEPT ![p] = {}]
    /\ UNCHANGED <<team, world, list, old, history>>

Dismiss(p) ==
    /\ dlg[p] # "none"
    /\ CloseDialog(p)
    /\ UNCHANGED <<team, world, step, history>>

\* Mutant: a third click adds a third corner.
OnPlayerClickMap_Third(p) ==
    /\ step[p] # NoVar
    /\ step' = [step EXCEPT ![p] = @ \cup {IF "max" \in @ THEN "third"
                                          ELSE IF "min" \in @ THEN "max" ELSE "min"}]
    /\ UNCHANGED <<team, world, dlg, list, old, history>>

OnPlayerClickMap(p) ==
    /\ step[p] # NoVar /\ ~ {"min", "max"} \subseteq step[p]
    /\ step' = [step EXCEPT ![p] = @ \cup {IF "min" \in @ THEN "max" ELSE "min"}]
    /\ UNCHANGED <<team, world, dlg, list, old, history>>

\* /gzc, the first two entries, which are independent of everything else.
ProcessPlaces(p) ==
    /\ dlg[p] = "none" /\ step[p] # NoVar
    /\ step' = [step EXCEPT ![p] = @ \cup {"places"}]
    /\ UNCHANGED <<team, world, dlg, list, old, history>>

\* The waypoint's document; the zone's with the team the player has now, which is
\* read back; the lookup of that team, then area and trigger.  Without the team
\* the document stays and so does the variable.
ProcessFinish(p, d) ==
    /\ dlg[p] = "none" /\ step[p] = Steps
    /\ d \in Fresh
    /\ FreeMarks(reg) # {}
    /\ Write(d, team[p])
    /\ IF team[p] \in loaded
       THEN /\ reg' = Construct(reg, d)
            /\ step' = [step EXCEPT ![p] = NoVar]
            /\ old' = Listing
       ELSE UNCHANGED <<reg, step, old>>
    /\ UNCHANGED <<team, loaded, later, dlg, list, history>>

\* One of the two Creates throws.  That of the zone does so, too, when its
\* insert returns without effect: there is nothing to read back.
ProcessFinishFails(p, d) ==
    /\ dlg[p] = "none" /\ step[p] = Steps
    /\ d \in Fresh
    /\ Write(d, team[p]) \/ NoWrite(d, team[p])
    /\ excuse' = Fault(excuse)
    /\ UNCHANGED <<team, loaded, reg, later, wizard, half>>

ProcessCancel(p) ==
    /\ dlg[p] = "none" /\ step[p] # NoVar
    /\ step' = [step EXCEPT ![p] = NoVar]
    /\ UNCHANGED <<team, world, dlg, list, old, history>>

(***************************************************************************)
(* Removal.                                                                *)
(***************************************************************************)

\* Mutant: entries are numbered from the top.
MenuRemove_Numbered(p) ==
    /\ dlg[p] = "none"
    /\ dlg' = [dlg EXCEPT ![p] = "remove"]
    /\ list' = [list EXCEPT ![p] =
                   [k \in Numbers |->
                      LET D == {z \in Numbers : reg.zone[z] # NoZone
                                   /\ k = Cardinality({y \in 1 .. z : reg.zone[y] # NoZone})}
                      IN  IF D = {} THEN NoDoc ELSE reg.zone[CHOOSE z \in D : TRUE].doc]]
    /\ old' = old \ {p}
    /\ UNCHANGED <<team, world, step, history>>

\* /gz, remove: numbers and names of the zones.
MenuRemove(p) ==
    /\ dlg[p] = "none"
    /\ dlg' = [dlg EXCEPT ![p] = "remove"]
    /\ list' = [list EXCEPT ![p] = [z \in Numbers |-> reg.zone[z].doc]]
    /\ old' = old \ {p}
    /\ UNCHANGED <<team, world, step, history>>

Answered(p) ==
    /\ dlg[p] = "remove"
    /\ CloseDialog(p)
    /\ UNCHANGED <<team, loaded, later, step, half>>

\* The number may be another zone's by now; if it is nobody's, nothing happens.
\* The document may stay although Destroy returns.
GangZoneRemove(p, z) ==
    /\ list[p][z] # NoDoc
    /\ reg.zone[z] # NoZone
    /\ Answered(p)
    /\ \/ Write(reg.zone[z].doc, Removed) /\ excuse' = excuse
       \/ NoWrite(reg.zone[z].doc, Removed) /\ excuse' = Fault(excuse)
    /\ reg' = Destruct(reg, {z})

\* Destroy throws: the object stays.
GangZoneRemoveFails(p, z) ==
    /\ list[p][z] # NoDoc
    /\ reg.zone[z] # NoZone
    /\ Answered(p)
    /\ Write(reg.zone[z].doc, Removed) \/ NoWrite(reg.zone[z].doc, Removed)
    /\ excuse' = Fault(excuse)
    /\ UNCHANGED reg

Next ==
    \/ OnGameModeInit \/ ReloadTeams \/ ReloadZones \/ LateWrite
    \/ \E p \in Players :
          \/ \E t \in Teams : TeamSelect(p, t) /\ p \in Leaders
          \/ OnPlayerDisconnect(p)
          \/ MenuCreate(p) \/ CreateName(p) \/ Dismiss(p)
          \/ OnPlayerClickMap(p) \/ ProcessCancel(p)
          \/ ProcessPlaces(p)
          \/ \E d \in Docs : ProcessFinish(p, d) \/ ProcessFinishFails(p, d)
          \/ MenuRemove(p)
          \/ \E z \in Numbers : GangZoneRemove(p, z) \/ GangZoneRemoveFails(p, z)

Spec == Init /\ [][Next]_vars

(***************************************************************************)
(* Properties.                                                             *)
(***************************************************************************)

TypeOK ==
    /\ loaded \in SUBSET Teams
    /\ team \in [Players -> Teams \cup {NoTeam}]
    /\ owner \in [Docs -> Teams \cup {NoTeam, Unwritten, Removed}]
    /\ stray \in SUBSET [doc : Docs, owner : Teams \cup {NoTeam, Removed}]
    /\ reg \in Registries
    /\ later \in BOOLEAN
    /\ step \in [Players -> (SUBSET Steps) \cup {NoVar}]
    /\ dlg \in [Players -> {"none", "name", "remove"}]
    /\ list \in [Players -> [Numbers -> Docs \cup {NoDoc}]]
    /\ old \in SUBSET Players
    /\ half \in BOOLEAN /\ excuse \in {"none", "fault", "switch"}

\* Every zone has its area and trigger, which lead to it, whatever constructors
\* threw before.  No other area or trigger leads to it, unless one of them did.
MarksLeadHome ==
    /\ \A z \in Numbers : reg.zone[z] # NoZone =>
          reg.mark[reg.zone[z].mark] = [zone |-> z, doc |-> reg.zone[z].doc]
    /\ ~ half => \A m \in Marks : reg.mark[m] # NoMark =>
          reg.zone[reg.mark[m].zone] = [doc |-> reg.mark[m].doc, mark |-> m]

\* A number in the remove dialog still means the zone shown with it, or none,
\* as long as no zone was made since.
ListIsRight ==
    \A p \in Players \ old : dlg[p] = "remove" =>
        \A z \in Numbers : reg.zone[z] # NoZone => list[p][z] = reg.zone[z].doc

\* Unless the database has failed since the start, or a player changed team in
\* the middle of the wizard, every zone with a document is there, and with it
\* everything OnGameModeInit loads after the zones.
EverythingLoaded ==
    excuse = "none" =>
        later /\ \A d \in Written : \E z \in Numbers : reg.zone[z].doc = d

=============================================================================
