------------------------------- MODULE Racing -------------------------------
(***************************************************************************)
(* Races: building a track, gathering racers, the countdown, the race.     *)
(*                                                                         *)
(* RacingMgr keeps one race per starter's slot.  A racer's profile holds   *)
(* the starter's slot in the variable "race_joined", and a track under     *)
(* construction in "race_create"; both go with the profile when the player *)
(* disconnects, while the race keeps his entry.  The countdown runs on a   *)
(* pool thread, and Start with it, interleaved with the main thread.       *)
(*                                                                         *)
(* External: the game server (whose players connect, reach checkpoints and *)
(* disconnect, a slot being used again by somebody else) and the timer     *)
(* queue, whose callbacks for one timer do not overlap.  Positions, times  *)
(* and messages are left out, so that a racer whom Start has not released  *)
(* may be in his checkpoint all the same, put there by somebody else.      *)
(***************************************************************************)
EXTENDS Integers, FiniteSets

CONSTANTS
    Slots,           \* player ids
    Admins,          \* slots whose players have level 65535; the others have 0
    NoSlot,          \* "race_joined" is not set
    MaxCheckpoints,  \* bound on the length of a track
    CountDownFrom    \* RaceData's initial countdown, 5 in the code

ASSUME RacingAssumption ==
    /\ NoSlot \notin Slots
    /\ Admins \subseteq Slots
    /\ IsFiniteSet(Slots)
    /\ MaxCheckpoints \in Nat /\ MaxCheckpoints >= 2
    /\ CountDownFrom \in Nat

VARIABLES
    online,    \* slots that have a profile
    joined,    \* "race_joined" of each profile
    building,  \* checkpoints of the track in "race_create"; NoTrack if none, and
               \* for players whose level does not let them do anything with it
    tracks,    \* lengths of the tracks in the database
    race,      \* RacingMgr: the race of each starter
    early,     \* history: somebody finished before Start had counted the racers
    thrown     \* history: starters of races whose destructor threw

vars == <<online, joined, building, tracks, race, early, thrown>>

NoTrack == -1

\* racers, cp, rank: `_racers`, with currentcp (length + 1 stands for every one
\* past the end of the track) and sessionrank (0 before the finish).
\* todo: the racers Start has still to send off; starting: the pool thread is
\* inside Start.
NoRace ==
    [state |-> "none", length |-> 0, racers |-> {}, cp |-> [p \in Slots |-> 0],
     rank |-> [p \in Slots |-> 0], waiting |-> 0, countdown |-> CountDownFrom,
     starting |-> FALSE, todo |-> {}]

Init ==
    /\ online = {}
    /\ joined = [p \in Slots |-> NoSlot]
    /\ building = [p \in Slots |-> NoTrack]
    /\ tracks = {}
    /\ race = [s \in Slots |-> NoRace]
    /\ early = FALSE
    /\ thrown = {}

Connect(p) ==
    /\ p \notin online
    /\ online' = online \cup {p}
    /\ UNCHANGED <<joined, building, tracks, race, early, thrown>>

\* The profile and its variables are destroyed; no race is told.
Disconnect(p) ==
    /\ p \in online
    /\ online' = online \ {p}
    /\ joined' = [joined EXCEPT ![p] = NoSlot]
    /\ building' = [building EXCEPT ![p] = NoTrack]
    /\ UNCHANGED <<tracks, race, early, thrown>>

\* The process dies and starts again; the tracks are in the database.
Crash ==
    /\ online' = {}
    /\ joined' = [p \in Slots |-> NoSlot]
    /\ building' = [p \in Slots |-> NoTrack]
    /\ race' = [s \in Slots |-> NoRace]
    /\ early' = FALSE
    /\ thrown' = {}
    /\ UNCHANGED tracks

(***************************************************************************)
(* Building a track.                                                       *)
(***************************************************************************)

CreateName(p) ==
    /\ p \in Admins \cap online /\ joined[p] = NoSlot
    /\ building' = [building EXCEPT ![p] = 0]
    /\ UNCHANGED <<online, joined, tracks, race, early, thrown>>

AppendCheckpoint(p) ==
    /\ p \in Admins \cap online /\ building[p] # NoTrack
    /\ building[p] < MaxCheckpoints
    /\ building' = [building EXCEPT ![p] = @ + 1]
    /\ UNCHANGED <<online, joined, tracks, race, early, thrown>>

\* Fewer than two checkpoints throw and change nothing.
Create(p) ==
    /\ p \in Admins \cap online /\ building[p] >= 2
    /\ tracks' = tracks \cup {building[p]}
    /\ building' = [building EXCEPT ![p] = NoTrack]
    /\ UNCHANGED <<online, joined, race, early, thrown>>

(***************************************************************************)
(* Gathering racers.                                                       *)
(***************************************************************************)

\* Racing(name, starter), Join, RacingMgr.Add: if the slot still has a race the
\* new one is dropped again and its destructor takes "race_joined" back.
StartName(p, n) ==
    /\ p \in online /\ n \in tracks
    /\ joined[p] = NoSlot
    /\ race[p].state = "none"
    /\ race' = [race EXCEPT ![p] = [NoRace EXCEPT !.state = "joining", !.length = n,
                                                  !.racers = {p}]]
    /\ joined' = [joined EXCEPT ![p] = p]
    /\ UNCHANGED <<online, building, tracks, early, thrown>>

Join(p, s) ==
    /\ p \in online
    /\ race[s].state = "joining"
    /\ joined[p] = NoSlot
    /\ race' = [race EXCEPT ![s].racers = @ \cup {p}]
    /\ joined' = [joined EXCEPT ![p] = s]
    /\ UNCHANGED <<online, building, tracks, early, thrown>>

\* Whoever sits on the starter's slot may start the race, if his level is high
\* enough.  The racers are frozen until Start lets them go.
Ready(p) ==
    /\ p \in Admins \cap online
    /\ race[p].state = "joining"
    /\ race' = [race EXCEPT ![p].state = "ready"]
    /\ UNCHANGED <<online, joined, building, tracks, early, thrown>>

(***************************************************************************)
(* The countdown and Start, on a pool thread.                              *)
(***************************************************************************)

\* Mutant: the end of the countdown is missed.
CountDown_PastZero(s) ==
    /\ race[s].state = "ready" /\ race[s].countdown >= 0
    /\ race' = [race EXCEPT ![s].countdown = @ - 1]
    /\ UNCHANGED <<online, joined, building, tracks, early, thrown>>

CountDown(s) ==
    /\ race[s].state = "ready" /\ race[s].countdown > 0
    /\ race' = [race EXCEPT ![s].countdown = @ - 1]
    /\ UNCHANGED <<online, joined, building, tracks, early, thrown>>

\* The timer is destroyed and the state set; the racers come after.
Start(s) ==
    /\ race[s].state = "ready" /\ race[s].countdown = 0
    /\ race' = [race EXCEPT ![s].state = "progress", ![s].starting = TRUE,
                            ![s].todo = race[s].racers]
    /\ UNCHANGED <<online, joined, building, tracks, early, thrown>>

\* Mutant: the rank is taken before the counter is decreased.
Reached_RankFirst(r, p) ==
    LET cp == r.cp[p] + 1
    IN  IF cp # r.length
        THEN [r EXCEPT !.cp[p] = cp]
        ELSE [r EXCEPT !.cp[p] = cp, !.waiting = @ - 1,
                       !.rank[p] = Cardinality(r.racers) - r.waiting]

\* PlayerReachCheckpoint and PlayerFinish as far as they concern the race r.
Reached(r, p) ==
    LET cp == r.cp[p] + 1
    IN  IF cp # r.length
        THEN [r EXCEPT !.cp[p] = cp]
        ELSE [r EXCEPT !.cp[p] = cp, !.waiting = @ - 1,
                       !.rank[p] = Cardinality(r.racers) - (r.waiting - 1)]

\* Mutant: the racers are counted with one too many.
StartCount_OneTooMany(s) ==
    /\ race[s].starting /\ race[s].todo = {}
    /\ race' = [race EXCEPT ![s].starting = FALSE,
                            ![s].waiting = Cardinality(race[s].racers) + 1]
    /\ UNCHANGED <<online, joined, building, tracks, early, thrown>>

\* One iteration of the loop of Start: the first checkpoint is passed for him.
StartRacer(s, p) ==
    /\ race[s].starting /\ p \in race[s].todo
    /\ race[s].cp[p] < race[s].length
    /\ race' = [race EXCEPT ![s] = [Reached(race[s], p) EXCEPT !.todo = @ \ {p}]]
    /\ early' = (early \/ race'[s].cp[p] = race[s].length)
    /\ UNCHANGED <<online, joined, building, tracks, thrown>>

StartCount(s) ==
    /\ race[s].starting /\ race[s].todo = {}
    /\ race' = [race EXCEPT ![s].starting = FALSE,
                            ![s].waiting = Cardinality(race[s].racers)]
    /\ UNCHANGED <<online, joined, building, tracks, early, thrown>>

(***************************************************************************)
(* The race.                                                               *)
(***************************************************************************)

\* Mutant: the destructor forgets "race_joined".
Freed_None(s) == {{}}

\* ~Racing takes "race_joined" from its racers one after the other, and throws
\* at the first one, in the order of the map, who has no profile any more.
Freed(s) ==
    IF race[s].racers \subseteq online THEN {race[s].racers}
    ELSE SUBSET (race[s].racers \cap online)

\* The race is removed.
Finish(s) ==
    /\ race' = [race EXCEPT ![s] = NoRace]
    /\ \E free \in Freed(s) :
          joined' = [q \in Slots |-> IF q \in free THEN NoSlot ELSE joined[q]]
    /\ thrown' = IF race[s].racers \subseteq online THEN thrown ELSE thrown \cup {s}

\* PlayerReachCheckpoint for a racer who has finished: in the loop of Start, and
\* then wherever the bytes behind the track have put his checkpoint.  It reads
\* `_checkpoints` past the end, and that ends the process or goes unnoticed.
PastTheEnd(s, p) ==
    /\ race[s].state = "progress" /\ race[s].cp[p] >= race[s].length
    /\ \/ p \in race[s].todo
       \/ race[s].cp[p] > race[s].length /\ joined[p] = s
    /\ \/ Crash
       \/ /\ race' = [race EXCEPT ![s].cp[p] = race[s].length + 1, ![s].todo = @ \ {p}]
          /\ UNCHANGED <<online, joined, building, tracks, early, thrown>>

\* A racer without "race_joined" is not heard, and one who has finished has no
\* checkpoint; the last one to finish ends the race.
OnPlayerEnterRaceCheckpoint(p) ==
    LET s == joined[p]
        r == Reached(race[s], p)
        finished == r.cp[p] = r.length
    IN  /\ p \in online /\ s # NoSlot
        /\ race[s].state = "progress" /\ p \in race[s].racers
        /\ race[s].cp[p] < race[s].length
        /\ early' = (early \/ (finished /\ race[s].starting))
        /\ \/ finished /\ r.waiting = 0 /\ Finish(s)
           \/ /\ ~ (finished /\ r.waiting = 0)
              /\ race' = [race EXCEPT ![s] = r]
              /\ UNCHANGED <<joined, thrown>>
        /\ UNCHANGED <<online, building, tracks>>

Next ==
    \/ \E p \in Slots :
          \/ Connect(p) \/ Disconnect(p)
          \/ CreateName(p) \/ AppendCheckpoint(p) \/ Create(p)
          \/ Ready(p) \/ OnPlayerEnterRaceCheckpoint(p)
          \/ CountDown(p) \/ Start(p) \/ StartCount(p)
    \/ \E p \in Slots, n \in 1 .. MaxCheckpoints : StartName(p, n)
    \/ \E p, s \in Slots : Join(p, s) \/ StartRacer(s, p) \/ PastTheEnd(s, p)

Spec == Init /\ [][Next]_vars

(***************************************************************************)
(* Properties.                                                             *)
(***************************************************************************)

Races ==
    [state : {"none", "joining", "ready", "progress"}, length : 0 .. MaxCheckpoints,
     racers : SUBSET Slots, cp : [Slots -> 0 .. MaxCheckpoints + 1],
     rank : [Slots -> Nat], waiting : Int, countdown : 0 .. CountDownFrom,
     starting : BOOLEAN, todo : SUBSET Slots]

TypeOK ==
    /\ online \in SUBSET Slots
    /\ joined \in [Slots -> Slots \cup {NoSlot}]
    /\ building \in [Slots -> {NoTrack} \cup 0 .. MaxCheckpoints]
    /\ tracks \in SUBSET (2 .. MaxCheckpoints)
    /\ race \in [Slots -> Races]
    /\ early \in BOOLEAN
    /\ thrown \in SUBSET Slots

\* "race_joined" names a race that lists the player, through disconnects, races
\* dropped at once and reused slots, unless the destructor of that slot's race
\* threw.
JoinedIsRacer ==
    \A p \in Slots :
        joined[p] # NoSlot /\ joined[p] \notin thrown => p \in race[joined[p]].racers

Finished(s) == {p \in race[s].racers : race[s].cp[p] = race[s].length}

\* The ranks given so far are 1, 2, 3, ... without a gap or a tie, unless
\* somebody finished before Start had counted the racers.
RanksInOrder ==
    ~ early => \A s \in Slots :
        race[s].state = "progress" =>
            {race[s].rank[p] : p \in Finished(s)} = 1 .. Cardinality(Finished(s))

\* A race all of whose racers have finished is over and removed, unless
\* somebody finished before Start had counted the racers.
DoneRaceIsRemoved ==
    ~ early => \A s \in Slots :
        race[s].state = "progress" => Finished(s) # race[s].racers

=============================================================================
