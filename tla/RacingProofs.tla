---------------------------- MODULE RacingProofs ----------------------------
(***************************************************************************)
(* For any number of players, any track and any countdown: "race_joined"   *)
(* names a race that lists the player, ranks are given without a gap or a  *)
(* tie, and a race that is over is removed, as long as nobody finishes     *)
(* before Start has counted the racers.                                    *)
(***************************************************************************)
EXTENDS Racing, FiniteSetTheorems, TLAPS

-----------------------------------------------------------------------------
(***************************************************************************)
(* What the steps make of a race, field by field.                          *)
(***************************************************************************)

\* The record of a slot without a race.
LEMMA EmptyRace ==
    /\ NoRace \in Races
    /\ NoRace.state = "none" /\ NoRace.racers = {} /\ NoRace.cp = [q \in Slots |-> 0]
    /\ NoRace.waiting = 0 /\ NoRace.starting = FALSE /\ NoRace.todo = {}
<1>2. /\ MaxCheckpoints \in Nat /\ CountDownFrom \in Nat
      /\ [q \in Slots |-> 0] \in [Slots -> 0 .. MaxCheckpoints + 1]
      /\ [q \in Slots |-> 0] \in [Slots -> Nat]
  BY RacingAssumption
<1> QED
  BY <1>2 DEF Races, NoRace

\* What StartName makes of NoRace.
Opened(n, p) == [NoRace EXCEPT !.state = "joining", !.length = n, !.racers = {p}]

\* The race that StartName opens.
LEMMA NewRace ==
    ASSUME NEW n \in 2 .. MaxCheckpoints, NEW p \in Slots, NEW u,
           u = Opened(n, p)
    PROVE  /\ u \in Races
           /\ u.state = "joining" /\ u.length = n /\ u.racers = {p}
           /\ (\A q \in Slots : u.cp[q] = 0) /\ u.waiting = 0
           /\ ~ u.starting /\ u.todo = {}
<1>1. PICK v : v = [NoRace EXCEPT !.state = "joining"]
  OBVIOUS
<1>2. /\ v \in Races /\ v.state = "joining" /\ (\A q \in Slots : v.cp[q] = 0)
      /\ v.waiting = 0 /\ ~ v.starting /\ v.todo = {}
  BY <1>1, EmptyRace DEF Races
<1>3. PICK w : w = [v EXCEPT !.length = n]
  OBVIOUS
<1>4. /\ w \in Races /\ w.state = "joining" /\ w.length = n /\ (\A q \in Slots : w.cp[q] = 0)
      /\ w.waiting = 0 /\ ~ w.starting /\ w.todo = {}
  <2>1. n \in 0 .. MaxCheckpoints
    BY RacingAssumption
  <2> QED
    BY <1>2, <1>3, <2>1 DEF Races
<1>5. u = [w EXCEPT !.racers = {p}]
  BY <1>1, <1>3, EmptyRace DEF Races, Opened
<1>6. /\ u \in Races /\ u.state = w.state /\ u.length = w.length /\ u.racers = {p}
      /\ u.cp = w.cp /\ u.waiting = w.waiting /\ u.starting = w.starting /\ u.todo = w.todo
  <2>1. {p} \in SUBSET Slots
    OBVIOUS
  <2> QED
    BY <1>4, <1>5, <2>1 DEF Races
<1> QED
  BY <1>4, <1>6

\* Join adds a racer.
LEMMA JoinedRace ==
    ASSUME NEW r \in Races, NEW p \in Slots, NEW u, u = [r EXCEPT !.racers = @ \cup {p}]
    PROVE  /\ u \in Races
           /\ u.state = r.state /\ u.length = r.length /\ u.racers = r.racers \cup {p}
           /\ u.cp = r.cp /\ u.rank = r.rank /\ u.waiting = r.waiting
           /\ u.starting = r.starting /\ u.todo = r.todo
  BY DEF Races

\* Ready changes the state alone.
LEMMA StateRace ==
    ASSUME NEW r \in Races, NEW u, u = [r EXCEPT !.state = "ready"]
    PROVE  /\ u \in Races
           /\ u.state = "ready" /\ u.length = r.length /\ u.racers = r.racers
           /\ u.cp = r.cp /\ u.rank = r.rank /\ u.waiting = r.waiting
           /\ u.starting = r.starting /\ u.todo = r.todo
  BY DEF Races

\* The race that Start begins.
Off(r) == [r EXCEPT !.state = "progress", !.starting = TRUE, !.todo = r.racers]

\* Start's first step.
LEMMA StartedRace ==
    ASSUME NEW r \in Races, NEW u,
           u = Off(r)
    PROVE  /\ u \in Races
           /\ u.state = "progress" /\ u.length = r.length /\ u.racers = r.racers
           /\ u.cp = r.cp /\ u.rank = r.rank /\ u.waiting = r.waiting
           /\ u.starting = TRUE /\ u.todo = r.racers
  BY DEF Races, Off
\* The race whose racers StartCount has counted.
Counted(r, n) == [r EXCEPT !.starting = FALSE, !.waiting = n]

\* Start's last step.
LEMMA CountedRace ==
    ASSUME NEW r \in Races, NEW u, NEW n \in Nat,
           u = Counted(r, n)
    PROVE  /\ u \in Races
           /\ u.state = r.state /\ u.length = r.length /\ u.racers = r.racers
           /\ u.cp = r.cp /\ u.rank = r.rank /\ u.waiting = n
           /\ u.starting = FALSE /\ u.todo = r.todo
<1>1. PICK v : v = [r EXCEPT !.starting = FALSE]
  OBVIOUS
<1>2. /\ v \in Races /\ v.state = r.state /\ v.length = r.length /\ v.racers = r.racers
      /\ v.cp = r.cp /\ v.rank = r.rank /\ v.starting = FALSE /\ v.todo = r.todo
  BY <1>1 DEF Races
<1>3. u = [v EXCEPT !.waiting = n]
  BY <1>1 DEF Races, Counted
<1> QED
  BY <1>2, <1>3 DEF Races

\* The race one of whose racers has passed the last checkpoint, c, as number n.
Crossed(r, p, c, n) == [r EXCEPT !.cp[p] = c, !.waiting = @ - 1, !.rank[p] = n]

\* PlayerFinish for one racer.
LEMMA FinishedRace ==
    ASSUME NEW r \in Races, NEW u, NEW p \in Slots, NEW c \in 0 .. MaxCheckpoints + 1,
           NEW n \in Nat,
           u = Crossed(r, p, c, n)
    PROVE  /\ u \in Races
           /\ u.state = r.state /\ u.length = r.length /\ u.racers = r.racers
           /\ u.cp = [r.cp EXCEPT ![p] = c] /\ u.rank = [r.rank EXCEPT ![p] = n]
           /\ u.waiting = r.waiting - 1
           /\ u.starting = r.starting /\ u.todo = r.todo
<1>1. PICK v : v = [r EXCEPT !.cp[p] = c]
  OBVIOUS
<1>2. /\ v \in Races /\ v.state = r.state /\ v.length = r.length /\ v.racers = r.racers
      /\ v.cp = [r.cp EXCEPT ![p] = c] /\ v.rank = r.rank /\ v.waiting = r.waiting
      /\ v.starting = r.starting /\ v.todo = r.todo
  BY <1>1 DEF Races
<1>3. PICK w : w = [v EXCEPT !.waiting = @ - 1]
  OBVIOUS
<1>4. /\ w \in Races /\ w.state = r.state /\ w.length = r.length /\ w.racers = r.racers
      /\ w.cp = [r.cp EXCEPT ![p] = c] /\ w.rank = r.rank /\ w.waiting = r.waiting - 1
      /\ w.starting = r.starting /\ w.todo = r.todo
  <2>1. /\ w \in Races /\ w.state = v.state /\ w.length = v.length /\ w.racers = v.racers
        /\ w.cp = v.cp /\ w.rank = v.rank /\ w.waiting = v.waiting - 1
        /\ w.starting = v.starting /\ w.todo = v.todo
    BY <1>2, <1>3 DEF Races
  <2> QED
    BY <1>2, <2>1
<1>5. u = [w EXCEPT !.rank[p] = n]
  BY <1>1, <1>3 DEF Races, Crossed
<1>6. /\ u \in Races /\ u.state = w.state /\ u.length = w.length /\ u.racers = w.racers
      /\ u.cp = w.cp /\ u.rank = [w.rank EXCEPT ![p] = n] /\ u.waiting = w.waiting
      /\ u.starting = w.starting /\ u.todo = w.todo
  BY <1>4, <1>5 DEF Races
<1> QED
  BY <1>4, <1>6

\* The race that sends one racer off.
Sent(r, p) == [r EXCEPT !.todo = @ \ {p}]

\* One turn of Start's loop.
LEMMA SentRace ==
    ASSUME NEW r \in Races, NEW u, NEW p \in Slots, u = Sent(r, p)
    PROVE  /\ u \in Races
           /\ u.state = r.state /\ u.length = r.length /\ u.racers = r.racers
           /\ u.cp = r.cp /\ u.rank = r.rank /\ u.waiting = r.waiting
           /\ u.starting = r.starting /\ u.todo = r.todo \ {p}
  BY DEF Races, Sent

\* The race one of whose racers is past the end of the track.
Past(r, p) == [r EXCEPT !.cp[p] = r.length + 1, !.todo = @ \ {p}]

\* A checkpoint read past the end.
LEMMA PastRace ==
    ASSUME NEW r \in Races, NEW u, NEW p \in Slots, u = Past(r, p)
    PROVE  /\ u \in Races
           /\ u.state = r.state /\ u.length = r.length /\ u.racers = r.racers
           /\ u.cp = [r.cp EXCEPT ![p] = r.length + 1] /\ u.rank = r.rank
           /\ u.waiting = r.waiting /\ u.starting = r.starting /\ u.todo = r.todo \ {p}
<1>1. PICK v : v = [r EXCEPT !.cp[p] = r.length + 1]
  OBVIOUS
<1>2. /\ v \in Races /\ v.state = r.state /\ v.length = r.length /\ v.racers = r.racers
      /\ v.cp = [r.cp EXCEPT ![p] = r.length + 1] /\ v.rank = r.rank
      /\ v.waiting = r.waiting /\ v.starting = r.starting /\ v.todo = r.todo
  <2>1. r.length + 1 \in 0 .. MaxCheckpoints + 1
    BY RacingAssumption DEF Races
  <2> QED
    BY <1>1, <2>1 DEF Races
<1>3. u = [v EXCEPT !.todo = @ \ {p}]
  BY <1>1 DEF Races, Past
<1> QED
  BY <1>2, <1>3 DEF Races

\* A turn of the countdown.
LEMMA CountdownRace ==
    ASSUME NEW r \in Races, NEW u, r.countdown > 0, u = [r EXCEPT !.countdown = @ - 1]
    PROVE  /\ u \in Races
           /\ u.state = r.state /\ u.length = r.length /\ u.racers = r.racers
           /\ u.cp = r.cp /\ u.rank = r.rank /\ u.waiting = r.waiting
           /\ u.starting = r.starting /\ u.todo = r.todo
  BY RacingAssumption DEF Races

-----------------------------------------------------------------------------
(***************************************************************************)
(* A race on its own.                                                      *)
(***************************************************************************)

\* The racers who have passed the last checkpoint.
Done(r) == {p \in r.racers : r.cp[p] = r.length}

\* Nothing happens to the racers before Start, which sends off each of them
\* once.
RaceOK(r) ==
    /\ r.state = "none" => r.racers = {}
    /\ r.state # "none" => r.length >= 2 /\ r.racers # {}
    /\ r.state # "progress" => /\ ~ r.starting /\ r.todo = {} /\ r.waiting = 0
                               /\ \A p \in Slots : r.cp[p] = 0
    /\ r.waiting <= Cardinality(r.racers)
    /\ r.todo \subseteq r.racers
    /\ r.todo # {} => r.starting

\* Once they are counted, `_finishedplayers` is the number of those who are still
\* on the way, and not zero.
RankOK(r) ==
    r.state = "progress" =>
        /\ r.starting => Done(r) = {}
        /\ ~ r.starting => /\ r.waiting = Cardinality(r.racers) - Cardinality(Done(r))
                           /\ r.waiting > 0
        /\ {r.rank[p] : p \in Done(r)} = 1 .. Cardinality(Done(r))

\* Sets of players are finite.
LEMMA Finite ==
    ASSUME NEW S \in SUBSET Slots
    PROVE  IsFiniteSet(S) /\ Cardinality(S) \in Nat /\ (S # {} => Cardinality(S) > 0)
<1>1. IsFiniteSet(S)
  BY RacingAssumption, FS_Subset
<1>2. Cardinality(S) \in Nat
  BY <1>1, FS_CardinalityType
<1>3. S # {} => Cardinality(S) # 0
  BY <1>1, FS_EmptySet
<1> QED
  BY <1>1, <1>2, <1>3

\* NoRace is in order.
LEMMA EmptyOK == RaceOK(NoRace) /\ RankOK(NoRace)
<1>1. Cardinality({}) = 0
  BY FS_EmptySet
<1>2. \A q \in Slots : NoRace.cp[q] = 0
  BY EmptyRace
<1> QED
  BY <1>1, <1>2, EmptyRace DEF RaceOK, RankOK

\* A new race is in order.
LEMMA NewOK ==
    ASSUME NEW n \in 2 .. MaxCheckpoints, NEW p \in Slots, NEW u,
           u = Opened(n, p)
    PROVE  u \in Races /\ RaceOK(u) /\ RankOK(u) /\ u.racers = {p} /\ u.state = "joining"
<1>1. /\ u \in Races
      /\ u.state = "joining" /\ u.length = n /\ u.racers = {p}
      /\ (\A q \in Slots : u.cp[q] = 0) /\ u.waiting = 0
      /\ ~ u.starting /\ u.todo = {}
  BY NewRace
<1>2. Cardinality(u.racers) \in Nat
  BY <1>1, Finite
<1>3. \A q \in Slots : u.cp[q] = 0
  BY <1>1
<1>4. RaceOK(u)
  BY <1>1, <1>2, <1>3 DEF RaceOK
<1> QED
  BY <1>1, <1>4 DEF RankOK

\* So is one that somebody joins,
LEMMA JoinedOK ==
    ASSUME NEW r \in Races, RaceOK(r), r.state = "joining", NEW p \in Slots,
           NEW u, u = [r EXCEPT !.racers = @ \cup {p}]
    PROVE  u \in Races /\ RaceOK(u) /\ RankOK(u) /\ u.racers = r.racers \cup {p}
<1>1. /\ u \in Races
      /\ u.state = r.state /\ u.length = r.length /\ u.racers = r.racers \cup {p}
      /\ u.cp = r.cp /\ u.rank = r.rank /\ u.waiting = r.waiting
      /\ u.starting = r.starting /\ u.todo = r.todo
  BY JoinedRace
<1>2. r.racers \cup {p} \in SUBSET Slots
  BY DEF Races
<1>3. Cardinality(u.racers) \in Nat
  BY <1>1, <1>2, Finite
<1>4. RaceOK(u)
  BY <1>1, <1>3 DEF RaceOK
<1> QED
  BY <1>1, <1>4 DEF RankOK

\* one that is closed to joiners,
LEMMA ReadyOK ==
    ASSUME NEW r \in Races, RaceOK(r), r.state = "joining",
           NEW u, u = [r EXCEPT !.state = "ready"]
    PROVE  u \in Races /\ RaceOK(u) /\ RankOK(u) /\ u.racers = r.racers
<1>1. /\ u \in Races
      /\ u.state = "ready" /\ u.length = r.length /\ u.racers = r.racers
      /\ u.cp = r.cp /\ u.rank = r.rank /\ u.waiting = r.waiting
      /\ u.starting = r.starting /\ u.todo = r.todo
  BY StateRace
<1>2. RaceOK(u)
  BY <1>1 DEF RaceOK
<1> QED
  BY <1>1, <1>2 DEF RankOK

\* one that is counted down,
LEMMA CountdownOK ==
    ASSUME NEW r \in Races, RaceOK(r), r.state = "ready", r.countdown > 0,
           NEW u, u = [r EXCEPT !.countdown = @ - 1]
    PROVE  u \in Races /\ RaceOK(u) /\ RankOK(u) /\ u.racers = r.racers
<1>1. /\ u \in Races
      /\ u.state = r.state /\ u.length = r.length /\ u.racers = r.racers
      /\ u.cp = r.cp /\ u.rank = r.rank /\ u.waiting = r.waiting
      /\ u.starting = r.starting /\ u.todo = r.todo
  BY CountdownRace
<1>2. RaceOK(u)
  BY <1>1 DEF RaceOK
<1> QED
  BY <1>1, <1>2 DEF RankOK

\* one that begins, in which nobody has finished,
LEMMA StartedOK ==
    ASSUME NEW r \in Races, RaceOK(r), r.state = "ready",
           NEW u, u = Off(r)
    PROVE  u \in Races /\ RaceOK(u) /\ RankOK(u) /\ u.racers = r.racers
<1>1. /\ u \in Races
      /\ u.state = "progress" /\ u.length = r.length /\ u.racers = r.racers
      /\ u.cp = r.cp /\ u.rank = r.rank /\ u.waiting = r.waiting
      /\ u.starting = TRUE /\ u.todo = r.racers
  BY StartedRace
<1>2. r.racers \in SUBSET Slots /\ r.length \in Nat /\ r.length >= 2
      /\ \A p \in Slots : r.cp[p] = 0
  BY RacingAssumption DEF Races, RaceOK
<1>3. RaceOK(u)
  BY <1>1, <1>2 DEF RaceOK
<1>4. Done(u) = {}
  BY <1>1, <1>2 DEF Done
<1>5. Cardinality(Done(u)) = 0
  BY <1>4, FS_EmptySet
<1>6. {u.rank[p] : p \in Done(u)} = 1 .. Cardinality(Done(u))
  BY <1>4, <1>5
<1> QED
  BY <1>1, <1>3, <1>4, <1>6 DEF RankOK

\* and one whose racers are counted, none of whom has finished.
LEMMA CountedOK ==
    ASSUME NEW r \in Races, RaceOK(r), r.starting, r.todo = {},
           NEW u, u = Counted(r, Cardinality(r.racers))
    PROVE  u \in Races /\ RaceOK(u) /\ (RankOK(r) => RankOK(u)) /\ u.racers = r.racers
<1>0. r.racers \in SUBSET Slots
  BY DEF Races
<1>n. Cardinality(r.racers) \in Nat
  BY <1>0, Finite
<1>1. /\ u \in Races
      /\ u.state = r.state /\ u.length = r.length /\ u.racers = r.racers
      /\ u.cp = r.cp /\ u.rank = r.rank /\ u.waiting = Cardinality(r.racers)
      /\ u.starting = FALSE /\ u.todo = r.todo
  BY <1>n, CountedRace
<1>2. r.state = "progress" /\ r.racers # {}
  BY DEF RaceOK
<1>3. RaceOK(u)
  BY <1>1, <1>2, <1>n DEF RaceOK
<1>4. ASSUME RankOK(r) PROVE RankOK(u)
  <2>1. Done(r) = {} /\ {r.rank[p] : p \in Done(r)} = 1 .. Cardinality(Done(r))
    BY <1>2, <1>4 DEF RankOK
  <2>2. Done(u) = Done(r)
    BY <1>1 DEF Done
  <2>3. Cardinality(Done(u)) = 0 /\ Cardinality(r.racers) > 0
    BY <1>0, <1>2, <2>1, <2>2, Finite, FS_EmptySet
  <2>4. {u.rank[p] : p \in Done(u)} = 1 .. Cardinality(Done(u))
    BY <1>1, <2>1, <2>2
  <2>5. u.waiting = Cardinality(u.racers) - Cardinality(Done(u)) /\ u.waiting > 0
    BY <1>1, <1>n, <2>3
  <2> QED
    BY <1>1, <2>4, <2>5 DEF RankOK
<1> QED
  BY <1>1, <1>3, <1>4

\* p passes a checkpoint of the race r, which becomes u.
Passing(u, r, p) ==
    /\ u \in Races
    /\ u.state = r.state /\ u.length = r.length /\ u.racers = r.racers
    /\ u.cp = [r.cp EXCEPT ![p] = r.cp[p] + 1]
    /\ u.starting = r.starting /\ u.todo = r.todo
    /\ r.cp[p] + 1 # r.length => u.waiting = r.waiting /\ u.rank = r.rank
    /\ r.cp[p] + 1 = r.length =>
          /\ u.waiting = r.waiting - 1
          /\ u.rank = [r.rank EXCEPT ![p] = Cardinality(r.racers) - (r.waiting - 1)]

\* A racer on his way passes a checkpoint.
LEMMA ReachedRace ==
    ASSUME NEW r \in Races, RaceOK(r), NEW p \in r.racers, r.cp[p] < r.length,
           NEW u, u = Reached(r, p)
    PROVE  Passing(u, r, p)
<1>0. /\ p \in Slots /\ r.racers \in SUBSET Slots /\ r.length \in 0 .. MaxCheckpoints
      /\ r.waiting \in Int /\ r.cp[p] \in 0 .. MaxCheckpoints + 1
      /\ MaxCheckpoints \in Nat
  BY RacingAssumption DEF Races
<1>1. PICK c : c = r.cp[p] + 1
  OBVIOUS
<1>2. c \in 0 .. MaxCheckpoints + 1
  BY <1>0, <1>1
<1>3. PICK n : n = Cardinality(r.racers) - (r.waiting - 1)
  OBVIOUS
<1>4. n \in Nat
  <2>1. Cardinality(r.racers) \in Nat
    BY <1>0, Finite
  <2>2. r.waiting <= Cardinality(r.racers)
    BY DEF RaceOK
  <2> QED
    BY <1>0, <1>3, <2>1, <2>2
<1>5. CASE c # r.length
  <2>1. u = [r EXCEPT !.cp[p] = c]
    BY <1>1, <1>5 DEF Reached
  <2>2. /\ u \in Races
        /\ u.state = r.state /\ u.length = r.length /\ u.racers = r.racers
        /\ u.cp = [r.cp EXCEPT ![p] = c] /\ u.rank = r.rank /\ u.waiting = r.waiting
        /\ u.starting = r.starting /\ u.todo = r.todo
    BY <1>0, <1>2, <2>1 DEF Races
  <2> QED
    BY <1>1, <1>5, <2>2 DEF Passing
<1>6. CASE c = r.length
  <2>1. u = Crossed(r, p, c, n)
    BY <1>1, <1>3, <1>6 DEF Reached, Crossed
  <2>2. /\ u \in Races
        /\ u.state = r.state /\ u.length = r.length /\ u.racers = r.racers
        /\ u.cp = [r.cp EXCEPT ![p] = c] /\ u.rank = [r.rank EXCEPT ![p] = n]
        /\ u.waiting = r.waiting - 1
        /\ u.starting = r.starting /\ u.todo = r.todo
    BY <1>0, <1>2, <1>4, <2>1, FinishedRace
  <2> QED
    BY <1>1, <1>3, <1>6, <2>2 DEF Passing
<1> QED
  BY <1>5, <1>6

\* The race is still in order.
LEMMA ReachedOK ==
    ASSUME NEW r \in Races, RaceOK(r), NEW p \in r.racers, r.cp[p] < r.length,
           r.state = "progress", NEW u, u = Reached(r, p)
    PROVE  u \in Races /\ RaceOK(u) /\ u.racers = r.racers
<1>1. /\ u \in Races
      /\ u.state = r.state /\ u.length = r.length /\ u.racers = r.racers
      /\ u.cp = [r.cp EXCEPT ![p] = r.cp[p] + 1]
      /\ u.starting = r.starting /\ u.todo = r.todo
      /\ (u.waiting = r.waiting \/ u.waiting = r.waiting - 1)
  <2>1. Passing(u, r, p)
    BY ReachedRace
  <2> QED
    BY <2>1 DEF Passing
<1>2. r.waiting \in Int /\ r.racers \in SUBSET Slots
  BY DEF Races
<1>4. Cardinality(r.racers) \in Nat /\ r.waiting <= Cardinality(r.racers)
  BY <1>2, Finite DEF RaceOK
<1>5. u.waiting <= Cardinality(u.racers)
  BY <1>1, <1>2, <1>4
<1> QED
  BY <1>1, <1>5 DEF RaceOK

\* The ranks of a race whose finishers and counter are the same.
LEMMA SameRanks ==
    ASSUME NEW r, NEW u, RankOK(r), u.state = r.state, u.starting = r.starting,
           u.waiting = r.waiting, u.racers = r.racers, u.rank = r.rank, Done(u) = Done(r)
    PROVE  RankOK(u)
<1> SUFFICES ASSUME u.state = "progress"
             PROVE  /\ u.starting => Done(u) = {}
                    /\ ~ u.starting => /\ u.waiting = Cardinality(u.racers) - Cardinality(Done(u))
                                       /\ u.waiting > 0
                    /\ {u.rank[q] : q \in Done(u)} = 1 .. Cardinality(Done(u))
  BY DEF RankOK
<1>1. /\ r.starting => Done(r) = {}
      /\ ~ r.starting => /\ r.waiting = Cardinality(r.racers) - Cardinality(Done(r))
                         /\ r.waiting > 0
      /\ {r.rank[q] : q \in Done(r)} = 1 .. Cardinality(Done(r))
  BY DEF RankOK
<1>2. {u.rank[q] : q \in Done(u)} = 1 .. Cardinality(Done(u))
  BY <1>1
<1> QED
  BY <1>1, <1>2

\* A racer who is not at the last checkpoint yet.
LEMMA PassedRanks ==
    ASSUME NEW r \in Races, RaceOK(r), RankOK(r), NEW p \in r.racers, r.cp[p] < r.length,
           r.cp[p] + 1 # r.length, NEW u, u = Reached(r, p)
    PROVE  RankOK(u) /\ u.waiting = r.waiting
<1>1. /\ u.state = r.state /\ u.length = r.length /\ u.racers = r.racers
      /\ u.cp = [r.cp EXCEPT ![p] = r.cp[p] + 1]
      /\ u.starting = r.starting /\ u.waiting = r.waiting /\ u.rank = r.rank
  <2>1. Passing(u, r, p)
    BY ReachedRace
  <2> QED
    BY <2>1 DEF Passing
<1>2. /\ r.cp \in [Slots -> 0 .. MaxCheckpoints + 1] /\ r.racers \in SUBSET Slots
      /\ r.length \in 0 .. MaxCheckpoints /\ MaxCheckpoints \in Nat
  BY RacingAssumption DEF Races
<1>3. u.cp[p] # u.length /\ r.cp[p] # r.length
      /\ \A q \in Slots : q # p => u.cp[q] = r.cp[q]
  BY <1>1, <1>2
<1>4. Done(u) = Done(r)
  BY <1>1, <1>2, <1>3 DEF Done
<1> QED
  BY <1>1, <1>4 DEF RankOK

\* One who is gets the next rank.
LEMMA FinishedRanks ==
    ASSUME NEW r \in Races, RaceOK(r), RankOK(r), NEW p \in r.racers, r.cp[p] < r.length,
           r.state = "progress", ~ r.starting,
           r.cp[p] + 1 = r.length, NEW u, u = Reached(r, p), u.waiting # 0
    PROVE  RankOK(u)
<1>1. /\ u.state = r.state /\ u.length = r.length /\ u.racers = r.racers
      /\ u.cp = [r.cp EXCEPT ![p] = r.cp[p] + 1]
      /\ u.starting = r.starting /\ u.waiting = r.waiting - 1
      /\ u.rank = [r.rank EXCEPT ![p] = Cardinality(r.racers) - (r.waiting - 1)]
  <2>1. Passing(u, r, p)
    BY ReachedRace
  <2> QED
    BY <2>1 DEF Passing
<1>2. /\ r.cp \in [Slots -> 0 .. MaxCheckpoints + 1] /\ r.racers \in SUBSET Slots
      /\ r.length \in 0 .. MaxCheckpoints /\ MaxCheckpoints \in Nat
      /\ r.rank \in [Slots -> Nat] /\ r.waiting \in Int /\ p \in Slots
  BY RacingAssumption DEF Races
<1>3. u.cp[p] = u.length /\ r.cp[p] # r.length
      /\ \A q \in Slots : q # p => u.cp[q] = r.cp[q]
  BY <1>1, <1>2
<1>4. Done(u) = Done(r) \cup {p} /\ p \notin Done(r) /\ Done(r) \in SUBSET Slots
  BY <1>1, <1>2, <1>3 DEF Done
<1>5. PICK d \in Nat : d = Cardinality(Done(r))
  BY <1>4, Finite
<1>6. PICK n \in Nat : n = Cardinality(r.racers)
  BY <1>2, Finite
<1>7. Cardinality(Done(u)) = d + 1
  BY <1>4, <1>5, Finite, FS_AddElement
<1>8. r.waiting = n - d /\ r.waiting > 0 /\ {r.rank[q] : q \in Done(r)} = 1 .. d
  BY <1>5, <1>6 DEF RankOK
<1>9. u.rank[p] = d + 1 /\ \A q \in Slots : q # p => u.rank[q] = r.rank[q]
  BY <1>1, <1>2, <1>6, <1>8
<1>10. {u.rank[q] : q \in Done(u)} = {r.rank[q] : q \in Done(r)} \cup {d + 1}
  <2>1. \A q \in Done(r) : u.rank[q] = r.rank[q]
    BY <1>4, <1>9
  <2> QED
    BY <1>4, <1>9, <2>1
<1>11. (1 .. d) \cup {d + 1} = 1 .. d + 1
  OBVIOUS
<1>12. {u.rank[q] : q \in Done(u)} = 1 .. Cardinality(Done(u))
  BY <1>7, <1>8, <1>10, <1>11
<1>13. u.waiting = Cardinality(u.racers) - Cardinality(Done(u)) /\ u.waiting > 0
  BY <1>1, <1>6, <1>7, <1>8
<1> QED
  BY <1>1, <1>12, <1>13 DEF RankOK

\* One whom Start sends off, and who does not finish by it.
LEMMA SentOK ==
    ASSUME NEW r \in Races, RaceOK(r), r.state = "progress", NEW p \in r.todo,
           r.cp[p] < r.length, NEW v, v = Reached(r, p), NEW u, u = Sent(v, p)
    PROVE  /\ u \in Races /\ RaceOK(u) /\ u.racers = r.racers
           /\ RankOK(r) /\ u.cp[p] # r.length => RankOK(u)
<1>0. p \in r.racers /\ p \in Slots /\ r.todo \in SUBSET Slots
  BY DEF RaceOK, Races
<1>2. v \in Races /\ RaceOK(v) /\ v.racers = r.racers /\ Passing(v, r, p)
  BY <1>0, ReachedOK, ReachedRace
<1>3. /\ u \in Races
      /\ u.state = v.state /\ u.length = v.length /\ u.racers = v.racers
      /\ u.cp = v.cp /\ u.rank = v.rank /\ u.waiting = v.waiting
      /\ u.starting = v.starting /\ u.todo = v.todo \ {p}
  BY <1>0, <1>2, SentRace
<1>6. RaceOK(u)
  BY <1>2, <1>3 DEF RaceOK
<1>7. ASSUME RankOK(r), u.cp[p] # r.length PROVE RankOK(u)
  <2>1. RankOK(v)
    <3>1. r.cp[p] + 1 # r.length
      <4>1. v.cp[p] = r.cp[p] + 1
        BY <1>0, <1>2 DEF Passing, Races
      <4> QED
        BY <1>3, <1>7, <4>1
    <3> QED
      BY <1>0, <1>7, <3>1, PassedRanks
  <2>2. Done(u) = Done(v)
    BY <1>3 DEF Done
  <2> SUFFICES ASSUME u.state = "progress"
               PROVE  /\ u.starting => Done(u) = {}
                      /\ ~ u.starting => /\ u.waiting = Cardinality(u.racers) - Cardinality(Done(u))
                                         /\ u.waiting > 0
                      /\ {u.rank[q] : q \in Done(u)} = 1 .. Cardinality(Done(u))
    BY DEF RankOK
  <2>3. /\ v.starting => Done(v) = {}
        /\ ~ v.starting => /\ v.waiting = Cardinality(v.racers) - Cardinality(Done(v))
                           /\ v.waiting > 0
        /\ {v.rank[q] : q \in Done(v)} = 1 .. Cardinality(Done(v))
    BY <1>3, <2>1 DEF RankOK
  <2>4. {u.rank[q] : q \in Done(u)} = 1 .. Cardinality(Done(u))
    BY <1>3, <2>2, <2>3
  <2> QED
    BY <1>3, <2>2, <2>3, <2>4
<1> QED
  BY <1>2, <1>3, <1>6, <1>7

\* A racer past the end was not among the finishers: while Start is sending off
\* there are none, and afterwards he has been past it before.
LEMMA PastOK ==
    ASSUME NEW r \in Races, RaceOK(r), r.state = "progress", NEW p \in Slots,
           r.cp[p] >= r.length, p \in r.todo \/ r.cp[p] > r.length, NEW u, u = Past(r, p)
    PROVE  u \in Races /\ RaceOK(u) /\ (RankOK(r) => RankOK(u)) /\ u.racers = r.racers
<1>1. /\ u \in Races
      /\ u.state = r.state /\ u.length = r.length /\ u.racers = r.racers
      /\ u.cp = [r.cp EXCEPT ![p] = r.length + 1] /\ u.rank = r.rank
      /\ u.waiting = r.waiting /\ u.starting = r.starting /\ u.todo = r.todo \ {p}
  BY PastRace
<1>2. /\ r.cp \in [Slots -> 0 .. MaxCheckpoints + 1] /\ r.racers \in SUBSET Slots
      /\ r.length \in Nat /\ MaxCheckpoints \in Nat
  BY RacingAssumption DEF Races
<1>3. RaceOK(u)
  BY <1>1 DEF RaceOK
<1>4. ASSUME RankOK(r) PROVE RankOK(u)
  <2>1. p \notin Done(r)
    <3>1. CASE p \in r.todo
      BY <1>4, <3>1 DEF RaceOK, RankOK
    <3>2. CASE r.cp[p] > r.length
      BY <1>2, <3>2 DEF Done
    <3> QED
      BY <3>1, <3>2
  <2>2. u.cp[p] # u.length /\ \A q \in Slots : q # p => u.cp[q] = r.cp[q]
    BY <1>1, <1>2
  <2>3. Done(u) = Done(r)
    BY <1>1, <1>2, <2>1, <2>2 DEF Done
  <2> QED
    BY <1>1, <1>4, <2>3, SameRanks
<1> QED
  BY <1>1, <1>3, <1>4

-----------------------------------------------------------------------------
(***************************************************************************)
(* The invariant.                                                          *)
(***************************************************************************)

RacesOK == \A s \in Slots : RaceOK(race[s])

RanksOK == ~ early => \A s \in Slots : RankOK(race[s])

RacingInv == TypeOK /\ RacesOK /\ RanksOK /\ JoinedIsRacer

\* One race changes.
LEMMA RaceStep ==
    ASSUME TypeOK, RacesOK, RanksOK, NEW s \in Slots, NEW u \in Races, RaceOK(u),
           ~ early' => ~ early /\ RankOK(u), race' = [race EXCEPT ![s] = u]
    PROVE  /\ race' \in [Slots -> Races] /\ RacesOK' /\ RanksOK'
           /\ race'[s] = u /\ \A t \in Slots : t # s => race'[t] = race[t]
<1>1. race'[s] = u /\ \A t \in Slots : t # s => race'[t] = race[t]
  BY DEF TypeOK
<1>2. race' \in [Slots -> Races]
  BY DEF TypeOK
<1>3. ASSUME NEW t \in Slots PROVE RaceOK(race'[t])
  BY <1>1 DEF RacesOK
<1>4. ASSUME NEW t \in Slots, ~ early' PROVE RankOK(race'[t])
  BY <1>1, <1>4 DEF RanksOK
<1>5. RacesOK'
  BY <1>3 DEF RacesOK, RaceOK
<1>6. RanksOK'
  BY <1>4 DEF RanksOK, RankOK, Done
<1> QED
  BY <1>1, <1>2, <1>5, <1>6

\* A race that keeps its racers and its participants.
LEMMA SameRacers ==
    ASSUME RacingInv, NEW s \in Slots, NEW u \in Races, RaceOK(u),
           race' = [race EXCEPT ![s] = u], u.racers = race[s].racers,
           early' \in BOOLEAN, ~ early' => ~ early /\ RankOK(u),
           UNCHANGED <<online, joined, building, tracks, thrown>>
    PROVE  RacingInv'
<1>1. /\ race' \in [Slots -> Races] /\ RacesOK' /\ RanksOK'
      /\ race'[s] = u /\ \A t \in Slots : t # s => race'[t] = race[t]
  BY RaceStep DEF RacingInv
<1>2. TypeOK'
  BY <1>1 DEF RacingInv, TypeOK
<1>3. \A t \in Slots : race'[t].racers = race[t].racers
  BY <1>1
<1>4. JoinedIsRacer'
  <2> SUFFICES ASSUME NEW p \in Slots, joined[p] # NoSlot, joined[p] \notin thrown
               PROVE  p \in race'[joined[p]].racers
    BY DEF JoinedIsRacer
  <2>1. joined[p] \in Slots /\ p \in race[joined[p]].racers
    BY DEF RacingInv, TypeOK, JoinedIsRacer
  <2> QED
    BY <1>3, <2>1
<1> QED
  BY <1>1, <1>2, <1>4 DEF RacingInv

\* A step that concerns no race.
LEMMA NoRaceStep ==
    ASSUME RacingInv, UNCHANGED <<race, early, thrown>>,
           online' \in SUBSET Slots, tracks' \in SUBSET (2 .. MaxCheckpoints),
           building' \in [Slots -> {NoTrack} \cup 0 .. MaxCheckpoints],
           joined' \in [Slots -> Slots \cup {NoSlot}],
           \A p \in Slots : joined'[p] \in {joined[p], NoSlot}
    PROVE  RacingInv'
<1>1. TypeOK'
  BY DEF RacingInv, TypeOK
<1>2. RacesOK' /\ RanksOK'
  <2>0. race' = race /\ early' = early
    OBVIOUS
  <2>1. \A s \in Slots : RaceOK(race'[s])
    BY <2>0 DEF RacingInv, RacesOK
  <2>2. ~ early' => \A s \in Slots : RankOK(race'[s])
    BY <2>0 DEF RacingInv, RanksOK
  <2>3. RacesOK'
    BY <2>1 DEF RacesOK, RaceOK
  <2>4. RanksOK'
    BY <2>2 DEF RanksOK, RankOK, Done
  <2> QED
    BY <2>3, <2>4
<1>3. JoinedIsRacer'
  BY DEF RacingInv, JoinedIsRacer
<1> QED
  BY <1>1, <1>2, <1>3 DEF RacingInv

\* Nothing has begun.
LEMMA InitInv == Init => RacingInv
<1> SUFFICES ASSUME Init PROVE RacingInv
  OBVIOUS
<1>1. TypeOK
  BY EmptyRace DEF Init, TypeOK, NoTrack
<1>2. \A s \in Slots : race[s] = NoRace
  BY DEF Init
<1>3. RacesOK /\ RanksOK
  BY <1>2, EmptyOK DEF RacesOK, RanksOK
<1>4. JoinedIsRacer
  BY DEF Init, JoinedIsRacer
<1> QED
  BY <1>1, <1>3, <1>4 DEF RacingInv

\* Players come and go, and build tracks.
LEMMA OutsideSteps ==
    ASSUME RacingInv, NEW p \in Slots,
           Connect(p) \/ Disconnect(p) \/ CreateName(p) \/ AppendCheckpoint(p) \/ Create(p)
    PROVE  RacingInv'
<1>0. MaxCheckpoints \in Nat /\ MaxCheckpoints >= 2
  BY RacingAssumption
<1>t. TypeOK
  BY DEF RacingInv
<1>1. CASE Connect(p)
  <2>1. /\ UNCHANGED <<race, early, thrown, tracks, building, joined>>
        /\ online' \in SUBSET Slots
    BY <1>1, <1>t DEF Connect, TypeOK
  <2> QED
    BY <1>t, <2>1, NoRaceStep DEF TypeOK
<1>2. CASE Disconnect(p)
  <2>1. /\ UNCHANGED <<race, early, thrown, tracks>>
        /\ online' \in SUBSET Slots
        /\ building' \in [Slots -> {NoTrack} \cup 0 .. MaxCheckpoints]
        /\ joined' \in [Slots -> Slots \cup {NoSlot}]
        /\ \A q \in Slots : joined'[q] \in {joined[q], NoSlot}
    BY <1>2, <1>t DEF Disconnect, TypeOK
  <2> QED
    BY <1>t, <2>1, NoRaceStep DEF TypeOK
<1>3. CASE CreateName(p) \/ AppendCheckpoint(p)
  <2>1. /\ UNCHANGED <<race, early, thrown, tracks, online, joined>>
        /\ building' \in [Slots -> {NoTrack} \cup 0 .. MaxCheckpoints]
    <3>1. CASE CreateName(p)
      BY <1>0, <1>t, <3>1 DEF CreateName, TypeOK
    <3>2. CASE AppendCheckpoint(p)
      <4>1. building[p] + 1 \in 0 .. MaxCheckpoints
        BY <1>0, <1>t, <3>2 DEF AppendCheckpoint, TypeOK
      <4> QED
        BY <1>t, <3>2, <4>1 DEF AppendCheckpoint, TypeOK
    <3> QED
      BY <1>3, <3>1, <3>2
  <2> QED
    BY <1>t, <2>1, NoRaceStep DEF TypeOK
<1>4. CASE Create(p)
  <2>1. building[p] \in 2 .. MaxCheckpoints
    BY <1>0, <1>4, <1>t DEF Create, TypeOK, NoTrack
  <2>2. /\ UNCHANGED <<race, early, thrown, online, joined>>
        /\ tracks' \in SUBSET (2 .. MaxCheckpoints)
        /\ building' \in [Slots -> {NoTrack} \cup 0 .. MaxCheckpoints]
    BY <1>4, <1>t, <2>1 DEF Create, TypeOK
  <2> QED
    BY <1>t, <2>2, NoRaceStep DEF TypeOK
<1> QED
  BY <1>1, <1>2, <1>3, <1>4

\* The countdown and Start, on their thread, and Ready.
LEMMA ClockSteps ==
    ASSUME RacingInv, NEW s \in Slots,
           Ready(s) \/ CountDown(s) \/ Start(s) \/ StartCount(s)
    PROVE  RacingInv'
<1>t. race \in [Slots -> Races] /\ race[s] \in Races /\ RaceOK(race[s])
      /\ early \in BOOLEAN /\ (~ early => RankOK(race[s]))
  BY DEF RacingInv, TypeOK, RacesOK, RanksOK
<1>u. UNCHANGED <<online, joined, building, tracks, early, thrown>>
  BY DEF Ready, CountDown, Start, StartCount
<1>1. CASE Ready(s)
  <2>1. PICK u : u = [race[s] EXCEPT !.state = "ready"]
    OBVIOUS
  <2>2. race[s].state = "joining" /\ race' = [race EXCEPT ![s] = u]
    BY <1>1, <2>1 DEF Ready
  <2>3. u \in Races /\ RaceOK(u) /\ RankOK(u) /\ u.racers = race[s].racers
    BY <1>t, <2>1, <2>2, ReadyOK
  <2> QED
    BY <1>t, <1>u, <2>2, <2>3, SameRacers
<1>2. CASE CountDown(s)
  <2>1. PICK u : u = [race[s] EXCEPT !.countdown = @ - 1]
    OBVIOUS
  <2>2. race[s].state = "ready" /\ race[s].countdown > 0 /\ race' = [race EXCEPT ![s] = u]
    BY <1>2, <2>1 DEF CountDown
  <2>3. u \in Races /\ RaceOK(u) /\ RankOK(u) /\ u.racers = race[s].racers
    BY <1>t, <2>1, <2>2, CountdownOK
  <2> QED
    BY <1>t, <1>u, <2>2, <2>3, SameRacers
<1>3. CASE Start(s)
  <2>1. PICK u : u = Off(race[s])
    OBVIOUS
  <2>2. race[s].state = "ready" /\ race' = [race EXCEPT ![s] = u]
    BY <1>3, <1>t, <2>1 DEF Start, Off
  <2>3. u \in Races /\ RaceOK(u) /\ RankOK(u) /\ u.racers = race[s].racers
    BY <1>t, <2>1, <2>2, StartedOK
  <2> QED
    BY <1>t, <1>u, <2>2, <2>3, SameRacers
<1>4. CASE StartCount(s)
  <2>1. PICK u : u = Counted(race[s], Cardinality(race[s].racers))
    OBVIOUS
  <2>2. race[s].starting /\ race[s].todo = {} /\ race' = [race EXCEPT ![s] = u]
    BY <1>4, <1>t, <2>1 DEF StartCount, Counted
  <2>3. u \in Races /\ RaceOK(u) /\ (RankOK(race[s]) => RankOK(u)) /\ u.racers = race[s].racers
    BY <1>t, <2>1, <2>2, CountedOK
  <2> QED
    BY <1>t, <1>u, <2>2, <2>3, SameRacers
<1> QED
  BY <1>1, <1>2, <1>3, <1>4

\* Start sends a racer off.
LEMMA StartRacerStep ==
    ASSUME RacingInv, NEW s \in Slots, NEW p \in Slots, StartRacer(s, p)
    PROVE  RacingInv'
<1>t. race \in [Slots -> Races] /\ race[s] \in Races /\ RaceOK(race[s])
      /\ early \in BOOLEAN /\ (~ early => RankOK(race[s]))
  BY DEF RacingInv, TypeOK, RacesOK, RanksOK
<1>1. PICK v : v = Reached(race[s], p)
  OBVIOUS
<1>2. PICK u : u = Sent(v, p)
  OBVIOUS
<1>3. /\ race[s].starting /\ p \in race[s].todo /\ race' = [race EXCEPT ![s] = u]
      /\ race[s].cp[p] < race[s].length
      /\ UNCHANGED <<online, joined, building, tracks, thrown>>
  BY <1>1, <1>2 DEF StartRacer, Sent
<1>4. race[s].state = "progress"
  BY <1>t, <1>3 DEF RaceOK
<1>5. /\ u \in Races /\ RaceOK(u) /\ u.racers = race[s].racers
      /\ RankOK(race[s]) /\ u.cp[p] # race[s].length => RankOK(u)
  BY <1>t, <1>1, <1>2, <1>3, <1>4, SentOK
<1>6. early' = (early \/ u.cp[p] = race[s].length)
  BY <1>t, <1>3 DEF StartRacer
<1>7. early' \in BOOLEAN /\ (~ early' => ~ early /\ RankOK(u))
  BY <1>t, <1>5, <1>6
<1> QED
  BY <1>t, <1>3, <1>5, <1>7, SameRacers

\* The process starts with no player and no race.
LEMMA CrashStep ==
    ASSUME RacingInv, Crash
    PROVE  RacingInv'
<1>1. TypeOK'
  BY EmptyRace DEF RacingInv, Crash, TypeOK, NoTrack
<1>2. \A s \in Slots : race'[s] = NoRace
  BY DEF Crash
<1>3. (\A s \in Slots : RaceOK(race'[s])) /\ (\A s \in Slots : RankOK(race'[s]))
  BY <1>2, EmptyOK
<1>4. RacesOK'
  BY <1>3 DEF RacesOK, RaceOK
<1>5. RanksOK'
  BY <1>3 DEF RanksOK, RankOK, Done
<1>6. JoinedIsRacer'
  BY DEF Crash, JoinedIsRacer
<1> QED
  BY <1>1, <1>4, <1>5, <1>6 DEF RacingInv

\* A racer is sent past the end of the track.
LEMMA PastStep ==
    ASSUME RacingInv, NEW s \in Slots, NEW p \in Slots, PastTheEnd(s, p)
    PROVE  RacingInv'
<1>t. race \in [Slots -> Races] /\ race[s] \in Races /\ RaceOK(race[s])
      /\ early \in BOOLEAN /\ (~ early => RankOK(race[s]))
  BY DEF RacingInv, TypeOK, RacesOK, RanksOK
<1>1. CASE Crash
  BY <1>1, CrashStep
<1>2. CASE ~ Crash
  <2>1. PICK u : u = Past(race[s], p)
    OBVIOUS
  <2>2. /\ race' = [race EXCEPT ![s] = u]
        /\ UNCHANGED <<online, joined, building, tracks, early, thrown>>
    BY <1>2, <1>t, <2>1 DEF PastTheEnd, Past
  <2>3. /\ race[s].state = "progress" /\ race[s].cp[p] >= race[s].length
        /\ p \in race[s].todo \/ race[s].cp[p] > race[s].length
    BY DEF PastTheEnd
  <2>4. /\ u \in Races /\ RaceOK(u) /\ (RankOK(race[s]) => RankOK(u))
        /\ u.racers = race[s].racers
    BY <1>t, <2>1, <2>3, PastOK
  <2> QED
    BY <1>t, <2>2, <2>4, SameRacers
<1> QED
  BY <1>1, <1>2

\* A race is opened on a slot that has none: nobody believes to be in it.
LEMMA StartNameStep ==
    ASSUME RacingInv, NEW p \in Slots, NEW n \in 1 .. MaxCheckpoints, StartName(p, n)
    PROVE  RacingInv'
<1>t. TypeOK /\ RacesOK /\ RanksOK /\ JoinedIsRacer /\ race[p] \in Races /\ RaceOK(race[p])
  BY DEF RacingInv, TypeOK, RacesOK
<1>1. PICK u : u = Opened(n, p)
  OBVIOUS
<1>2. /\ race' = [race EXCEPT ![p] = u] /\ joined' = [joined EXCEPT ![p] = p]
      /\ n \in 2 .. MaxCheckpoints /\ race[p].racers = {} /\ joined[p] = NoSlot
      /\ UNCHANGED <<online, building, tracks, early, thrown>>
  <2>1. race' = [race EXCEPT ![p] = u]
    BY <1>1 DEF StartName, Opened
  <2> QED
    BY <1>t, <2>1 DEF StartName, TypeOK, RaceOK
<1>3. u \in Races /\ RaceOK(u) /\ RankOK(u) /\ u.racers = {p}
  BY <1>1, <1>2, NewOK
<1>4. /\ race' \in [Slots -> Races] /\ RacesOK' /\ RanksOK'
      /\ race'[p] = u /\ \A t \in Slots : t # p => race'[t] = race[t]
  BY <1>t, <1>2, <1>3, RaceStep
<1>5. joined'[p] = p /\ \A q \in Slots : q # p => joined'[q] = joined[q]
  BY <1>t, <1>2 DEF TypeOK
<1>6. TypeOK'
  BY <1>t, <1>2, <1>4 DEF TypeOK
<1>7. ASSUME NEW q \in Slots, joined'[q] # NoSlot, joined'[q] \notin thrown
      PROVE  q \in race'[joined'[q]].racers
  <2>1. CASE q = p
    BY <1>3, <1>4, <1>5, <2>1
  <2>2. CASE q # p
    <3>1. joined'[q] = joined[q] /\ joined[q] \in Slots /\ q \in race[joined[q]].racers
      BY <1>t, <1>5, <1>7, <2>2 DEF TypeOK, JoinedIsRacer
    <3>2. joined[q] # p
      BY <1>2, <3>1
    <3> QED
      BY <1>4, <3>1, <3>2
  <2> QED
    BY <2>1, <2>2
<1>8. JoinedIsRacer'
  BY <1>2, <1>7 DEF JoinedIsRacer
<1> QED
  BY <1>4, <1>6, <1>8 DEF RacingInv

\* A player joins the race s.
LEMMA JoinStep ==
    ASSUME RacingInv, NEW p \in Slots, NEW s \in Slots, Join(p, s)
    PROVE  RacingInv'
<1>t. TypeOK /\ RacesOK /\ RanksOK /\ JoinedIsRacer /\ race[s] \in Races /\ RaceOK(race[s])
  BY DEF RacingInv, TypeOK, RacesOK
<1>1. PICK u : u = [race[s] EXCEPT !.racers = @ \cup {p}]
  OBVIOUS
<1>2. /\ race' = [race EXCEPT ![s] = u] /\ joined' = [joined EXCEPT ![p] = s]
      /\ race[s].state = "joining"
      /\ UNCHANGED <<online, building, tracks, early, thrown>>
  BY <1>1 DEF Join
<1>3. u \in Races /\ RaceOK(u) /\ RankOK(u) /\ u.racers = race[s].racers \cup {p}
  BY <1>t, <1>1, <1>2, JoinedOK
<1>4. /\ race' \in [Slots -> Races] /\ RacesOK' /\ RanksOK'
      /\ race'[s] = u /\ \A t \in Slots : t # s => race'[t] = race[t]
  BY <1>t, <1>2, <1>3, RaceStep
<1>5. joined'[p] = s /\ \A q \in Slots : q # p => joined'[q] = joined[q]
  BY <1>t, <1>2 DEF TypeOK
<1>6. TypeOK'
  BY <1>t, <1>2, <1>4 DEF TypeOK
<1>7. ASSUME NEW q \in Slots, joined'[q] # NoSlot, joined'[q] \notin thrown
      PROVE  q \in race'[joined'[q]].racers
  <2>1. CASE q = p
    BY <1>3, <1>4, <1>5, <2>1
  <2>2. CASE q # p
    <3>1. joined'[q] = joined[q] /\ joined[q] \in Slots /\ q \in race[joined[q]].racers
      BY <1>t, <1>5, <1>7, <2>2 DEF TypeOK, JoinedIsRacer
    <3> QED
      BY <1>3, <1>4, <3>1
  <2> QED
    BY <2>1, <2>2
<1>8. JoinedIsRacer'
  BY <1>2, <1>7 DEF JoinedIsRacer
<1> QED
  BY <1>4, <1>6, <1>8 DEF RacingInv

\* The race s is removed: its racers are free, or its destructor threw.
LEMMA FinishStep ==
    ASSUME RacingInv, NEW s \in Slots, Finish(s),
           early' \in BOOLEAN, ~ early' => ~ early, UNCHANGED <<online, building, tracks>>
    PROVE  RacingInv'
<1>t. TypeOK /\ RacesOK /\ RanksOK /\ JoinedIsRacer
  BY DEF RacingInv
<1>1. race' = [race EXCEPT ![s] = NoRace]
  BY DEF Finish
<1>2. PICK free \in Freed(s) : joined' = [q \in Slots |-> IF q \in free THEN NoSlot ELSE joined[q]]
  BY DEF Finish
<1>3. \A q \in Slots : joined'[q] = IF q \in free THEN NoSlot ELSE joined[q]
  BY <1>2
<1>4. thrown' = IF race[s].racers \subseteq online THEN thrown ELSE thrown \cup {s}
  BY DEF Finish
<1>5. /\ race' \in [Slots -> Races] /\ RacesOK' /\ RanksOK'
      /\ race'[s] = NoRace /\ \A t \in Slots : t # s => race'[t] = race[t]
  BY <1>t, <1>1, EmptyRace, EmptyOK, RaceStep
<1>6. TypeOK'
  <2>1. joined' \in [Slots -> Slots \cup {NoSlot}]
    BY <1>t, <1>2 DEF TypeOK
  <2>2. thrown' \in SUBSET Slots
    BY <1>t, <1>4 DEF TypeOK
  <2> QED
    BY <1>t, <1>5, <2>1, <2>2 DEF TypeOK
<1>7. ASSUME NEW q \in Slots, joined'[q] # NoSlot, joined'[q] \notin thrown'
      PROVE  q \in race'[joined'[q]].racers
  <2>1. joined'[q] = joined[q] /\ joined[q] \in Slots /\ q \notin free
    BY <1>t, <1>3, <1>7 DEF TypeOK
  <2>2. joined[q] \notin thrown
    BY <1>4, <1>7, <2>1
  <2>3. q \in race[joined[q]].racers
    BY <1>t, <1>7, <2>1, <2>2 DEF JoinedIsRacer
  <2>4. joined[q] # s
    <3> SUFFICES ASSUME joined[q] = s PROVE FALSE
      OBVIOUS
    <3>1. race[s].racers \subseteq online
      BY <1>4, <1>7, <2>1
    <3>2. free = race[s].racers
      BY <1>2, <3>1 DEF Freed
    <3> QED
      BY <2>1, <2>3, <3>2
  <2> QED
    BY <1>5, <2>1, <2>3, <2>4
<1>8. JoinedIsRacer'
  BY <1>7 DEF JoinedIsRacer
<1> QED
  BY <1>5, <1>6, <1>8 DEF RacingInv

\* A racer enters a checkpoint.
LEMMA CheckpointStep ==
    ASSUME RacingInv, NEW p \in Slots, OnPlayerEnterRaceCheckpoint(p)
    PROVE  RacingInv'
<1>t. TypeOK /\ RacesOK /\ RanksOK
  BY DEF RacingInv
<1>1. PICK s : s = joined[p]
  OBVIOUS
<1>2. PICK r : r = race[s]
  OBVIOUS
<1>3. PICK u : u = Reached(r, p)
  OBVIOUS
<1>4. /\ s # NoSlot /\ r.state = "progress" /\ p \in r.racers
      /\ r.cp[p] < r.length
      /\ early' = (early \/ (u.cp[p] = u.length /\ r.starting))
      /\ \/ u.cp[p] = u.length /\ u.waiting = 0 /\ Finish(s)
         \/ /\ ~ (u.cp[p] = u.length /\ u.waiting = 0)
            /\ race' = [race EXCEPT ![s] = u]
            /\ UNCHANGED <<joined, thrown>>
      /\ UNCHANGED <<online, building, tracks>>
  BY <1>1, <1>2, <1>3 DEF OnPlayerEnterRaceCheckpoint
<1>5. s \in Slots /\ r \in Races /\ RaceOK(r) /\ (~ early => RankOK(r)) /\ early \in BOOLEAN
  <2>1. s \in Slots
    BY <1>t, <1>1, <1>4 DEF TypeOK
  <2> QED
    BY <1>t, <1>2, <2>1 DEF TypeOK, RacesOK, RanksOK
<1>6. early' \in BOOLEAN /\ (~ early' => ~ early /\ ~ (u.cp[p] = u.length /\ r.starting))
  BY <1>4, <1>5
<1>7. CASE Finish(s)
  BY <1>4, <1>5, <1>6, <1>7, FinishStep
<1>8. CASE /\ ~ (u.cp[p] = u.length /\ u.waiting = 0)
           /\ race' = [race EXCEPT ![s] = u]
           /\ UNCHANGED <<joined, thrown>>
  <2>1. u \in Races /\ RaceOK(u) /\ u.racers = r.racers
    BY <1>3, <1>4, <1>5, ReachedOK
  <2>2. ASSUME ~ early' PROVE RankOK(u)
    <3>1. RankOK(r)
      BY <1>5, <1>6, <2>2
    <3>2. CASE r.cp[p] + 1 # r.length
      BY <1>3, <1>4, <1>5, <3>1, <3>2, PassedRanks
    <3>3. CASE r.cp[p] + 1 = r.length
      <4>1. Passing(u, r, p)
        BY <1>3, <1>4, <1>5, ReachedRace
      <4>2. u.cp[p] = u.length
        BY <1>4, <1>5, <3>3, <4>1 DEF Passing, Races
      <4>3. u.waiting # 0 /\ ~ r.starting
        BY <1>6, <1>8, <2>2, <4>2
      <4> QED
        BY <1>3, <1>4, <1>5, <3>1, <3>3, <4>3, FinishedRanks
    <3> QED
      BY <3>2, <3>3
  <2>3. u.racers = race[s].racers
    BY <1>2, <2>1
  <2> QED
    BY <1>4, <1>5, <1>6, <1>8, <2>1, <2>2, <2>3, SameRacers
<1> QED
  BY <1>4, <1>7, <1>8

\* The invariant is inductive.
THEOREM RacingInvariant == Spec => []RacingInv
<1>1. ASSUME RacingInv, [Next]_vars PROVE RacingInv'
  <2>1. CASE UNCHANGED vars
    <3>1. UNCHANGED <<race, early, thrown, online, tracks, building, joined>>
      BY <2>1 DEF vars
    <3> QED
      BY <1>1, <3>1, NoRaceStep DEF RacingInv, TypeOK
  <2>2. CASE Next
    BY <1>1, <2>2, OutsideSteps, ClockSteps, StartRacerStep, PastStep, StartNameStep,
       JoinStep, CheckpointStep DEF Next
  <2> QED
    BY <1>1, <2>1, <2>2
<1> QED
  BY <1>1, InitInv, PTL DEF Spec

\* TypeOK: every race, track and profile stays in range, and no rank is negative.
THEOREM TypeCorrect == Spec => []TypeOK
<1>1. RacingInv => TypeOK
  BY DEF RacingInv
<1> QED
  BY <1>1, RacingInvariant, PTL

\* JoinedIsRacer: "race_joined" names a race that lists the player, unless ~Racing
\* of that slot's race threw.
THEOREM RacersAreListed == Spec => []JoinedIsRacer
<1>1. RacingInv => JoinedIsRacer
  BY DEF RacingInv
<1> QED
  BY <1>1, RacingInvariant, PTL

\* RanksInOrder: PlayerFinish gives the ranks 1, 2, 3, ... without a gap or a tie,
\* as long as nobody finishes before Start has counted the racers.
THEOREM RanksAreInOrder == Spec => []RanksInOrder
<1>1. RacingInv => RanksInOrder
  <2>1. \A s \in Slots : Finished(s) = Done(race[s])
    BY DEF Finished, Done
  <2> QED
    BY <2>1 DEF RacingInv, RanksOK, RankOK, RanksInOrder
<1> QED
  BY <1>1, RacingInvariant, PTL

\* DoneRaceIsRemoved: a race all of whose racers have finished is removed from
\* RacingMgr, as long as nobody finishes before Start has counted the racers.
THEOREM FinishedRacesGo == Spec => []DoneRaceIsRemoved
<1>1. ASSUME RacingInv PROVE DoneRaceIsRemoved
  <2> SUFFICES ASSUME ~ early, NEW s \in Slots, race[s].state = "progress",
                      Done(race[s]) = race[s].racers
               PROVE  FALSE
    BY DEF DoneRaceIsRemoved, Finished, Done
  <2>1. RaceOK(race[s]) /\ RankOK(race[s]) /\ race[s].racers \in SUBSET Slots
    BY <1>1 DEF RacingInv, RacesOK, RanksOK, TypeOK, Races
  <2>2. Cardinality(race[s].racers) \in Nat
    BY <2>1, Finite
  <2> QED
    BY <2>1, <2>2 DEF RaceOK, RankOK
<1> QED
  BY <1>1, RacingInvariant, PTL

=============================================================================
