# Freshcity: TLA+ models of the game mode

Freshcity is a game mode for a San Andreas Multiplayer server, written in C++
over three vendored libraries (`sampgdk`, the streamer, the mongo client). Its
own code is `src/freshcity.server.gamemode`. This directory holds TLA+ models of
that code, configurations that check them with TLC, and proofs checked with
TLAPS. File names below are relative to `src/freshcity.server.gamemode`.

## The system

The server calls the game mode's callbacks (`OnPlayerConnect`, `OnDialogResponse`,
`OnPlayerDeath`, ...) one at a time on its main thread. Timers
(`application_gamemode_callback_timer.cpp`) come from the Win32 timer queue: their
callbacks run on pool threads, beside the main thread and with no lock. Everything
that lasts is a document of a Mongo database, reached through one shared
connection. A failing database call throws; on the main thread a callback's
`catch` ends the handler where it stands, on a pool thread nothing catches. A call that
returns may all the same have had no effect, because the error check that follows it
speaks of whatever was last sent over the connection.

| component | state | operations | interacts with |
|---|---|---|---|
| saveable items (`SaveableItem`) and the connection (`GetDB`) | `_rawdata`, `_uniqueid`; one `DBClientConnection` with `_failed` | `Create`, `Update`, `Destroy`, `Refetch`, the loading constructors | everything that lasts |
| team registry (`TeamManager`, `IdentifierAllocator`) | members, their in-game numbers, `_count`, the stack of returned numbers | `Add`, `Remove`, `LoadAllFromDatabase`; `Get`, `Return` | start-up, the server dialog |
| profiles and sessions (`Profile`, `ProfileManager`) | per slot: document id, archive, signed-in flag, autosave timer, team, money, variables; the documents | connect, disconnect, register, log in, sync, autosave | teams, dialogs, timers, database |
| team membership (`Team`) | `_onlineplayers` | `Join`, `Quit` | profiles, `StartWar` |
| turf wars (`GangZoneItem`) | owner, `_warinfo`, two timers; the document | `StartWar`, `EndWar`, counters, `MemberArrived`, reload, create, remove | teams, players, areas, pool threads |
| zones on the map (`GangZoneManager`, `/gz`, `/gzc`) | zones by number, areas, triggers; `gz_create` of profiles, open dialogs | the wizard, removal by a list, loads at start-up and on demand | teams, streamer, database |
| roles, kills and streaks (`Role`, `KillCounter`) | role of a profile with its last use, the engineer's tower, the streak | choose, use a skill, build, kill, die, leave | profiles, streamer |
| racing (`Racing`) | per starter: state, checkpoints, racers, countdown, `waitingplayer`; `race_joined`, `race_create` of profiles | build, join, ready, count down, start, reach a checkpoint, finish | profiles, commands, pool threads |
| properties (`Property`) | owner, `_lastdraw`; the document | create, load, purchase, draw, sell | markers, dialogs, money of profiles |
| dialogs, commands, item managers | tables | `Show`, `Exec`, `Add`, `Remove`, `Get` | all of the above |
| free waypoints, message queue, configuration, strings and SHA-256, logging | see "Not modelled" | | |

What is hard here:

* two threads without a lock: autosave against disconnect, `EndWar` against kills,
  reloads and another `EndWar`, `Racing::Start` against the racers; and all of them
  over one database connection whose error check speaks of the last write of
  whichever thread;
* database calls whose outcome nobody knows: they throw before or after they took
  effect, or return without effect, and either way they may still take effect later;
* handlers that stop in the middle: a database call that throws, `Quit` after a reload, a destructor that throws, a zone's constructor
  that throws with its area already on the map;
* objects that outlive what they refer to: profiles left on a slot, timers that
  point to destroyed zones, areas of zones that never came to be, dialogs answered
  long after they were shown;
* two copies of everything: the document is written first, memory after, and a
  player's money only at the next sync.

`PROJECT.json` lists these hazards at their lines, each with the properties meant
to catch it.

## Modules

Each component has a module, an `MC` module for TLC, and where there are theorems a
`Proofs` module. A main-thread callback is one action. A pool-thread callback is
split at the statements between which the main thread can act. A database call
that may throw gives its handler a second action, named `...Fails`. Variables marked
"history" are read by properties only and never restrict a step. Operators whose
comment says "Mutant" are plausible mistakes in the definition below them; each
breaks the property it is paired with in `PROJECT.json`.

**Store.** The abstract specification of a saveable item: documents, and calls that
begin, take effect at most once and in one step, and return or throw. A call that
returned has taken effect unless another call ran beside it; one that threw may have
taken effect, or may do so later (`stray`), or never.

**Documents.** `SaveableItem` over the shared connection, message by message. `call[t]`
says between which two messages of `say`, `getLastError`, `findOne` and `recv` thread
`t` stands. `wire` and `replies` are what is under way, `failed` is the client's
`_failed`, and a failed connection is replaced at the next message (`Reconnect`), also
under a thread that still waits on the old one (`cut`). `Break` and `Lost` are the
network's. `S == INSTANCE Store WITH active <- Active, op <- Op, stray <- Stray` is the
refinement: sending and receiving are stutters, `Process` of a write is `Apply` or
`Late`, the last reply is `Return`.

**TeamRegistry.** `count` and `returned` are the allocator's `_count` and stack,
`holder` the number of each team's object, `leaked` the numbers taken by an
addition that threw. `LoadAllFromDatabase` is four kinds of steps (`ReloadBegin`,
`ReloadReturn`, `ReloadClear`, `ReloadTeam`), because it returns all numbers while
the members still exist and may stop at any document.

**Sessions.** One profile record per slot, the collection as a sequence (`findOne`
takes the first match), the dialog each client shows, the rosters, and the autosave
callback in flight (`saving`). `OnPlayerDisconnect` has four outcomes: complete,
`Sync` threw, `Quit` threw, no profile. `ApplyDataToPlayer` adds the archive's money
to what the profile holds, as the code does.

**TurfWar.** One zone's document and up to `MaxObjects` `GangZoneItem` objects over
it, since a reload makes a new one and leaves the old one's timers alone. `call` is
the `EndWar` call of each kind of timer, with its next statement: `EndWarDecide`,
`EndWarSave`, `EndWarOwn`, `EndWarReset`, `EndWarClear`, `EndWarEnd`. `Tick` is a
minute; a due timer is dispatched, and its callback is over, before the next one.
Timers left over from an earlier war stay armed, so `endTimers` and `timeouts` are sets.
The two periods are any two numbers, for nothing in the code orders them: `crossed`
records that one `EndWar` call passed the check of `InWar` inside another. `stray` is a
write of the owner, or the removal, still under way (`LateWrite`); `Lossy` says whether the
database may lose or delay one.

**Zones.** All zones of the server. `reg` holds `GangZoneMgr` by the number the server
gave each zone, and the areas and triggers, one `mark` for the pair, that carry this
number. `Constructed` runs the constructors over the cursor, `Reached` says how far they can
get, and `Ends` what the last one leaves when it throws, for the mark is made before the
owner's team is looked up, as in `_InitArea` and `_LoadOwnerData`; `Outcomes` are the
registries a load can end with. The
wizard is the set of entries of `gz_create` that are set (`step`), `stray` a write of a
document that is still under way, and `list` is what the
remove dialog showed when it was opened. `OnGameModeInit` is one action with `later` for
whether it got past the zones.

**Combat.** The role of each profile with the time since its last use, the towers in the
streamer, the streak. A role is owned by its profile, so a new choice, a death
(`OnDeath`) and the removal of the profile destroy the tower with it; a disconnect that
threw leaves the profile, its role and its streak to the next player on the slot.

**Racing.** One race per starter's slot. `Start` is split into setting the state, one
step per racer, and counting the racers, for line 162 comes after the loop. A racer
is frozen by `Ready` and let go by his own turn in `Start`; but the code does not check
that, and one whom somebody has put into his checkpoint reaches it before. `PastTheEnd` is
what follows for one who finishes so: `PlayerReachCheckpoint` reads behind the track, and
the process ends (`Crash`) or nobody notices. `Finish` destroys the race; `Freed` are the racers whose
`race_joined` the destructor takes back, all of them, or, when one has left, any part
of the others (an `unordered_map` has no order).

**Properties.** One property, its document, the money of the players in memory and
saved, and the property dialog of each client. `Guests` are players without a
document: `OnPlayerRequestSpawn` lets them spawn and nothing on the way to
`Purchase` asks for one. Every write has the outcomes of `Returned` or `Threw`. A player who
leaves is saved, unless he timed out, and what `Crash` and a time out lose is kept in
`undone`.

The modules meet in what they share. `Documents` shows what a call on a saveable item
can do: take effect and return; throw, with its effect, without it, or before it; or,
when another thread's messages come between, return without its effect or before it.
`TurfWar`, `Properties` and `Zones` have all of these (`unsure`, `stray`, `LateWrite`), a
creation that reads its document back excepted, which throws when there is none. In
`TeamRegistry` a reload reads any set of documents, which stands for all of them. `Sessions`
has the calls that throw. It leaves out a save that returns without effect or is late: that
leaves, or puts back, an older amount of the same account, which its owner had earned as
well, and no property of `Sessions` says that a save took effect. `Combat` and `Racing` write
nothing the properties are about. `Sessions` proves of the rosters what
`TurfWar!StartWar` needs to walk them, and of signed-in profiles that they have a
document. `Zones` has many zones and no wars, `TurfWar` one zone and its wars; both
construct a zone from its document and find the owner's team missing after a reload.
`Racing`, `Combat` and `Properties` see a profile as being there or not.

## Runs

| run | bounds | distinct states | shows |
|---|---|---|---|
| `documents` | 2 threads, 1 item, 2 values, 2 connections, 3 calls | 1.5 million | a normal return means the write took effect, unless mixed with another thread's; nobody waits for a reply that will not come; an item has an id exactly if it has a document; `SaveableItem` implements `Store` |
| `team_ids` | 3 teams, numbers up to 4 | 2 thousand | numbers are unique, never reused while held, lost only to additions that threw; 0 only at the limit |
| `sessions_slot` | 1 slot, 2 players, 2 teams, 2 documents | 3.5 million | no save without a document, own profile and no minted money as long as disconnects ran to their end, rosters and profiles agree |
| `sessions_stale` | as `sessions_slot`, 1 team | violation | a player is asked for another account's password |
| `turfwar_rules` | 2 players, 2 teams, 1 object, 1 kill each, both timers of 1 minute | 1.9 million | with `EndWar` calls that overlap each other: a zone in war has something that will end the war, the announced winner owns the zone, the timeout is armed only while unanswered, scores start level |
| `turfwar_writes` | 1 object, 1 kill each, a write may be lost or late | 0.9 million | owner in memory and document agree, and agree again after a write that did not |
| `turfwar_objects` | 2 objects | 1.9 million | the same with reloads, removals and timers of destroyed objects |
| `turfwar_liveness` | 1 object, fairness | 61 thousand | no two calls cross when the timeout is the shorter; every war ends |
| `zones` | 2 documents, 2 teams, 2 administrators, 3 marks, 1 late write | 1.0 million | areas and triggers lead to their zones, lists mean what they show, a clean start loads everything |
| `combat` | 2 players, mechanic's limit 2 and the others' 1, 3 kills in all | 2.8 million | streaks count kills in a row, towers go with their builders, skills keep their distance |
| `racing_rules` | 3 slots, 1 administrator, 2 checkpoints | 3.9 million | a racer is in the race he has joined, ranks without gap or tie, a finished race is removed, no race over a track of one checkpoint |
| `properties` | 2 players, 1 guest, 4 points in time, period of 2, 1 doubtful write | 1.8 million | document and memory agree, money and ownership balance, no period is paid twice |

Why the bounds suffice. Two threads and three calls let one call run inside another and a
third find what they left; two connections are one replaced and one in use. (`documents`
may stop: the calls are bounded, so deadlock is not checked there.) The allocator's cases
are an empty stack, a full one and the limit; three teams and a limit of 4 give each with a
number lost on the way. One slot and two names are what an inherited profile needs, two
teams what a roster mix-up needs; that rosters and profiles agree on any number of slots is
proved. Two objects are one destroyed and one live zone. Timers of equal length
(`turfwar_rules`) fall due together, so that two calls overlap at every statement, and a
timer of one war is still armed in the next; a war of two minutes with a timeout of one
(the other three runs) is the usual order. A war starts at most once a minute
(`OncePerMinute`), so that two timers of a kind never fall due together. One write at a time
is under way (`Delayed` in `TurfWar`, `NoWrite` in `Zones`), `MaxDoubts` bounds those of
`Properties`; one is enough to overtake a later write. Two zone documents with three marks leave room for the mark of a
zone that was never finished beside those of two zones; one administrator leads both teams
and makes zones, both have lists (`FewLists` leaves out making a zone with one's own remove
list open, for the list of the other administrator gives the same cases, and lists open while
a write is under way, for lists show objects and not documents). A limit
of 2 and of 1 make a role that may act where the other must wait; three kills give a streak
broken and begun again (`FewKills` counts those of both players together). Three racers are enough for a finisher, a racer under way and one
who has left; only administrators can build and start, so one slot of theirs is enough. Two
periods suffice to draw twice; `MaxMoney` stops the sale-and-crash cycle that otherwise adds
money without end.

Fairness. `WarsEnd` assumes that the clock of the timer queue advances and that its
threads run what they were given (`Tick`, `Dispatch`, `EndWar`). Nothing is assumed of
players, reloads, crashes or the database. The run uses no symmetry.

Some properties carry a condition, and the condition is something the code does that the
property cannot survive. What is left to the property is that nothing else breaks it, which
`PROJECT.json` spells out at each hazard; where the code heals, the condition ends with the
healing (`unsure`, `late`, `old`).

| condition | what happened | properties |
|---|---|---|
| `mixed` | another thread wrote, queried or reconnected between a call's write and its error check | `NormalReturnTookEffect` |
| `overlap` | two calls ran at the same time | `ImplementsStore` (in `Store`) |
| `doubtful` | a call on the item threw or was mixed | `ItemMatchesDocument` |
| `unclean` | a disconnect stopped early | `ProfileIsOwn`, `NoMoneyMinted` |
| `late` | a kill was counted between the reset of an `EndWar` and its end, and no later one has reset the counters | `ScoreStartsLevel` |
| `crossed` | one `EndWar` call passed the check of `InWar` inside another, which takes a timeout that is not the shorter timer (`CallsDoNotCross`) | `TrueMeansAttackerWins`, `OwnerSaved` |
| `unsure` (`TurfWar`) | an owner was lost or is late, or a destroyed object saved one, and no load or conquest came since | `OwnerSaved` |
| `half` | a zone's constructor threw and left its area and trigger | `MarksLeadHome` |
| `old` | a zone was made after the list was shown | `ListIsRight` |
| `excuse` | the database failed since the start, or a player changed team inside the wizard | `EverythingLoaded` |
| `stale` | a disconnect threw | `TowersFollow` |
| `chose` | a role was chosen, which starts the cooldown afresh | `SkillsSpaced` |
| `early` | a racer finished before the racers were counted | `RanksInOrder`, `DoneRaceIsRemoved` |
| `thrown` | a race's destructor threw | `JoinedIsRacer` |
| `unsure` (`Properties`) | the last write of a field is in doubt or one is under way, and no load or later write came since | `PropertySaved` (that field) |
| `doubted` | the player traded while the stored owner was unsure | `Ledger` (that player) |

Two properties measure instead what the code loses: `Ledger` adds what leaving without a `Sync`
(a time out, a crash) took from a player or gave him (`undone`), `ProfitEarned` the time by
which a load set the last draw back (`reopened`), because the document had lost a draw.

## What the violation shows

* `sessions_stale`: a player is signed in and disconnects, and the `Update` of his `Sync`
  throws (`application_gamemode_main.cpp:129`). The `catch` at `:136` ends the callback before
  `ProfileMgr.Remove`, so his profile stays on the slot. The next player there gets no new one,
  since `ProfileMgr.Add` keeps what is there and its result is ignored (`:91`), and
  `OnPlayerConnect` asks him for the password of the account it finds (`:102`). A `Quit` that
  throws after a reload of the teams (`:132`) leaves a profile behind in the same way.

Behaviours of the code met while modelling, which the models contain:

* When `turfwartimeout` is not below `turfwarlast`, two `EndWar` calls may overlap:
  `SetOwner(_warinfo.Attacker)` takes a reference that the other call clears between
  `Update` and the assignment, and the call that announces a winner has saved an unset
  owner. `turfwar_rules` contains these runs; without `crossed` TLC finds one against
  `TrueMeansAttackerWins`.
* A player who buys a property, times out and connects again has both the property and the
  money: the owner was saved at once, the money not at all (`application_gamemode_main.cpp:128`).
  One who sells and times out has neither.
* A thread whose `recv` fails after another thread has reconnected marks the new, healthy
  connection as failed; the next message replaces it again.
* A zone whose constructor threw leaves an area and a trigger with its number; they lead to
  whichever zone gets the number next. A finish answered again after such a throw can write
  a second document.
* A player who loses his team in the middle of the wizard finishes a zone with an unset
  owner. Its document stops every later load at that zone, and since the zone is never in
  the list it cannot be removed through the dialog.
* The cooldown belongs to the role, so choosing the same role again ends it. A streak
  survives the death of its holder, and a kill is not counted when the killer faces exactly
  360 degrees.
* The pickup that rewards a streak (`application_gamemode_main.cpp:243-274`) is never given
  to a manager and is destroyed as soon as it is made. The fine for a death is taken on the
  client only and undone by the next `GiveMoney`.
* `~Racing` asks for the profile of a racer who has left and throws; the racers after him
  are told that they are in a race already (`application_data_racing.cpp:66`, `:98`) until they
  reconnect.
* A guest who buys a property pays, is told that the purchase succeeded
  (`application_gamemode_callback_dialog.cpp:309`), and owns nothing.

## Proofs

Every safety invariant, action property and refinement that a run checks is also a
theorem, for every value of the constants that satisfies the module's `ASSUME`. Each rests
on an inductive invariant shown to hold initially and to be kept by every action, one lemma
per action or group of actions.

* `DocumentsProofs`, for any number of threads, items, connections and calls, has three
  invariants over one model.
  * `Inv` (`TypeCorrect`, `NormalReturns`, `Implements`). The heart is `CheckCovers`: an error
    check on a wire has its own call's write before it with nothing but checks between, or
    the write has failed already and the connection's last error says so. It needs that a
    message with a sender belongs to a call that still runs (`SenderActive`,
    `WriteIsCalls`), that a call has one write (`OneWrite`), and that a failed connection
    under a call means another call ran beside it (`Overlaps`). `Implements` then goes
    through the actions: each is a step of `Store` or leaves its variables alone.
  * `QueueInv` (`RepliesMatch`) counts over finite sets, hence the assumption that there are
    finitely many threads: threads cut off still wait (`CutWait`), and a connection still to
    come carries nothing (`Unopened`), so that a reconnection starts from an empty count.
  * `ItemInv` (`ItemsMatch`) says of an item, with calls still at work on it, when the
    document must exist and when the id must be set (`Agree`). It needs that a call that
    creates or loads an item has it to itself (`Alone`, from the guards of the calls and from
    `InsertHasNoId` and `UnusedUntouched`), that a write left behind on a wire has made its
    item doubtful (`MessageFits`), and that a loading call is told nothing that a later write
    could contradict (`LoadAnswers`).
* `TurfWarProofs` (`TypeCorrect`, `WarsHaveAnEnd`, `TimeoutsUnanswered`, `WinnersOwn`,
  `ScoresStartLevel`, `OwnersAreSaved`, `WarsDoNotCross`), for any teams, players, number of
  objects and lengths of the two timers, and a database that loses and delays writes or does
  not. `Wars` says of each object what its `EndWar` calls know of attacker and winner as long
  as none has crossed another, where the counters are zero, and which of its timeout timers
  the running war can still be ended by; `Unmade` that nothing happens to an object before it
  is made; `LiveDocs` which objects still have the zone's document; `SavedOwner` relates the
  owner in memory to it and to what is under way. `WarsDoNotCross` is about the two timers: when
  the timeout is the shorter one an object is always in one of three phases, at peace, armed,
  or ending with a single call past the check. `MissingAssumption` says that the markers of a
  removed document and of no write are no teams.
* `ZonesProofs` (`TypeCorrect`, `MarksAlwaysLeadHome`, `ListsAreRight`, `AllIsLoaded`), for any number of documents, teams, administrators and areas. `ZonesInv`
  adds that a document is that of one zone only (`Apart`), that a zone's document was
  written (`DocsExist`), that the wizard and all owners are members and teams as long as
  nobody changes team on the way (`Wizards`), and that all teams are loaded without a fault
  (`TeamsThere`). A load of unknown length is an induction over the cursor's documents;
  that a constructor finds a free number is a count of documents against numbers. The
  assumptions are that documents are finitely many and at most as many as the areas
  (`Cardinality(Docs) <= MaxMarks`: the model's bound leaves room to load them all), and
  that the markers of absent documents are no teams or documents.
* `CombatProofs` (`TypeCorrect`, `StreaksCount`, `TowersGoWithBuilders`,
  `SkillsKeepDistance`), for any players, limits and interval. A streak is described by the
  kill it began with (`StreakFrom`): every gap since is short and the one before is long.
  `Cooldowns` says that a role's clock is never ahead of the time since its skill was used
  unless the role was chosen anew, which carries the action property. The number of kills
  is bounded by `MaxKills` for any bound.
* `RacingProofs` (`TypeCorrect`, `RacersAreListed`, `RanksAreInOrder`, `FinishedRacesGo`),
  for any slots, track and countdown. `RanksOK` ties the code's counter `waitingplayer` to
  what it stands for: the racers less those who have finished, and above zero once they were
  counted. The rank the code computes from it is then the next free one.
* `TeamRegistryProofs` (`TypeCorrect`, `TeamIdsUnique`, `StackHoldsFreeIds`,
  `ZeroOnlyAtLimit`, `NumbersAreKept`). Uniqueness alone is not inductive: `IInv` adds that
  no number exceeds `_count` (`Bounded`), that the stack holds no number in use, that a lost
  number never comes back (`LeakedGone`), and which teams the reload has still to visit
  (`TodoOK`). The key lemma, `GetIsFresh`, says that `Get` returns a number nobody holds, or
  0 at the limit.
* `SessionsProofs` (`TypeCorrect`, `RostersAgree`, `SavesHaveDocuments`, `ProfilesAreOwn`,
  `MoneyIsEarned`). The roster invariant is kept together with the links between profiles,
  documents and the callback in flight; there is one lemma per group of handlers, and frame
  lemmas for the steps that touch one slot. `OwnInv` says, as long as every disconnect ran to
  its end, that profile, login dialog and save in flight of a slot are those of the player on
  it, that a save which outlived its profile still goes to the account it was made for, and
  that no document holds more than its owner earned.
* `PropertiesProofs` (`TypeCorrect`, `PropertyIsSaved`, `LedgerBalances`,
  `ProfitPaidOnce`), for any number of doubtful writes. `Writing` says once what every outcome
  of an `Update` leaves behind. `Times` orders creation, last draw and clock, in memory, in the
  document and in what is under way; `UnsureUnderWay` says that a field with a write under way
  is unsure. `Paid` bounds the periods paid by the last draw the server knew of and by what
  loads have set it back. `Owns` says that memory and document agree about every player who
  never traded in doubt, and that a late owner is never one of these: without it a late write
  could give the property to, or take it from, a player the ledger speaks of.

The library's induction theorems take an operator as a parameter, which the provers cannot
instantiate. Where a proof needs induction (the least element of a set, a load of unknown
length) it argues with sets: the set of naturals that have the property, and its least
counterexample (`LeastNatural`, `NatInd`).

Only model-checked: `WarsEnd`, because liveness under fairness is out of the prover's reach.

## Plan

1. Composition of `Sessions` with `Racing` and `Combat` over the same profiles, with the
   ones left behind by a failed disconnect.
2. The step properties behind some of the invariants as theorems of their own: a number once
   lost is never given out again (`TeamRegistry`), a rank once given is never changed
   (`Racing`).

## Not modelled

Of the implementation's lines nearly all are vendored: the mongo client with the embedded
sources of its server, Eigen, boost and the streamer, and the wrappers sampgdk generates.
The game mode's own code is about 5,000 lines. Of the libraries only what the game mode
leans on is modelled, from the vendored source: the client's messages, error check and
reconnection (`Documents`) and the streamer's choice of ids (`Zones`).

Of the game mode itself:

* the message queue (three text draws, display only; pushed to from several threads
  without a lock), logging, minidumps, run-time counters;
* strings, charsets, colours, geometry and SHA-256, which are pure: the password is modelled
  by who knows it;
* health, weapons and pickups on the ground, whose effect is the game's; free waypoints and
  teleport triggers, one document each without a protocol; the spawn waypoint of a zone, which
  the wizard writes first and nothing here reads again. A zone may lack it, since its `Create`
  does not read the insert back (`application_data_base.cpp:48-51`): whoever spawns there meets
  a constructor that throws;
* `InitData`, a copy of a document of a cursor, which appears where managers load; setters
  that nothing calls (`SetName`, `SetValue`, `SetProfit`, `SetSpawnPoint`, `Racing::Quit`);
* the configuration, a property tree read once, whose values are CONSTANTS; weather and world
  time, which nothing reads;
* races on a single word (`int` counters, the map of a manager during a lookup), and the
  overflow of the profit of a property left undrawn for long.
