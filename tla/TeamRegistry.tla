---------------------------- MODULE TeamRegistry ----------------------------
(***************************************************************************)
(* TeamManager and the IdentifierAllocator that numbers its teams.         *)
(*                                                                         *)
(* Every Team object holds an in-game number taken from one allocator      *)
(* (`_idgen`, at most 255 numbers, 0 when none is left).  The manager is   *)
(* emptied and refilled from the database by LoadAllFromDatabase, at start *)
(* and on an administrator's request; a document that cannot be turned     *)
(* into a Team ends the refill with an exception.  LoadAllFromDatabase is  *)
(* split here into its loop iterations, because a refill can stop between  *)
(* any two of them.  Add and Remove are the manager's other two operations.*)
(*                                                                         *)
(* The database is external: each refill reads some set of documents.      *)
(***************************************************************************)
EXTENDS Integers, Sequences

CONSTANTS
    Teams,   \* object ids of the documents the team collection may hold
    MaxId    \* the allocator's `_max`; TeamManager's constructor passes 255

ASSUME MaxIdAssumption == MaxId \in Nat \ {0}

VARIABLES
    count,     \* `_count`, the highest number handed out so far
    returned,  \* `_returned`, the stack of numbers given back (top is last)
    holder,    \* in-game number of each Team in `_members`; NoObject if none
    pc,        \* where LoadAllFromDatabase is; "idle" outside of it
    todo,      \* members (or documents) the current loop has still to visit
    leaked     \* history: numbers taken for a Team whose construction threw

vars == <<count, returned, holder, pc, todo, leaked>>

NoObject == -1

Ids == 0 .. MaxId

Loaded == {t \in Teams : holder[t] # NoObject}

\* A team still owns its number until the first loop has given it back.
Live(t) == holder[t] # NoObject /\ (pc = "return" => t \in todo)

OnStack(id) == \E i \in 1 .. Len(returned) : returned[i] = id

(***************************************************************************)
(* IdentifierAllocator.                                                    *)
(***************************************************************************)

\* Mutants: Get does not stop at `_max`; Get uses _count++ for ++_count.
GetId_NoLimit ==
    IF returned # << >> THEN returned[Len(returned)] ELSE count + 1

GetId_PostIncrement ==
    IF returned # << >> THEN returned[Len(returned)]
    ELSE IF count = MaxId THEN 0 ELSE count

GetId ==
    IF returned # << >> THEN returned[Len(returned)]
    ELSE IF count = MaxId THEN 0 ELSE count + 1

\* Mutant: top() without pop().
AfterGet_NoPop ==
    IF returned # << >>
    THEN UNCHANGED <<returned, count>>
    ELSE /\ returned' = returned
         /\ count' = IF count = MaxId THEN count ELSE count + 1

\* What Get leaves behind in `_returned` and `_count`.
AfterGet ==
    IF returned # << >>
    THEN /\ returned' = SubSeq(returned, 1, Len(returned) - 1)
         /\ count' = count
    ELSE /\ returned' = returned
         /\ count' = IF count = MaxId THEN count ELSE count + 1

ReturnId(id) == returned' = Append(returned, id)

(***************************************************************************)
(* TeamManager.                                                            *)
(***************************************************************************)

Init ==
    /\ count = 0
    /\ returned = << >>
    /\ holder = [t \in Teams |-> NoObject]
    /\ pc = "idle"
    /\ todo = {}
    /\ leaked = {}

\* The number taken for an object that was never stored is lost; 0 is no
\* number, so losing it loses nothing.
Leak == leaked' = leaked \cup ({GetId} \ {0})

\* Add: number, construct, insert the document, store the object.
Add(t) ==
    /\ pc = "idle" /\ holder[t] = NoObject
    /\ holder' = [holder EXCEPT ![t] = GetId]
    /\ AfterGet
    /\ UNCHANGED <<pc, todo, leaked>>

\* Add when the insert throws: the number has been taken.
AddFails ==
    /\ pc = "idle"
    /\ AfterGet
    /\ Leak
    /\ UNCHANGED <<holder, pc, todo>>

\* Mutant of Remove: the number is not given back.
Remove_KeepsId(t) ==
    /\ pc = "idle" /\ holder[t] # NoObject
    /\ holder' = [holder EXCEPT ![t] = NoObject]
    /\ UNCHANGED <<count, returned, pc, todo, leaked>>

Remove(t) ==
    /\ pc = "idle" /\ holder[t] # NoObject
    /\ holder' = [holder EXCEPT ![t] = NoObject]
    /\ ReturnId(holder[t])
    /\ UNCHANGED <<count, pc, todo, leaked>>

ReloadBegin ==
    /\ pc = "idle"
    /\ pc' = "return"
    /\ todo' = Loaded
    /\ UNCHANGED <<count, returned, holder, leaked>>

\* One iteration of the first loop: _idgen.Return(GetIngameID()).
ReloadReturn(t) ==
    /\ pc = "return" /\ t \in todo
    /\ ReturnId(holder[t])
    /\ todo' = todo \ {t}
    /\ UNCHANGED <<count, holder, pc, leaked>>

\* Mutant: the members are not cleared before the cursor is read.
ReloadClear_Keeps(docs) ==
    /\ pc = "return" /\ todo = {}
    /\ holder' = holder
    /\ todo' = docs
    /\ pc' = "load"
    /\ UNCHANGED <<count, returned, leaked>>

\* _members.clear(), then the query that finds the documents `docs`.
ReloadClear(docs) ==
    /\ pc = "return" /\ todo = {}
    /\ holder' = [t \in Teams |-> NoObject]
    /\ todo' = docs
    /\ pc' = "load"
    /\ UNCHANGED <<count, returned, leaked>>

\* One document of the cursor becomes a Team.
ReloadTeam(t) ==
    /\ pc = "load" /\ t \in todo
    /\ holder' = [holder EXCEPT ![t] = GetId]
    /\ AfterGet
    /\ todo' = todo \ {t}
    /\ UNCHANGED <<pc, leaked>>

\* The constructor throws after Get() has been evaluated: the number is lost
\* and the remaining documents are not read.
ReloadTeamFails ==
    /\ pc = "load" /\ todo # {}
    /\ AfterGet
    /\ Leak
    /\ pc' = "idle" /\ todo' = {}
    /\ UNCHANGED holder

\* The cursor is exhausted, or the query or the cursor throws before Get().
ReloadEnd ==
    /\ pc = "load"
    /\ pc' = "idle" /\ todo' = {}
    /\ UNCHANGED <<count, returned, holder, leaked>>

Next ==
    \/ \E t \in Teams : Add(t) \/ Remove(t) \/ ReloadReturn(t) \/ ReloadTeam(t)
    \/ AddFails
    \/ ReloadBegin
    \/ \E docs \in SUBSET Teams : ReloadClear(docs)
    \/ ReloadTeamFails
    \/ ReloadEnd

Spec == Init /\ [][Next]_vars

(***************************************************************************)
(* Properties.                                                             *)
(***************************************************************************)

TypeOK ==
    /\ count \in Ids
    /\ returned \in Seq(Ids)
    /\ holder \in [Teams -> Ids \cup {NoObject}]
    /\ pc \in {"idle", "return", "load"}
    /\ todo \in SUBSET Teams
    /\ leaked \in SUBSET (Ids \ {0})

\* No two teams play under the same in-game number, however reloads, failed
\* loads, additions and removals are ordered; only 0, the number of an
\* exhausted allocator, may be shared.
UniqueIds ==
    \A s, t \in Loaded : holder[s] = holder[t] /\ holder[s] # 0 => s = t

\* A number on the stack is on it once and belongs to no team that still owns
\* it, so the next Get cannot hand it out a second time.
NoReuseInUse ==
    /\ \A i, j \in 1 .. Len(returned) :
          returned[i] = returned[j] /\ returned[i] # 0 => i = j
    /\ \A t \in Teams : Live(t) /\ holder[t] # 0 => ~ OnStack(holder[t])

\* Every number ever handed out is owned by a team, or waits on the stack, or
\* was lost to a construction that threw: a reload loses no other number.
NoIdLost ==
    \A id \in 1 .. count :
        id \in leaked \/ OnStack(id) \/ \E t \in Teams : Live(t) /\ holder[t] = id

\* The shared number 0 appears only after all MaxId numbers have been used.
ZeroMeansExhausted ==
    (\E t \in Teams : holder[t] = 0) => count = MaxId

=============================================================================
