------------------------- MODULE TeamRegistryProofs -------------------------
(***************************************************************************)
(* For every number of documents and every size of the allocator: the      *)
(* in-game numbers of teams are unique, and none is lost but to additions  *)
(* that threw.                                                             *)
(***************************************************************************)
EXTENDS TeamRegistry, SequenceTheorems, TLAPS

\* Numbers never exceed `_count`, and 0 was given out only at the limit.
Bounded ==
    /\ \A i \in 1 .. Len(returned) : returned[i] <= count
    /\ \A t \in Teams : holder[t] <= count
    /\ \A id \in leaked : id <= count
    /\ (OnStack(0) \/ \E t \in Teams : holder[t] = 0) => count = MaxId

\* A lost number is gone for good: not on the stack and not owned.
LeakedGone ==
    \A id \in leaked :
        ~ OnStack(id) /\ \A t \in Teams : Live(t) => holder[t] # id

\* The loops visit only what they still have to: the first loop members, the
\* second documents that have no object yet.
TodoOK ==
    /\ pc = "return" => \A t \in todo : holder[t] # NoObject
    /\ pc = "load" => \A t \in todo : holder[t] = NoObject

IInv ==
    /\ TypeOK
    /\ Bounded
    /\ UniqueIds
    /\ NoReuseInUse
    /\ LeakedGone
    /\ TodoOK

\* What Get returns and leaves behind: a number nobody owns, off the stack
\* and not lost before, within the new `_count`.
LEMMA GetIsFresh ==
    ASSUME IInv, AfterGet
    PROVE  /\ GetId \in Ids
           /\ count' \in Ids /\ count <= count' /\ GetId <= count'
           /\ returned' \in Seq(Ids)
           /\ \A i \in 1 .. Len(returned') :
                 i \in 1 .. Len(returned) /\ returned'[i] = returned[i]
           /\ GetId # 0 => /\ \A i \in 1 .. Len(returned') : returned'[i] # GetId
                           /\ \A t \in Teams : Live(t) => holder[t] # GetId
                           /\ GetId \notin leaked
           /\ GetId = 0 => count' = MaxId
           /\ (count = MaxId) => (count' = MaxId)
  <1> USE MaxIdAssumption DEF Ids
  <1>1. CASE returned # << >>
    <2>1. Len(returned) \in 1 .. Len(returned) /\ Len(returned) \in Nat
      BY <1>1 DEF IInv, TypeOK
    <2>2. /\ GetId = returned[Len(returned)]
          /\ count' = count
          /\ returned' = SubSeq(returned, 1, Len(returned) - 1)
      BY <1>1 DEF GetId, AfterGet
    <2>3. /\ returned' \in Seq(Ids)
          /\ Len(returned') = Len(returned) - 1
          /\ \A i \in 1 .. Len(returned') : returned'[i] = returned[i]
      <3>1. \A i \in 1 .. Len(returned) - 1 : returned[i] \in Ids
        BY DEF IInv, TypeOK
      <3>2. /\ SubSeq(returned, 1, Len(returned) - 1) \in Seq(Ids)
            /\ Len(SubSeq(returned, 1, Len(returned) - 1)) =
                  IF 1 <= Len(returned) - 1 THEN Len(returned) - 1 - 1 + 1 ELSE 0
            /\ \A i \in 1 .. Len(returned) - 1 - 1 + 1 :
                  SubSeq(returned, 1, Len(returned) - 1)[i] = returned[1 + i - 1]
        BY <2>1, <3>1, SubSeqProperties
      <3>5. Len(SubSeq(returned, 1, Len(returned) - 1)) = Len(returned) - 1
        <4>1. \A n \in Nat : n >= 1 => (IF 1 <= n - 1 THEN n - 1 - 1 + 1 ELSE 0) = n - 1
          OBVIOUS
        <4>2. Len(returned) \in Nat /\ Len(returned) >= 1
          BY <2>1
        <4> QED
          BY <4>1, <4>2, <3>2
      <3>3. Len(returned') = Len(returned) - 1
        BY <2>2, <3>5
      <3>4. ASSUME NEW i \in 1 .. Len(returned')
            PROVE  returned'[i] = returned[i]
        <4>1. i \in 1 .. Len(returned) - 1 - 1 + 1 /\ 1 + i - 1 = i
          BY <2>1, <3>3
        <4> QED
          BY <2>2, <3>2, <4>1
      <3> QED
        BY <2>2, <3>2, <3>3, <3>4
    <2>4. OnStack(GetId)
      BY <2>1, <2>2 DEF OnStack
    <2>5. GetId # 0 => \A i \in 1 .. Len(returned') : returned'[i] # GetId
      BY <2>1, <2>2, <2>3 DEF IInv, NoReuseInUse
    <2>6. GetId # 0 => \A t \in Teams : Live(t) => holder[t] # GetId
      BY <2>4 DEF IInv, NoReuseInUse
    <2>7. GetId \notin leaked
      BY <2>4 DEF IInv, LeakedGone
    <2>8. GetId = 0 => count = MaxId
      BY <2>4 DEF IInv, Bounded
    <2>9. GetId \in Ids /\ GetId <= count /\ count \in Ids
      BY <2>1, <2>2 DEF IInv, TypeOK, Bounded
    <2> QED
      BY <2>1, <2>2, <2>3, <2>5, <2>6, <2>7, <2>8, <2>9
  <1>2. CASE returned = << >>
    <2>1. /\ GetId = IF count = MaxId THEN 0 ELSE count + 1
          /\ count' = IF count = MaxId THEN count ELSE count + 1
          /\ returned' = << >> /\ Len(returned') = 0
      BY <1>2 DEF GetId, AfterGet
    <2>2. GetId # 0 => GetId = count + 1
      BY <2>1
    <2>3. GetId # 0 => \A t \in Teams : holder[t] # GetId
      <3>1. ASSUME GetId # 0, NEW t \in Teams
            PROVE  holder[t] # GetId
        <4>1. count \in Int /\ holder[t] \in Int
          BY MaxIdAssumption DEF IInv, TypeOK, Ids, NoObject
        <4>2. holder[t] <= count
          BY DEF IInv, Bounded
        <4> QED
          BY <2>2, <3>1, <4>1, <4>2
      <3> QED
        BY <3>1
    <2>4. GetId # 0 => GetId \notin leaked
      BY <2>2 DEF IInv, TypeOK, Bounded
    <2> QED
      BY <2>1, <2>3, <2>4 DEF IInv, TypeOK
  <1> QED
    BY <1>1, <1>2

\* Giving back the number of a team that owns it keeps the stack free of
\* duplicates.
LEMMA ReturnAppends ==
    ASSUME TypeOK, NEW t \in Teams, holder[t] # NoObject, ReturnId(holder[t])
    PROVE  /\ holder[t] \in Ids
           /\ returned' \in Seq(Ids)
           /\ Len(returned') = Len(returned) + 1
           /\ Len(returned) \in Nat
           /\ returned'[Len(returned) + 1] = holder[t]
           /\ \A i \in 1 .. Len(returned) : returned'[i] = returned[i]
  <1>1. holder[t] \in Ids
    BY DEF TypeOK
  <1> QED
    BY <1>1 DEF TypeOK, ReturnId

\* Initially nothing is loaded and no number is in use.
LEMMA InitIInv == Init => IInv
  BY MaxIdAssumption DEF Init, IInv, TypeOK, Ids, NoObject, Bounded, UniqueIds,
     NoReuseInUse, LeakedGone, TodoOK, Loaded, Live, OnStack

\* Storing a team under a fresh number (Add and one iteration of the second
\* loop) keeps the invariant.
LEMMA StoreKeeps ==
    ASSUME IInv, NEW t \in Teams, holder[t] = NoObject, pc # "return",
           holder' = [holder EXCEPT ![t] = GetId], AfterGet,
           pc' = pc, leaked' = leaked,
           todo' \in SUBSET todo, pc = "load" => t \notin todo'
    PROVE  IInv'
  <1> USE DEF Ids
  <1>1. TypeOK'
    BY GetIsFresh DEF IInv, TypeOK
  <1>2. Bounded'
    <2>1. \A i \in 1 .. Len(returned') : returned'[i] <= count'
      <3>0. returned \in Seq(Ids) /\ \A i \in 1 .. Len(returned) : returned[i] <= count
        BY DEF IInv, TypeOK, Bounded
      <3>1. \A i \in 1 .. Len(returned) : returned[i] \in Ids /\ returned[i] <= count
        BY <3>0, ElementOfSeq
      <3>2. count \in Ids /\ count' \in Ids /\ count <= count'
        BY GetIsFresh DEF IInv, TypeOK
      <3>3. \A i \in 1 .. Len(returned') :
               i \in 1 .. Len(returned) /\ returned'[i] = returned[i]
        BY GetIsFresh
      <3> QED
        BY <3>1, <3>2, <3>3, MaxIdAssumption
    <2>2. \A s \in Teams : holder'[s] <= count'
      BY GetIsFresh DEF IInv, TypeOK, Bounded, NoObject
    <2>3. \A id \in leaked' : id <= count'
      BY GetIsFresh DEF IInv, TypeOK, Bounded
    <2>4. OnStack(0)' => count' = MaxId
      BY GetIsFresh DEF IInv, TypeOK, Bounded, OnStack
    <2>5. (\E s \in Teams : holder'[s] = 0) => count' = MaxId
      BY GetIsFresh DEF IInv, TypeOK, Bounded
    <2> QED
      BY <2>1, <2>2, <2>3, <2>4, <2>5 DEF Bounded
  <1>3. UniqueIds'
    BY GetIsFresh DEF IInv, TypeOK, UniqueIds, Loaded, Live, NoObject
  <1>4. NoReuseInUse'
    BY GetIsFresh DEF IInv, TypeOK, NoReuseInUse, OnStack, Live, NoObject
  <1>5. LeakedGone'
    BY GetIsFresh DEF IInv, TypeOK, LeakedGone, OnStack, Live, NoObject
  <1>6. TodoOK'
    BY DEF IInv, TypeOK, TodoOK
  <1> QED
    BY <1>1, <1>2, <1>3, <1>4, <1>5, <1>6 DEF IInv

\* Taking a number and losing it (AddFails, ReloadTeamFails) keeps it too.
LEMMA LeakKeeps ==
    ASSUME IInv, AfterGet, Leak, holder' = holder, pc # "return",
           pc' = "idle", todo' \in SUBSET todo
    PROVE  IInv'
  <1> USE DEF Ids
  <1>1. TypeOK'
    BY GetIsFresh DEF IInv, TypeOK, Leak
  <1>2. Bounded'
    <2>1. \A i \in 1 .. Len(returned') : returned'[i] <= count'
      <3>0. returned \in Seq(Ids) /\ \A i \in 1 .. Len(returned) : returned[i] <= count
        BY DEF IInv, TypeOK, Bounded
      <3>1. \A i \in 1 .. Len(returned) : returned[i] \in Ids /\ returned[i] <= count
        BY <3>0, ElementOfSeq
      <3>2. count \in Ids /\ count' \in Ids /\ count <= count'
        BY GetIsFresh DEF IInv, TypeOK
      <3>3. \A i \in 1 .. Len(returned') :
               i \in 1 .. Len(returned) /\ returned'[i] = returned[i]
        BY GetIsFresh
      <3> QED
        BY <3>1, <3>2, <3>3, MaxIdAssumption
    <2>2. \A s \in Teams : holder'[s] <= count'
      BY GetIsFresh DEF IInv, TypeOK, Bounded, NoObject
    <2>3. \A id \in leaked' : id <= count'
      BY GetIsFresh DEF IInv, TypeOK, Bounded, Leak
    <2>4. OnStack(0)' => count' = MaxId
      BY GetIsFresh DEF IInv, TypeOK, Bounded, OnStack
    <2>5. (\E s \in Teams : holder'[s] = 0) => count' = MaxId
      BY GetIsFresh DEF IInv, TypeOK, Bounded
    <2> QED
      BY <2>1, <2>2, <2>3, <2>4, <2>5 DEF Bounded
  <1>3. UniqueIds'
    BY DEF IInv, TypeOK, UniqueIds, Loaded
  <1>4. NoReuseInUse'
    BY GetIsFresh DEF IInv, TypeOK, NoReuseInUse, OnStack, Live, NoObject
  <1>5. LeakedGone'
    BY GetIsFresh DEF IInv, TypeOK, LeakedGone, OnStack, Live, NoObject, Leak
  <1>6. TodoOK'
    BY DEF TodoOK
  <1> QED
    BY <1>1, <1>2, <1>3, <1>4, <1>5, <1>6 DEF IInv

\* Every step of the manager preserves the inductive invariant.
LEMMA NextIInv == IInv /\ [Next]_vars => IInv'
  <1> SUFFICES ASSUME IInv, [Next]_vars PROVE IInv'
    OBVIOUS
  <1> USE DEF Ids
  <1>1. CASE UNCHANGED vars
    BY <1>1 DEF vars, IInv, TypeOK, Bounded, UniqueIds, NoReuseInUse,
       LeakedGone, TodoOK, Loaded, Live, OnStack
  <1>2. ASSUME NEW t \in Teams, Add(t) PROVE IInv'
    BY <1>2, StoreKeeps DEF Add, IInv, TypeOK
  <1>3. ASSUME NEW t \in Teams, Remove(t) PROVE IInv'
    <2>1. TypeOK'
      BY <1>3, ReturnAppends DEF IInv, TypeOK, Remove, NoObject
    <2>2. Bounded'
      <3>1. \A i \in 1 .. Len(returned') : returned'[i] <= count'
        BY <1>3, ReturnAppends DEF IInv, TypeOK, Bounded, Remove
      <3>2. \A s \in Teams : holder'[s] <= count'
        BY <1>3 DEF IInv, TypeOK, Bounded, NoObject, Remove
      <3>3. \A id \in leaked' : id <= count'
        BY <1>3 DEF IInv, Bounded, Remove
      <3>4. OnStack(0)' => count' = MaxId
        BY <1>3, ReturnAppends DEF IInv, TypeOK, Bounded, OnStack, Remove
      <3>5. (\E s \in Teams : holder'[s] = 0) => count' = MaxId
        BY <1>3 DEF IInv, TypeOK, Bounded, NoObject, Remove
      <3> QED
        BY <3>1, <3>2, <3>3, <3>4, <3>5 DEF Bounded
    <2>3. UniqueIds'
      BY <1>3 DEF IInv, TypeOK, UniqueIds, Loaded, Remove
    <2>4. NoReuseInUse'
      <3>1. \A i \in 1 .. Len(returned) : returned[i] # 0 => returned[i] # holder[t]
        BY <1>3 DEF IInv, NoReuseInUse, OnStack, Live, Remove
      <3>2. \A i, j \in 1 .. Len(returned') :
                returned'[i] = returned'[j] /\ returned'[i] # 0 => i = j
        BY <1>3, <3>1, ReturnAppends DEF IInv, NoReuseInUse, Remove
      <3>3. \A s \in Teams : Live(s)' => s # t /\ Live(s) /\ holder'[s] = holder[s]
        BY <1>3 DEF IInv, TypeOK, Live, Remove
      <3>4. \A s \in Teams : Live(s)' /\ holder'[s] # 0 => holder[s] # holder[t]
        BY <1>3, <3>3 DEF IInv, UniqueIds, Loaded, Live, Remove
      <3>5. \A s \in Teams : Live(s)' /\ holder'[s] # 0 => ~ OnStack(holder[s])'
        BY <1>3, <3>3, <3>4, ReturnAppends DEF IInv, NoReuseInUse, OnStack, Remove
      <3> QED
        BY <3>2, <3>5 DEF NoReuseInUse
    <2>5. LeakedGone'
      BY <1>3, ReturnAppends DEF IInv, TypeOK, LeakedGone, OnStack, Live, Remove, NoObject
    <2>6. TodoOK'
      BY <1>3 DEF TodoOK, Remove
    <2> QED
      BY <2>1, <2>2, <2>3, <2>4, <2>5, <2>6 DEF IInv
  <1>4. CASE AddFails
    BY <1>4, LeakKeeps DEF AddFails
  <1>5. CASE ReloadBegin
    BY <1>5 DEF IInv, TypeOK, Bounded, UniqueIds, NoReuseInUse, LeakedGone,
       TodoOK, Loaded, Live, OnStack, ReloadBegin
  <1>6. ASSUME NEW t \in Teams, ReloadReturn(t) PROVE IInv'
    <2>0. holder[t] # NoObject
      BY <1>6 DEF IInv, TodoOK, ReloadReturn
    <2>1. TypeOK'
      BY <1>6, <2>0, ReturnAppends DEF IInv, TypeOK, ReloadReturn
    <2>2. Bounded'
      <3>1. \A i \in 1 .. Len(returned') : returned'[i] <= count'
        BY <1>6, <2>0, ReturnAppends DEF IInv, TypeOK, Bounded, ReloadReturn
      <3>2. \A s \in Teams : holder'[s] <= count'
        BY <1>6, <2>0 DEF IInv, TypeOK, Bounded, NoObject, ReloadReturn
      <3>3. \A id \in leaked' : id <= count'
        BY <1>6, <2>0 DEF IInv, Bounded, ReloadReturn
      <3>4. OnStack(0)' => count' = MaxId
        BY <1>6, <2>0, ReturnAppends DEF IInv, TypeOK, Bounded, OnStack, ReloadReturn
      <3>5. (\E s \in Teams : holder'[s] = 0) => count' = MaxId
        BY <1>6, <2>0 DEF IInv, TypeOK, Bounded, NoObject, ReloadReturn
      <3> QED
        BY <3>1, <3>2, <3>3, <3>4, <3>5 DEF Bounded
    <2>3. UniqueIds'
      BY <1>6 DEF IInv, UniqueIds, Loaded, ReloadReturn
    <2>4. NoReuseInUse'
      <3>1. \A i \in 1 .. Len(returned) : returned[i] # 0 => returned[i] # holder[t]
        BY <1>6, <2>0 DEF IInv, NoReuseInUse, OnStack, Live, ReloadReturn
      <3>2. \A i, j \in 1 .. Len(returned') :
                returned'[i] = returned'[j] /\ returned'[i] # 0 => i = j
        BY <1>6, <2>0, <3>1, ReturnAppends DEF IInv, NoReuseInUse, ReloadReturn
      <3>3. \A s \in Teams : Live(s)' => s # t /\ Live(s) /\ holder'[s] = holder[s]
        BY <1>6, <2>0 DEF IInv, TypeOK, Live, ReloadReturn
      <3>4. \A s \in Teams : Live(s)' /\ holder'[s] # 0 => holder[s] # holder[t]
        BY <1>6, <2>0, <3>3 DEF IInv, UniqueIds, Loaded, Live, ReloadReturn
      <3>5. \A s \in Teams : Live(s)' /\ holder'[s] # 0 => ~ OnStack(holder[s])'
        BY <1>6, <2>0, <3>3, <3>4, ReturnAppends DEF IInv, NoReuseInUse, OnStack, ReloadReturn
      <3> QED
        BY <3>2, <3>5 DEF NoReuseInUse
    <2>5. LeakedGone'
      BY <1>6, <2>0, ReturnAppends DEF IInv, TypeOK, LeakedGone, OnStack, Live, ReloadReturn
    <2>6. TodoOK'
      BY <1>6 DEF IInv, TodoOK, ReloadReturn
    <2> QED
      BY <2>1, <2>2, <2>3, <2>4, <2>5, <2>6 DEF IInv
  <1>7. ASSUME NEW docs \in SUBSET Teams, ReloadClear(docs) PROVE IInv'
    BY <1>7 DEF IInv, TypeOK, Bounded, UniqueIds, NoReuseInUse, LeakedGone,
       TodoOK, Loaded, Live, OnStack, ReloadClear, NoObject
  <1>8. ASSUME NEW t \in Teams, ReloadTeam(t) PROVE IInv'
    <2>1. holder[t] = NoObject
      BY <1>8 DEF IInv, TodoOK, ReloadTeam
    <2> QED
      BY <1>8, <2>1, StoreKeeps DEF ReloadTeam, IInv, TypeOK
  <1>9. CASE ReloadTeamFails
    BY <1>9, LeakKeeps DEF ReloadTeamFails
  <1>10. CASE ReloadEnd
    BY <1>10 DEF IInv, TypeOK, Bounded, UniqueIds, NoReuseInUse, LeakedGone,
       TodoOK, Loaded, Live, OnStack, ReloadEnd
  <1> QED
    BY <1>1, <1>2, <1>3, <1>4, <1>5, <1>6, <1>7, <1>8, <1>9, <1>10 DEF Next

\* The inductive invariant holds throughout.
THEOREM Invariance == Spec => []IInv
  BY InitIInv, NextIInv, PTL DEF Spec

\* Teams never share a number other than 0, for any number of documents and
\* any allocator size.
THEOREM TeamIdsUnique == Spec => []UniqueIds
  <1>1. IInv => UniqueIds
    BY DEF IInv
  <1> QED
    BY <1>1, Invariance, PTL

\* The stack never holds a number twice or one that a team still owns.
THEOREM StackHoldsFreeIds == Spec => []NoReuseInUse
  <1>1. IInv => NoReuseInUse
    BY DEF IInv
  <1> QED
    BY <1>1, Invariance, PTL

\* A team is numbered 0 only once the allocator has reached its limit.
THEOREM ZeroOnlyAtLimit == Spec => []ZeroMeansExhausted
  <1>1. IInv => ZeroMeansExhausted
    BY DEF IInv, Bounded, ZeroMeansExhausted
  <1> QED
    BY <1>1, Invariance, PTL

\* The allocator's numbers stay within its limit, and the loops of a reload
\* within the teams.
THEOREM TypeCorrect == Spec => []TypeOK
  <1>1. IInv => TypeOK
    BY DEF IInv
  <1> QED
    BY <1>1, Invariance, PTL

\* Get takes one number, from the stack or from above `_count`, and no other
\* number leaves the stack.
LEMMA GetTakesOne ==
    ASSUME IInv, AfterGet
    PROVE  /\ \A id \in 1 .. count' : id \in 1 .. count \/ id = GetId
           /\ \A id : OnStack(id) => OnStack(id)' \/ id = GetId
  <1> USE MaxIdAssumption DEF Ids
  <1>1. CASE returned # << >>
    <2>1. returned \in Seq(Ids) /\ Len(returned) \in Nat /\ Len(returned) >= 1
      BY <1>1 DEF IInv, TypeOK
    <2>2. /\ GetId = returned[Len(returned)] /\ count' = count
          /\ returned' = SubSeq(returned, 1, Len(returned) - 1)
      BY <1>1 DEF GetId, AfterGet
    <2>3. Len(returned') = Len(returned) - 1
      <3>1. 1 \in 1 .. Len(returned) + 1 /\ Len(returned) - 1 \in 1 - 1 .. Len(returned)
        BY <2>1
      <3>2. Len(SubSeq(returned, 1, Len(returned) - 1)) =
               IF 1 <= Len(returned) - 1 THEN Len(returned) - 1 - 1 + 1 ELSE 0
        BY <2>1, <3>1, SubSeqProperties
      <3>3. \A n \in Nat : n >= 1 => (IF 1 <= n - 1 THEN n - 1 - 1 + 1 ELSE 0) = n - 1
        OBVIOUS
      <3> QED
        BY <2>1, <2>2, <3>2, <3>3
    <2>4. \A i \in 1 .. Len(returned) - 1 : returned'[i] = returned[i]
      BY <2>1, <2>2
    <2>5. ASSUME NEW id, OnStack(id), id # GetId
          PROVE  OnStack(id)'
      <3>1. PICK i \in 1 .. Len(returned) : returned[i] = id
        BY <2>5 DEF OnStack
      <3>2. i \in 1 .. Len(returned) - 1
        BY <2>1, <2>2, <2>5, <3>1
      <3> QED
        BY <2>3, <2>4, <3>1, <3>2 DEF OnStack
    <2> QED
      BY <2>2, <2>5
  <1>2. CASE returned = << >>
    <2>1. /\ GetId = IF count = MaxId THEN 0 ELSE count + 1
          /\ count' = IF count = MaxId THEN count ELSE count + 1
          /\ returned' = returned
      BY <1>2 DEF GetId, AfterGet
    <2>2. count \in Nat
      BY DEF IInv, TypeOK
    <2> QED
      BY <2>1, <2>2 DEF OnStack
  <1> QED
    BY <1>1, <1>2

\* What a team or the list of lost numbers gets, and what is on the stack, is
\* not lost.
LEMMA NoIdLostKept ==
    ASSUME NoIdLost, IInv, AfterGet,
           \A id \in leaked : id \in leaked',
           \A t \in Teams : Live(t) => Live(t)' /\ holder'[t] = holder[t],
           GetId = 0 \/ GetId \in leaked' \/ \E t \in Teams : Live(t)' /\ holder'[t] = GetId
    PROVE  NoIdLost'
  <1> SUFFICES ASSUME NEW id \in 1 .. count'
               PROVE  id \in leaked' \/ OnStack(id)'
                        \/ \E t \in Teams : Live(t)' /\ holder'[t] = id
    BY DEF NoIdLost
  <1>1. CASE id = GetId
    BY <1>1
  <1>2. CASE id # GetId
    <2>1. id \in 1 .. count
      BY <1>2, GetTakesOne
    <2>2. id \in leaked \/ OnStack(id) \/ \E t \in Teams : Live(t) /\ holder[t] = id
      BY <2>1 DEF NoIdLost
    <2> QED
      BY <1>2, <2>2, GetTakesOne
  <1> QED
    BY <1>1, <1>2

\* A number given back is on the stack, and so is what was there before.
LEMMA ReturnStacks ==
    ASSUME TypeOK, NEW t \in Teams, holder[t] # NoObject, ReturnId(holder[t])
    PROVE  \A id : id = holder[t] \/ OnStack(id) => OnStack(id)'
  <1>1. ASSUME NEW id, id = holder[t] PROVE OnStack(id)'
    BY <1>1, ReturnAppends DEF OnStack
  <1>2. ASSUME NEW id, OnStack(id) PROVE OnStack(id)'
    BY <1>2, ReturnAppends DEF OnStack
  <1> QED
    BY <1>1, <1>2

\* No step loses a number.
LEMMA NextNoIdLost == NoIdLost /\ IInv /\ [Next]_vars => NoIdLost'
  <1> SUFFICES ASSUME NoIdLost, IInv, [Next]_vars PROVE NoIdLost'
    OBVIOUS
  <1>t. TypeOK
    BY DEF IInv
  <1>1. CASE UNCHANGED vars
    BY <1>1 DEF vars, NoIdLost, Live, OnStack
  <1>2. ASSUME NEW t \in Teams, Add(t) PROVE NoIdLost'
    <2>1. \A s \in Teams : Live(s) => s # t
      BY <1>2 DEF Add, Live
    <2>2. \A s \in Teams : Live(s) => Live(s)' /\ holder'[s] = holder[s]
      BY <1>2, <1>t, <2>1 DEF Add, Live, TypeOK
    <2>3. GetId = 0 \/ (Live(t)' /\ holder'[t] = GetId)
      <3>1. GetId \in Ids /\ NoObject \notin Ids
        BY <1>2, GetIsFresh DEF Add, NoObject, Ids
      <3> QED
        BY <1>2, <1>t, <3>1 DEF Add, Live, TypeOK
    <2> QED
      BY <1>2, <2>2, <2>3, NoIdLostKept DEF Add
  <1>3. ASSUME NEW t \in Teams, Remove(t) PROVE NoIdLost'
    <2>1. \A s \in Teams : Live(s) => s = t \/ (Live(s)' /\ holder'[s] = holder[s])
      BY <1>3, <1>t DEF Remove, Live, TypeOK
    <2>2. \A id : id = holder[t] \/ OnStack(id) => OnStack(id)'
      BY <1>3, <1>t, ReturnStacks DEF Remove
    <2> QED
      BY <1>3, <2>1, <2>2 DEF Remove, NoIdLost
  <1>4. CASE AddFails
    <2>1. GetId = 0 \/ GetId \in leaked'
      BY <1>4 DEF AddFails, Leak
    <2>2. \A id \in leaked : id \in leaked'
      BY <1>4 DEF AddFails, Leak
    <2>3. \A s \in Teams : Live(s) => Live(s)' /\ holder'[s] = holder[s]
      BY <1>4 DEF AddFails, Live
    <2> QED
      BY <1>4, <2>1, <2>2, <2>3, NoIdLostKept DEF AddFails
  <1>5. CASE ReloadBegin
    BY <1>5 DEF ReloadBegin, NoIdLost, Live, OnStack, Loaded
  <1>6. ASSUME NEW t \in Teams, ReloadReturn(t) PROVE NoIdLost'
    <2>0. holder[t] # NoObject
      BY <1>6 DEF IInv, TodoOK, ReloadReturn
    <2>1. \A s \in Teams : Live(s) => s = t \/ (Live(s)' /\ holder'[s] = holder[s])
      BY <1>6 DEF ReloadReturn, Live
    <2>2. \A id : id = holder[t] \/ OnStack(id) => OnStack(id)'
      BY <1>6, <1>t, <2>0, ReturnStacks DEF ReloadReturn
    <2> QED
      BY <1>6, <2>1, <2>2 DEF ReloadReturn, NoIdLost
  <1>7. ASSUME NEW docs \in SUBSET Teams, ReloadClear(docs) PROVE NoIdLost'
    <2>1. \A s \in Teams : ~ Live(s)
      BY <1>7 DEF ReloadClear, Live
    <2> QED
      BY <1>7, <2>1 DEF ReloadClear, NoIdLost, OnStack
  <1>8. ASSUME NEW t \in Teams, ReloadTeam(t) PROVE NoIdLost'
    <2>0. holder[t] = NoObject
      BY <1>8 DEF IInv, TodoOK, ReloadTeam
    <2>1. \A s \in Teams : Live(s) => s # t
      BY <2>0 DEF Live
    <2>2. \A s \in Teams : Live(s) => Live(s)' /\ holder'[s] = holder[s]
      BY <1>8, <1>t, <2>1 DEF ReloadTeam, Live, TypeOK
    <2>3. GetId = 0 \/ (Live(t)' /\ holder'[t] = GetId)
      <3>1. GetId \in Ids /\ NoObject \notin Ids
        BY <1>8, GetIsFresh DEF ReloadTeam, NoObject, Ids
      <3> QED
        BY <1>8, <1>t, <3>1 DEF ReloadTeam, Live, TypeOK
    <2> QED
      BY <1>8, <2>2, <2>3, NoIdLostKept DEF ReloadTeam
  <1>9. CASE ReloadTeamFails
    <2>1. GetId = 0 \/ GetId \in leaked'
      BY <1>9 DEF ReloadTeamFails, Leak
    <2>2. \A id \in leaked : id \in leaked'
      BY <1>9 DEF ReloadTeamFails, Leak
    <2>3. \A s \in Teams : Live(s) => Live(s)' /\ holder'[s] = holder[s]
      BY <1>9 DEF ReloadTeamFails, Live
    <2> QED
      BY <1>9, <2>1, <2>2, <2>3, NoIdLostKept DEF ReloadTeamFails
  <1>10. CASE ReloadEnd
    BY <1>10 DEF ReloadEnd, NoIdLost, Live, OnStack
  <1> QED
    BY <1>1, <1>2, <1>3, <1>4, <1>5, <1>6, <1>7, <1>8, <1>9, <1>10 DEF Next

\* Every number handed out is owned by a team, waits on the stack, or was lost
\* to a construction that threw; reloads that stop anywhere lose none.
THEOREM NumbersAreKept == Spec => []NoIdLost
  <1>1. Init => NoIdLost
    BY DEF Init, NoIdLost
  <1> QED
    BY <1>1, NextNoIdLost, Invariance, PTL DEF Spec

=============================================================================
