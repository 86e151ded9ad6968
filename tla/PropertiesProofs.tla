-------------------------- MODULE PropertiesProofs --------------------------
(* What Purchase, Draw and Sell keep, for any number of players, any price, *)
(* profit and period, and however many writes are late or lost.             *)
EXTENDS Properties, TLAPS

(***************************************************************************)
(* The inductive invariant.                                                *)
(***************************************************************************)

\* The last draw lies in the past, in memory, in the document and in what is
\* under way to it; before the property is created there is nothing.
Times ==
    /\ created <= now /\ doc.lastdraw <= now /\ paidat <= now
    /\ \A s \in stray : s.field = "lastdraw" => s.value <= now
    /\ ~ doc.exists => /\ doc = NoProp /\ prop = NoProp /\ periods = 0
                       /\ \A s \in stray : s.field = "money"
    /\ prop.exists => prop.lastdraw = paidat

\* A field with a write under way is unsure.
UnsureUnderWay == UnderWay(stray) \subseteq unsure

\* The periods paid out had passed at the last draw the server knew of.
Paid == periods * Period <= (paidat - created) + reopened

\* Memory and database agree about everybody who never traded in doubt, and an
\* owner still under way is about others.
Owns ==
    /\ doc.owner \in (Players \ Guests) \cup {NoOwner}
    /\ prop.exists => \A p \in Players \ (Guests \cup doubted) :
                         prop.owner = p <=> doc.owner = p
    /\ \A s \in stray : s.field = "owner" =>
          /\ s.value \in (doubted \ Guests) \cup {NoOwner}
          /\ doc.owner \in doubted \cup {NoOwner}

IInv ==
    /\ TypeOK
    /\ Times
    /\ UnsureUnderWay
    /\ PropertySaved
    /\ Paid
    /\ Owns
    /\ Ledger

(***************************************************************************)
(* Arithmetic.                                                             *)
(***************************************************************************)

\* Elapsed counts whole periods only.
LEMMA WholePeriods ==
    ASSUME NEW a \in Nat, NEW P \in Nat \ {0}
    PROVE  a \div P \in Nat /\ (a \div P) * P <= a
  BY SMT

\* Periods times their length, or times the profit, is a natural number.
LEMMA ProductNat ==
    ASSUME NEW a \in Nat, NEW b \in Nat
    PROVE  a * b \in Nat
  BY SMT

\* Periods paid before and now add up.
LEMMA SumTimes ==
    ASSUME NEW a \in Nat, NEW b \in Nat, NEW c \in Nat
    PROVE  (a + b) * c = a * c + b * c
  BY SMT

(***************************************************************************)
(* What a write may leave behind.                                          *)
(***************************************************************************)

\* A document, what is under way to it, and which fields are unsure.
Writings == [doc : Props, stray : SUBSET Strays, doubts : Nat, unsure : SUBSET Fields]

Sound(w) ==
    /\ w \in Writings
    /\ w.doc.exists
    /\ UnderWay(w.stray) \subseteq w.unsure

\* The write of v to field f of b left w.
Wrote(b, w, f, v) ==
    /\ Sound(w)
    /\ \A g \in Fields \ {f} : w.doc[g] = b.doc[g] /\ (g \in w.unsure <=> g \in b.unsure)
    /\ w.doc[f] = b.doc[f] \/ w.doc[f] = v
    /\ b.stray \subseteq w.stray
    /\ \A s \in w.stray : s \in b.stray \/ (s.field = f /\ s.value = v /\ f \in w.unsure)

\* An Update changes its own field, to the new value or not at all, and is in
\* doubt while it is under way; one that returned and is not in doubt took
\* effect.
LEMMA Writing ==
    ASSUME NEW b, Sound(b), NEW f \in Fields, NEW v,
           [field |-> f, value |-> v] \in Strays,
           f = "owner" => v \in Players \cup {NoOwner},
           f = "lastdraw" => v \in Nat,
           NEW w
    PROVE  /\ w \in Returned(b, f, v) =>
                 Wrote(b, w, f, v) /\ (f \notin w.unsure => w.doc[f] = v)
           /\ w \in Threw(b, f, v) =>
                 /\ Wrote(b, w, f, v)
                 /\ f \notin w.unsure => w.doc[f] = b.doc[f] /\ f \notin b.unsure
  <1> DEFINE z == [field |-> f, value |-> v]
  <1>1. /\ b \in Writings /\ b.doc \in Props /\ b.doc.exists /\ b.stray \subseteq Strays
        /\ b.doubts \in Nat /\ b.unsure \subseteq Fields
        /\ UnderWay(b.stray) \subseteq b.unsure
    BY DEF Sound, Writings
  <1>2. /\ [b.doc EXCEPT ![f] = v] \in Props
        /\ [b.doc EXCEPT ![f] = v].exists
        /\ [b.doc EXCEPT ![f] = v][f] = v
        /\ \A g \in Fields \ {f} : [b.doc EXCEPT ![f] = v][g] = b.doc[g]
    <2>1. CASE f = "owner"
      BY <2>1, <1>1 DEF Props, Fields
    <2>2. CASE f = "lastdraw"
      BY <2>2, <1>1 DEF Props, Fields
    <2> QED
      BY <2>1, <2>2 DEF Fields
  <1>3. b.doubts + 1 \in Nat
    BY <1>1
  <1> DEFINE C == Clean(b, f, v)
             V == InVain(b, f)
             U == Unnoticed(b, f, v)
             L == Later(b, f, v)
  <1>c. /\ C.doc = [b.doc EXCEPT ![f] = v] /\ C.stray = b.stray /\ C.doubts = b.doubts
        /\ C.unsure = (b.unsure \ {f}) \cup UnderWay(b.stray)
        /\ C \in Writings
    <2>1. C = [doc |-> [b.doc EXCEPT ![f] = v], stray |-> b.stray, doubts |-> b.doubts,
               unsure |-> (b.unsure \ {f}) \cup UnderWay(b.stray)]
      BY <1>1 DEF Clean, Writings
    <2> QED
      BY <2>1, <1>1, <1>2 DEF Writings
  <1>v. V = [doc |-> b.doc, stray |-> b.stray, doubts |-> b.doubts + 1,
             unsure |-> b.unsure \cup {f}]
    BY <1>1 DEF InVain, Doubtful
  <1>u. U = [doc |-> [b.doc EXCEPT ![f] = v], stray |-> b.stray,
             doubts |-> b.doubts + 1, unsure |-> b.unsure \cup {f}]
    BY DEF Unnoticed, Doubtful
  <1>l. L = [doc |-> b.doc, stray |-> b.stray \cup {z}, doubts |-> b.doubts + 1,
             unsure |-> b.unsure \cup {f}]
    BY DEF Later, Doubtful
  <1>4. UnderWay(b.stray \cup {z}) \subseteq UnderWay(b.stray) \cup {f}
    BY DEF UnderWay
  <1>5. Wrote(b, C, f, v) /\ C.doc[f] = v
    BY <1>c, <1>1, <1>2 DEF Wrote, Sound
  <1>6. Wrote(b, V, f, v) /\ f \in V.unsure
    BY <1>v, <1>1, <1>3 DEF Wrote, Sound, Writings
  <1>7. Wrote(b, U, f, v) /\ f \in U.unsure
    BY <1>u, <1>1, <1>2, <1>3 DEF Wrote, Sound, Writings
  <1>8. Wrote(b, L, f, v) /\ f \in L.unsure
    <2>1. /\ L.doc = b.doc /\ L.stray = b.stray \cup {z} /\ L.doubts = b.doubts + 1
          /\ L.unsure = b.unsure \cup {f}
      BY <1>l
    <2>2. L.stray \subseteq Strays
      BY <2>1, <1>1
    <2>3. L \in Writings
      BY <1>l, <2>1, <2>2, <1>1, <1>3 DEF Writings
    <2>4. Sound(L)
      BY <2>1, <2>3, <1>1, <1>4 DEF Sound
    <2>5. z.field = f /\ z.value = v
      OBVIOUS
    <2> HIDE DEF z
    <2>6. \A s \in L.stray : s \in b.stray \/ (s.field = f /\ s.value = v /\ f \in L.unsure)
      BY <2>1, <2>5
    <2> QED
      BY <2>1, <2>4, <2>6 DEF Wrote
  <1>9. Wrote(b, b, f, v)
    BY <1>1 DEF Wrote, Sound
  <1> HIDE DEF C, V, U, L
  <1>r. w \in Returned(b, f, v) => w = C \/ w = V \/ w = L
    BY DEF Returned, WithinBound, C, V, L
  <1>t. w \in Threw(b, f, v) => w = b \/ w = U \/ w = L
    BY DEF Threw, WithinBound, U, L
  <1> QED
    BY <1>5, <1>6, <1>7, <1>8, <1>9, <1>r, <1>t

\* The Update of the owner by Purchase and Sell.
LEMMA WritingOwner ==
    ASSUME NEW b, Sound(b), NEW v \in Players \cup {NoOwner}, NEW w
    PROVE  /\ w \in Returned(b, "owner", v) =>
                 Wrote(b, w, "owner", v) /\ ("owner" \notin w.unsure => w.doc.owner = v)
           /\ w \in Threw(b, "owner", v) =>
                 /\ Wrote(b, w, "owner", v)
                 /\ "owner" \notin w.unsure =>
                       w.doc.owner = b.doc.owner /\ "owner" \notin b.unsure
  <1>1. [field |-> "owner", value |-> v] \in Strays /\ "owner" \in Fields
    BY DEF Strays, Fields
  <1>2. "owner" # "lastdraw"
    OBVIOUS
  <1> DEFINE f == "owner"
  <1>3. f \in Fields /\ f # "lastdraw" /\ [field |-> f, value |-> v] \in Strays
    BY <1>1, <1>2
  <1>4. w.doc.owner = w.doc[f] /\ b.doc.owner = b.doc[f]
    OBVIOUS
  <1>5. /\ w \in Returned(b, f, v) =>
              Wrote(b, w, f, v) /\ (f \notin w.unsure => w.doc[f] = v)
        /\ w \in Threw(b, f, v) =>
              /\ Wrote(b, w, f, v)
              /\ f \notin w.unsure => w.doc[f] = b.doc[f] /\ f \notin b.unsure
    <2> HIDE DEF f
    <2> QED
      BY <1>3, Writing
  <1> QED
    BY <1>4, <1>5

\* The two writes of Draw, Purchase and Sell have the right type.
LEMMA WriteTypes ==
    ASSUME TypeOK, NEW p \in Players
    PROVE  /\ [field |-> "lastdraw", value |-> now] \in Strays /\ now \in Nat
           /\ [field |-> "owner", value |-> UniqueID(p)] \in Strays
           /\ UniqueID(p) \in Players \cup {NoOwner}
           /\ [field |-> "owner", value |-> NoOwner] \in Strays
           /\ "owner" \in Fields /\ "lastdraw" \in Fields
           /\ "owner" # "lastdraw" /\ Fields = {"owner", "lastdraw"}
           /\ UniqueID(p) = NoOwner <=> p \in Guests
           /\ p \notin Guests => UniqueID(p) = p
  <1>1. UniqueID(p) \in Players \cup {NoOwner}
    BY DEF UniqueID
  <1>2. now \in Nat
    BY DEF TypeOK
  <1> QED
    BY <1>1, <1>2, PropertiesAssumption DEF Strays, Fields, UniqueID

\* What is stored is sound once the property exists.
LEMMA StoredSound ==
    ASSUME IInv, doc.exists
    PROVE  Sound(Stored) /\ Stored.doc = doc /\ Stored.stray = stray /\ Stored.unsure = unsure
  BY DEF IInv, TypeOK, UnsureUnderWay, Sound, Writings, Stored

(***************************************************************************)
(* The steps.                                                              *)
(***************************************************************************)

\* Draw leaves in memory the last draw it knows of, and pays for periods that
\* have passed since; the document keeps its owner.
LEMMA Drawing ==
    ASSUME IInv, prop.exists, NEW p \in Players, NEW w, Draws(p, w)
    PROVE  /\ Sound(w)
           /\ w.doc.owner = doc.owner /\ ("owner" \in w.unsure <=> "owner" \in unsure)
           /\ "lastdraw" \notin w.unsure => w.doc.lastdraw = LastDraw
           /\ w.doc.lastdraw \in Nat /\ w.doc.lastdraw <= now
           /\ \A s \in w.stray : \/ s \in stray
                                 \/ s.field = "lastdraw" /\ s.value <= now
           /\ LastDraw \in Nat /\ LastDraw <= now /\ paidat' = LastDraw
           /\ Earns \in Nat /\ drawn' = [drawn EXCEPT ![p] = @ + Earns]
           /\ periods' \in Nat
           /\ periods' * Period <= (paidat' - created) + reopened
  <1> USE PropertiesAssumption
  <1>1. /\ doc.exists /\ prop.lastdraw \in Nat /\ now \in Nat /\ created \in Nat
        /\ prop.lastdraw <= now /\ prop.lastdraw = paidat /\ periods \in Nat
        /\ paidat \in Nat /\ reopened \in Nat /\ drawn \in [Players -> Nat]
        /\ doc.lastdraw \in Nat /\ doc.lastdraw <= now
        /\ periods * Period <= (paidat - created) + reopened
    BY DEF IInv, TypeOK, Times, Paid, Props, NoProp
  <1> DEFINE d == now - prop.lastdraw
  <1>2. d \in Nat
    BY <1>1
  <1>3. Elapsed = d \div Period
    BY DEF Elapsed
  <1>4. Elapsed \in Nat /\ Elapsed * Period <= d
    BY <1>2, <1>3, WholePeriods
  <1>5. Earns \in Nat
    BY <1>4, ProductNat DEF Earns
  <1>s. Sound(Stored) /\ Stored.doc = doc /\ Stored.stray = stray /\ Stored.unsure = unsure
    BY <1>1, StoredSound
  <1>6. CASE Earns = 0
    <2>1. w = Stored /\ UNCHANGED <<periods, drawn, paidat>>
      BY <1>6 DEF Draws, profit
    <2>2. LastDraw = prop.lastdraw
      BY <1>6 DEF LastDraw
    <2>3. "lastdraw" \notin unsure => doc.lastdraw = prop.lastdraw
      BY DEF IInv, PropertySaved, Fields
    <2>4. drawn' = [drawn EXCEPT ![p] = @ + Earns]
      BY <2>1, <1>6, <1>1
    <2> QED
      BY <2>1, <2>2, <2>3, <2>4, <1>1, <1>5, <1>s
  <1>7. CASE Earns # 0
    <2>1. /\ w \in Returned(Stored, "lastdraw", now)
          /\ periods' = periods + Elapsed
          /\ drawn' = [drawn EXCEPT ![p] = @ + Earns]
          /\ paidat' = now
      BY <1>7 DEF Draws
    <2>2. LastDraw = now
      BY <1>7 DEF LastDraw
    <2>3. TypeOK
      BY DEF IInv
    <2>4. /\ [field |-> "lastdraw", value |-> now] \in Strays
          /\ "owner" \in Fields \ {"lastdraw"} /\ "lastdraw" \in Fields
      BY <2>3, WriteTypes
    <2>5. /\ Wrote(Stored, w, "lastdraw", now)
          /\ "lastdraw" \notin w.unsure => w.doc["lastdraw"] = now
      BY <2>1, <2>4, <1>1, <1>s, Writing
    <2>6. /\ Sound(w)
          /\ w.doc["owner"] = doc["owner"] /\ ("owner" \in w.unsure <=> "owner" \in unsure)
          /\ w.doc["lastdraw"] = doc["lastdraw"] \/ w.doc["lastdraw"] = now
          /\ \A s \in w.stray : s \in stray \/ (s.field = "lastdraw" /\ s.value = now)
      BY <2>4, <2>5, <1>s DEF Wrote
    <2>7. periods' \in Nat /\ periods' * Period <= (paidat' - created) + reopened
      <3>1. periods' \in Nat
        BY <2>1, <1>1, <1>4
      <3>2. periods' * Period = periods * Period + Elapsed * Period
        BY <2>1, <1>1, <1>4, SumTimes
      <3>3. periods * Period \in Nat /\ Elapsed * Period \in Nat
        BY <1>1, <1>4, ProductNat
      <3>4. \A x, y, l, n, c, r \in Nat :
               x <= (l - c) + r /\ y <= n - l => x + y <= (n - c) + r
        OBVIOUS
      <3>5. periods * Period + Elapsed * Period <= (now - created) + reopened
        BY <3>3, <3>4, <1>1, <1>4
      <3> QED
        BY <3>1, <3>2, <3>5, <2>1
    <2> QED
      BY <2>1, <2>2, <2>5, <2>6, <2>7, <1>1, <1>5
  <1> QED
    BY <1>6, <1>7

\* Before the property is created nothing has been paid or drawn.
LEMMA Initial == Init => IInv
  <1> SUFFICES ASSUME Init PROVE IInv
    OBVIOUS
  <1> USE PropertiesAssumption
  <1>1. TypeOK
    BY DEF Init, TypeOK, Props, NoProp, Fields
  <1>2. Times /\ PropertySaved /\ UnsureUnderWay /\ Owns
    BY DEF Init, Times, PropertySaved, NoProp, UnsureUnderWay, UnderWay, Owns
  <1>3. Ledger
    <2>1. ASSUME NEW p \in Players \ Guests
          PROVE  /\ doc.owner # p /\ money[p] = StartMoney /\ drawn[p] = 0
                 /\ undone[p] = 0
      BY DEF Init, NoProp
    <2>2. StartMoney = StartMoney + 0 + 0 - 0
      OBVIOUS
    <2> QED
      BY <2>1, <2>2 DEF Ledger
  <1>4. Paid
    BY DEF Init, Paid
  <1> QED
    BY <1>1, <1>2, <1>3, <1>4 DEF IInv

\* A load takes the document as it is: it is in doubt only what is still under
\* way, and the last draw it sets back is counted.
LEMMA Loading ==
    ASSUME IInv, Loads, UNCHANGED <<now, doc, stray, created, periods, doubted>>
    PROVE  /\ prop' \in Props /\ paidat' \in Nat /\ reopened' \in Nat
           /\ unsure' \subseteq Fields
           /\ Times' /\ UnsureUnderWay' /\ PropertySaved' /\ Paid' /\ Owns'
  <1>1. /\ NoProp \in Props /\ ~ NoProp.exists
        /\ doc \in Props /\ doc.lastdraw \in Nat /\ doc.exists \in BOOLEAN
        /\ paidat \in Nat /\ reopened \in Nat /\ now \in Nat /\ created \in Nat
    BY DEF NoProp, Props, IInv, TypeOK
  <1>2. UNCHANGED <<now, doc, stray, created, periods, doubted>>
    OBVIOUS
  <1>3. unsure' = UnderWay(stray) /\ UnderWay(stray) \subseteq Fields
    BY DEF Loads, UnderWay
  <1>4. UnsureUnderWay'
    BY <1>2, <1>3 DEF UnsureUnderWay
  <1>5. CASE prop' = NoProp /\ UNCHANGED <<paidat, reopened>>
    BY <1>1, <1>2, <1>3, <1>4, <1>5
       DEF IInv, Times, PropertySaved, Paid, Owns
  <1>6. CASE /\ prop' = doc
             /\ paidat' = doc.lastdraw
             /\ reopened' = reopened + (IF doc.lastdraw < paidat
                                        THEN paidat - doc.lastdraw ELSE 0)
    <2>1. reopened' \in Nat /\ paidat' \in Nat /\ prop' \in Props
      BY <1>1, <1>6
    <2>2. Times'
      BY <1>1, <1>2, <1>6 DEF IInv, Times
    <2>3. PropertySaved'
      BY <1>2, <1>6 DEF PropertySaved
    <2>4. Owns'
      BY <1>2, <1>6 DEF IInv, Owns
    <2>5. Paid'
      <3> DEFINE x == periods * Period
      <3>1. x \in Nat /\ x <= (paidat - created) + reopened
        BY ProductNat, PropertiesAssumption DEF IInv, TypeOK, Paid
      <3> HIDE DEF x
      <3>2. \A l, m, c, r \in Nat :
               x <= (l - c) + r => x <= (m - c) + (r + (IF m < l THEN l - m ELSE 0))
        BY <3>1
      <3>3. x <= (paidat' - created) + reopened'
        BY <3>1, <3>2, <1>1, <1>6
      <3> QED
        BY <3>3, <1>2 DEF Paid, x
    <2> QED
      BY <1>3, <1>4, <2>1, <2>2, <2>3, <2>4, <2>5
  <1> QED
    BY <1>5, <1>6 DEF Loads

\* A Sync saves the money or leaves a write of money under way.
LEMMA Saving ==
    ASSUME IInv, NEW p \in Players, Saves(p) \/ UNCHANGED <<saved, stray, doubts>>
    PROVE  /\ saved' \in [Players -> Nat] /\ stray' \subseteq Strays /\ doubts' \in Nat
           /\ \A s \in stray' : s \in stray \/ s.field = "money"
  <1>t. TypeOK
    BY DEF IInv
  <1>1. CASE saved' = [saved EXCEPT ![p] = money[p]] /\ UNCHANGED <<stray, doubts>>
    BY <1>1, <1>t DEF TypeOK
  <1>2. CASE /\ doubts' = doubts + 1
             /\ stray' = stray \cup {[field |-> "money", of |-> p, value |-> money[p]]}
             /\ UNCHANGED saved
    <2> DEFINE z == [field |-> "money", of |-> p, value |-> money[p]]
    <2>1. z \in Strays /\ z.field = "money"
      BY <1>t DEF TypeOK, Strays
    <2>2. stray' = stray \cup {z}
      BY <1>2
    <2> HIDE DEF z
    <2> QED
      BY <1>2, <2>1, <2>2, <1>t DEF TypeOK
  <1>3. CASE UNCHANGED <<saved, stray, doubts>>
    BY <1>3, <1>t DEF TypeOK
  <1> QED
    BY <1>1, <1>2, <1>3 DEF Saves

\* Whoever leaves has afterwards what is saved, and the ledger says so.
LEMMA Leaving ==
    ASSUME IInv, NEW out \in SUBSET Players, LogInAgain(out),
           saved' \in [Players -> Nat], UNCHANGED <<doc, drawn, doubted>>
    PROVE  /\ money' \in [Players -> Nat]
           /\ undone' \in [Players \ Guests -> Int]
           /\ dlg' \in [Players -> {"none", "onsale", "sold"}]
           /\ Ledger'
  <1>1. /\ money \in [Players -> Nat] /\ saved' \in [Players -> Nat]
        /\ undone \in [Players \ Guests -> Int] /\ drawn \in [Players -> Nat]
        /\ dlg \in [Players -> {"none", "onsale", "sold"}]
        /\ StartMoney \in Nat /\ Value \in Nat
    BY PropertiesAssumption DEF IInv, TypeOK
  <1>2. /\ money' = [p \in Players |-> IF p \in out THEN saved'[p] ELSE money[p]]
        /\ undone' = [p \in Players \ Guests |->
                         IF p \in out THEN undone[p] + (saved'[p] - money[p]) ELSE undone[p]]
        /\ dlg' = [p \in Players |-> IF p \in out THEN "none" ELSE dlg[p]]
    BY DEF LogInAgain
  <1>3. /\ money' \in [Players -> Nat]
        /\ undone' \in [Players \ Guests -> Int]
        /\ dlg' \in [Players -> {"none", "onsale", "sold"}]
    BY <1>1, <1>2
  <1>4. Ledger'
    <2> SUFFICES ASSUME NEW p \in Players \ (Guests \cup doubted)
                 PROVE  money'[p] = StartMoney + drawn[p] + undone'[p]
                                        - (IF doc.owner = p THEN Value ELSE 0)
      BY DEF Ledger
    <2>1. money[p] = StartMoney + drawn[p] + undone[p]
                         - (IF doc.owner = p THEN Value ELSE 0)
      BY DEF IInv, Ledger
    <2>2. /\ money[p] \in Nat /\ saved'[p] \in Nat /\ undone[p] \in Int /\ drawn[p] \in Nat
      BY <1>1
    <2> QED
      BY <2>1, <2>2, <1>1, <1>2
  <1> QED
    BY <1>3, <1>4

\* The Update of the owner, after a draw or by itself: only who trades can
\* become the stored owner, or cease to be, or come into doubt.
LEMMA Trading ==
    ASSUME IInv, prop.exists, NEW p \in Players, NEW v, NEW b, NEW w,
           prop.owner = NoOwner \/ (prop.owner = p /\ p \notin Guests),
           v = NoOwner \/ (v = p /\ p \notin Guests),
           Sound(b), b.doc.owner = doc.owner, "owner" \in b.unsure <=> "owner" \in unsure,
           b.doc.lastdraw <= now,
           \A s \in b.stray : s \in stray \/ (s.field = "lastdraw" /\ s.value <= now),
           Wrote(b, w, "owner", v), Writes(w), Doubts(w, p), now' = now
    PROVE  /\ doc' \in Props /\ doc'.exists /\ stray' \subseteq Strays
           /\ doubts' \in Nat /\ unsure' \subseteq Fields /\ doubted' \subseteq Players
           /\ doc'.lastdraw = b.doc.lastdraw
           /\ "lastdraw" \in unsure' <=> "lastdraw" \in b.unsure
           /\ \A s \in stray' : s.field = "lastdraw" => s.value <= now
           /\ UnsureUnderWay'
           /\ doc'.owner \in (Players \ Guests) \cup {NoOwner}
           /\ \A s \in stray' : s.field = "owner" =>
                 /\ s.value \in (doubted' \ Guests) \cup {NoOwner}
                 /\ doc'.owner \in doubted' \cup {NoOwner}
           /\ doubted \subseteq doubted'
           /\ p \notin doubted' => "owner" \notin unsure'
           /\ \A q \in Players \ (Guests \cup doubted') :
                 q # p => doc.owner # q /\ doc'.owner # q /\ prop.owner # q
  <1>1. /\ NoOwner \notin Players
        /\ doubted \subseteq Players
        /\ doc.owner \in (Players \ Guests) \cup {NoOwner}
        /\ \A q \in Players \ (Guests \cup doubted) : prop.owner = q <=> doc.owner = q
        /\ \A s \in stray : s.field = "owner" =>
              /\ s.value \in (doubted \ Guests) \cup {NoOwner}
              /\ doc.owner \in doubted \cup {NoOwner}
        /\ \A s \in stray : s.field = "lastdraw" => s.value <= now
    BY PropertiesAssumption DEF IInv, TypeOK, Owns, Times
  <1>2. /\ doc' = w.doc /\ stray' = w.stray /\ doubts' = w.doubts /\ unsure' = w.unsure
        /\ doubted' = IF "owner" \in w.unsure THEN doubted \cup {p} ELSE doubted
    BY DEF Writes, Doubts
  <1>3. /\ Sound(w)
        /\ w.doc["lastdraw"] = b.doc["lastdraw"]
        /\ "lastdraw" \in w.unsure <=> "lastdraw" \in b.unsure
        /\ w.doc["owner"] = b.doc["owner"] \/ w.doc["owner"] = v
        /\ \A s \in w.stray : \/ s \in b.stray
                              \/ s.field = "owner" /\ s.value = v /\ "owner" \in w.unsure
    BY DEF Wrote, Fields
  <1>4. /\ doc' \in Props /\ doc'.exists /\ stray' \subseteq Strays
        /\ doubts' \in Nat /\ unsure' \subseteq Fields
        /\ UnsureUnderWay'
    <2>1. /\ w.doc \in Props /\ w.doc.exists /\ w.stray \subseteq Strays
          /\ w.doubts \in Nat /\ w.unsure \subseteq Fields
          /\ UnderWay(w.stray) \subseteq w.unsure
      BY <1>3 DEF Sound, Writings
    <2>2. UnderWay(stray)' = UnderWay(w.stray)
      BY <1>2 DEF UnderWay
    <2> QED
      BY <2>1, <2>2, <1>2 DEF UnsureUnderWay
  <1>5. \A s \in w.stray : \/ s \in stray
                           \/ s.field = "lastdraw" /\ s.value <= now
                           \/ s.field = "owner" /\ s.value = v /\ "owner" \in w.unsure
    BY <1>3
  <1>6. \A s \in w.stray : s.field = "owner" => "owner" \in w.unsure
    BY <1>3 DEF Sound, UnderWay, Fields
  <1>7. doc'.owner = doc.owner \/ doc'.owner = v
    BY <1>2, <1>3
  <1>8. \A s \in stray' : s.field = "owner" =>
              /\ s.value \in (doubted' \ Guests) \cup {NoOwner}
              /\ doc'.owner \in doubted' \cup {NoOwner}
    <2> SUFFICES ASSUME NEW s \in w.stray, s.field = "owner"
                 PROVE  /\ s.value \in (doubted' \ Guests) \cup {NoOwner}
                        /\ doc'.owner \in doubted' \cup {NoOwner}
      BY <1>2
    <2>1. doubted' = doubted \cup {p}
      BY <1>2, <1>6
    <2>2. s.value \in (doubted' \ Guests) \cup {NoOwner}
      BY <1>1, <1>5, <2>1
    <2>3. doc.owner \in doubted' \cup {NoOwner}
      BY <1>1, <2>1
    <2> QED
      BY <1>7, <2>1, <2>2, <2>3
  <1>9. \A q \in Players \ (Guests \cup doubted') :
           q # p => doc.owner # q /\ doc'.owner # q /\ prop.owner # q
    BY <1>1, <1>2, <1>7
  <1> QED
    BY <1>1, <1>2, <1>3, <1>4, <1>5, <1>7, <1>8, <1>9

\* Every step of the main thread, a sync, a late write, a disconnect or a crash
\* keeps the invariant.
LEMMA Step == IInv /\ [Next]_vars => IInv'
  <1> SUFFICES ASSUME IInv, [Next]_vars PROVE IInv'
    OBVIOUS
  <1> USE PropertiesAssumption DEF store, profit, history
  <1>t. TypeOK /\ Times /\ UnsureUnderWay /\ PropertySaved /\ Paid /\ Owns /\ Ledger
    BY DEF IInv
  <1>p. periods * Period \in Nat
    BY <1>t, ProductNat DEF TypeOK
  <1>w. ASSUME NEW p \in Players
        PROVE  /\ [field |-> "owner", value |-> UniqueID(p)] \in Strays
               /\ [field |-> "owner", value |-> NoOwner] \in Strays
               /\ [field |-> "lastdraw", value |-> now] \in Strays
               /\ UniqueID(p) \in Players \cup {NoOwner}
               /\ UniqueID(p) = NoOwner <=> p \in Guests
               /\ p \notin Guests => UniqueID(p) = p
               /\ "owner" \in Fields /\ "lastdraw" \in Fields
               /\ now \in Nat
    BY <1>t, WriteTypes
  <1>s. ASSUME prop.exists
        PROVE  /\ doc.exists
               /\ Sound(Stored) /\ Stored.doc = doc /\ Stored.stray = stray
               /\ Stored.unsure = unsure
               /\ Stored.doc.lastdraw <= now
    <2>1. doc.exists
      BY <1>s, <1>t DEF Times, NoProp
    <2> QED
      BY <2>1, StoredSound, <1>t DEF Times
  <1>1. CASE UNCHANGED vars
    BY <1>1, <1>t DEF vars, IInv, TypeOK, Times, UnsureUnderWay, UnderWay, PropertySaved,
       Paid, Owns, Ledger
  <1>2. CASE Tick
    <2>1. now' = now + 1 /\ now \in Nat /\ created \in Nat /\ paidat \in Nat
          /\ doc.lastdraw \in Nat
          /\ UNCHANGED <<doc, stray, doubts, unsure, prop, money, saved, dlg, created,
                         periods, drawn, paidat, doubted, undone, reopened>>
      BY <1>2, <1>t DEF Tick, TypeOK, Props
    <2>2. \A s \in stray : s.field = "lastdraw" => s.value \in Nat
      BY <1>t DEF TypeOK, Strays
    <2>3. TypeOK'
      BY <2>1, <1>t DEF TypeOK
    <2>4. Times'
      BY <2>1, <2>2, <1>t DEF Times
    <2>5. UnsureUnderWay' /\ PropertySaved' /\ Paid' /\ Owns' /\ Ledger'
      BY <2>1, <1>t DEF UnsureUnderWay, UnderWay, PropertySaved, Paid, Owns, Ledger
    <2> QED
      BY <2>3, <2>4, <2>5 DEF IInv
  <1>3. CASE CreateProperty
    <2>n. now \in Nat
      BY <1>t DEF TypeOK
    <2>1. doc' = [exists |-> TRUE, owner |-> NoOwner, lastdraw |-> now]
          /\ prop' \in {doc', NoProp} /\ created' = now /\ paidat' = now
          /\ ~ doc.exists
          /\ UNCHANGED <<now, money, saved, stray, doubts, dlg, periods, drawn, unsure,
                         doubted, undone, reopened>>
      BY <1>3 DEF CreateProperty
    <2>d. /\ doc'.exists /\ doc'.lastdraw = now /\ doc'.owner = NoOwner
          /\ doc' \in Props /\ NoProp \in Props /\ ~ NoProp.exists
      BY <2>1, <2>n DEF Props, NoProp
    <2>2. TypeOK'
      BY <2>1, <2>d, <2>n, <1>t DEF TypeOK
    <2>3. doc.owner = NoOwner /\ periods = 0 /\ \A s \in stray : s.field = "money"
      BY <2>1, <1>t DEF Times, NoProp
    <2>4. Times'
      BY <2>1, <2>d, <2>3, <2>n DEF Times
    <2>5. UnsureUnderWay' /\ PropertySaved'
      BY <2>1, <2>d, <1>t DEF UnsureUnderWay, UnderWay, PropertySaved
    <2>6. Paid'
      <3>1. 0 * Period = 0 /\ reopened \in Nat
        BY <1>t DEF TypeOK
      <3> QED
        BY <3>1, <2>1, <2>3, <2>n DEF Paid
    <2>7. Owns'
      BY <2>1, <2>d, <2>3 DEF Owns
    <2>8. Ledger'
      BY <2>1, <2>d, <2>3, <1>t DEF Ledger
    <2> QED
      BY <2>2, <2>4, <2>5, <2>6, <2>7, <2>8 DEF IInv
  <1>4. CASE LoadAllFromDatabase
    <2>1. /\ Loads
          /\ UNCHANGED <<now, doc, stray, created, periods, doubted>>
          /\ UNCHANGED <<doubts, money, saved, dlg, drawn, undone>>
      BY <1>4 DEF LoadAllFromDatabase
    <2>2. /\ prop' \in Props /\ paidat' \in Nat /\ reopened' \in Nat
          /\ unsure' \subseteq Fields
          /\ Times' /\ UnsureUnderWay' /\ PropertySaved' /\ Paid' /\ Owns'
      BY <2>1, Loading
    <2>3. TypeOK' /\ Ledger'
      BY <2>1, <2>2, <1>t DEF TypeOK, Ledger
    <2> QED
      BY <2>2, <2>3 DEF IInv
  <1>5. CASE Crash
    <2>1. /\ Loads /\ LogInAgain(Players)
          /\ UNCHANGED <<now, doc, stray, created, periods, doubted>>
          /\ UNCHANGED <<doubts, saved, drawn>> /\ saved' \in [Players -> Nat]
      BY <1>5, <1>t DEF Crash, TypeOK
    <2>2. /\ prop' \in Props /\ paidat' \in Nat /\ reopened' \in Nat
          /\ unsure' \subseteq Fields
          /\ Times' /\ UnsureUnderWay' /\ PropertySaved' /\ Paid' /\ Owns'
      BY <2>1, Loading
    <2>3. /\ money' \in [Players -> Nat]
          /\ undone' \in [Players \ Guests -> Int]
          /\ dlg' \in [Players -> {"none", "onsale", "sold"}]
          /\ Ledger'
      BY <2>1, Leaving
    <2>4. TypeOK'
      BY <2>1, <2>2, <2>3, <1>t DEF TypeOK
    <2> QED
      BY <2>2, <2>3, <2>4 DEF IInv
  <1>6. CASE LateWrite
    <2>1. PICK s \in stray :
             /\ stray' = stray \ {s}
             /\ IF s.field = "money"
                THEN saved' = [saved EXCEPT ![s.of] = s.value] /\ UNCHANGED doc
                ELSE doc' = [doc EXCEPT ![s.field] = s.value] /\ UNCHANGED saved
             /\ UNCHANGED <<now, prop, money, doubts, dlg, unsure, history>>
      BY <1>6 DEF LateWrite
    <2>2. stray' \subseteq stray
      BY <2>1
    <2>3. UnsureUnderWay'
      BY <2>1, <2>2, <1>t DEF UnsureUnderWay, UnderWay
    <2>4. CASE s.field = "money"
      <3>1. s.of \in Players /\ s.value \in Nat
        BY <2>4, <1>t DEF TypeOK, Strays
      <3>2. saved' \in [Players -> Nat] /\ doc' = doc
        BY <2>1, <2>4, <3>1, <1>t DEF TypeOK
      <3>3. TypeOK'
        BY <2>1, <2>2, <3>2, <1>t DEF TypeOK
      <3>4. Times' /\ PropertySaved' /\ Paid' /\ Owns' /\ Ledger'
        BY <2>1, <2>2, <3>2, <1>t DEF Times, PropertySaved, Paid, Owns, Ledger
      <3> QED
        BY <3>3, <3>4, <2>3 DEF IInv
    <2>5. CASE s.field = "owner"
      <3>1. s.value \in (doubted \ Guests) \cup {NoOwner} /\ s.value \in Players \cup {NoOwner}
        BY <2>5, <1>t DEF TypeOK, Strays, Owns
      <3>2. doc' = [doc EXCEPT !.owner = s.value] /\ saved' = saved
        BY <2>1, <2>5
      <3>3. /\ doc' \in Props /\ doc'.owner = s.value /\ doc'.exists = doc.exists
            /\ doc'.lastdraw = doc.lastdraw
        BY <3>1, <3>2, <1>t DEF TypeOK, Props
      <3>d. doc.exists
        BY <2>5, <1>t DEF Times
      <3>4. TypeOK'
        BY <2>1, <2>2, <3>2, <3>3, <1>t DEF TypeOK
      <3>5. Times' /\ Paid'
        BY <2>1, <2>2, <3>3, <3>d, <1>t DEF Times, Paid
      <3>6. PropertySaved'
        <4>1. "owner" \in unsure
          BY <2>5, <1>t DEF UnsureUnderWay, UnderWay, Fields
        <4> QED
          BY <4>1, <2>1, <3>3, <1>t DEF PropertySaved, Fields
      <3>7. Owns' /\ Ledger'
        <4>1. doc.owner \in doubted \cup {NoOwner}
          BY <2>5, <1>t DEF Owns
        <4>2. doubted' = doubted /\ prop' = prop
          BY <2>1
        <4>3. \A q \in Players \ (Guests \cup doubted) : doc.owner # q /\ doc'.owner # q
          BY <3>1, <3>3, <4>1
        <4>4. Owns'
          BY <2>2, <3>1, <3>3, <4>2, <4>3, <1>t DEF Owns
        <4>5. Ledger'
          BY <2>1, <4>3, <1>t DEF Ledger
        <4> QED
          BY <4>4, <4>5
      <3> QED
        BY <2>3, <3>4, <3>5, <3>6, <3>7 DEF IInv
    <2>6. CASE s.field = "lastdraw"
      <3>1. s.value \in Nat /\ s.value <= now
        BY <2>6, <1>t DEF TypeOK, Strays, Times
      <3>2. doc' = [doc EXCEPT !.lastdraw = s.value] /\ saved' = saved
        BY <2>1, <2>6
      <3>3. /\ doc' \in Props /\ doc'.owner = doc.owner /\ doc'.exists = doc.exists
            /\ doc'.lastdraw = s.value
        BY <3>1, <3>2, <1>t DEF TypeOK, Props
      <3>d. doc.exists
        BY <2>6, <1>t DEF Times
      <3>4. TypeOK'
        BY <2>1, <2>2, <3>2, <3>3, <1>t DEF TypeOK
      <3>5. Times' /\ Paid'
        BY <2>1, <2>2, <3>1, <3>3, <3>d, <1>t DEF Times, Paid
      <3>6. PropertySaved'
        <4>1. "lastdraw" \in unsure
          BY <2>6, <1>t DEF UnsureUnderWay, UnderWay, Fields
        <4> QED
          BY <4>1, <2>1, <3>3, <1>t DEF PropertySaved, Fields
      <3>7. Owns' /\ Ledger'
        BY <2>1, <2>2, <3>3, <1>t DEF Owns, Ledger
      <3> QED
        BY <2>3, <3>4, <3>5, <3>6, <3>7 DEF IInv
    <2> QED
      BY <2>4, <2>5, <2>6, <1>t DEF TypeOK, Strays
  <1>7. ASSUME NEW p \in Players, Effect(p) PROVE IInv'
    BY <1>7, <1>t
       DEF Effect, IInv, TypeOK, Times, UnsureUnderWay, UnderWay, PropertySaved, Paid,
           Owns, Ledger
  <1>8. ASSUME NEW p \in Players, Dismiss(p) PROVE IInv'
    BY <1>8, <1>t
       DEF Dismiss, Answers, IInv, TypeOK, Times, UnsureUnderWay, UnderWay, PropertySaved,
           Paid, Owns, Ledger
  <1>9. ASSUME NEW p \in Players, Sync(p) PROVE IInv'
    <2>1. UNCHANGED <<now, doc, unsure, prop, money, dlg, history>> /\ Saves(p)
      BY <1>9 DEF Sync
    <2>2. /\ saved' \in [Players -> Nat] /\ stray' \subseteq Strays /\ doubts' \in Nat
          /\ \A s \in stray' : s \in stray \/ s.field = "money"
      BY <2>1, Saving
    <2>3. TypeOK'
      BY <2>1, <2>2, <1>t DEF TypeOK
    <2>4. UnsureUnderWay'
      BY <2>1, <2>2, <1>t DEF UnsureUnderWay, UnderWay, Fields
    <2>5. Times' /\ PropertySaved' /\ Paid'
      BY <2>1, <2>2, <1>t DEF Times, PropertySaved, Paid
    <2>6. Owns' /\ Ledger'
      BY <2>1, <2>2, <1>t DEF Owns, Ledger
    <2> QED
      BY <2>3, <2>4, <2>5, <2>6 DEF IInv
  <1>10. ASSUME NEW p \in Players, Disconnect(p) PROVE IInv'
    <2>1. /\ Saves(p) \/ UNCHANGED <<saved, stray, doubts>>
          /\ LogInAgain({p})
          /\ UNCHANGED <<now, doc, unsure, prop, created, periods, drawn, paidat, doubted,
                         reopened>>
      BY <1>10 DEF Disconnect
    <2>2. /\ saved' \in [Players -> Nat] /\ stray' \subseteq Strays /\ doubts' \in Nat
          /\ \A s \in stray' : s \in stray \/ s.field = "money"
      BY <2>1, Saving
    <2>3. /\ money' \in [Players -> Nat]
          /\ undone' \in [Players \ Guests -> Int]
          /\ dlg' \in [Players -> {"none", "onsale", "sold"}]
          /\ Ledger'
      BY <2>1, <2>2, Leaving
    <2>4. TypeOK'
      BY <2>1, <2>2, <2>3, <1>t DEF TypeOK
    <2>5. UnsureUnderWay'
      BY <2>1, <2>2, <1>t DEF UnsureUnderWay, UnderWay, Fields
    <2>6. Times' /\ PropertySaved' /\ Paid' /\ Owns'
      BY <2>1, <2>2, <1>t DEF Times, PropertySaved, Paid, Owns
    <2> QED
      BY <2>3, <2>4, <2>5, <2>6 DEF IInv
  <1>11. ASSUME NEW p \in Players, Purchase(p) PROVE IInv'
    <2> DEFINE v == UniqueID(p)
    <2>1. /\ prop.exists /\ prop.owner = NoOwner /\ money[p] >= Value
          /\ prop' = [prop EXCEPT !.owner = v]
          /\ money' = [money EXCEPT ![p] = @ - Value]
          /\ dlg' = [dlg EXCEPT ![p] = "none"]
          /\ UNCHANGED <<now, saved, created, periods, drawn, paidat, undone, reopened>>
      BY <1>11 DEF Purchase, Answers, OnSale
    <2>2. PICK w \in Returned(Stored, "owner", v) : Writes(w) /\ Doubts(w, p)
      BY <1>11 DEF Purchase
    <2>3. Wrote(Stored, w, "owner", v) /\ ("owner" \notin w.unsure => w.doc.owner = v)
      <3>1. Sound(Stored) /\ Stored.doc = doc /\ Stored.unsure = unsure
        BY <1>s, <2>1
      <3>2. v \in Players \cup {NoOwner}
        BY <1>w
      <3> HIDE DEF v
      <3> QED
        BY <3>1, <3>2, <2>2, WritingOwner
    <2>4. v = NoOwner \/ (v = p /\ p \notin Guests)
      BY <1>w
    <2> HIDE DEF v
    <2>5. /\ doc' \in Props /\ doc'.exists /\ stray' \subseteq Strays
          /\ doubts' \in Nat /\ unsure' \subseteq Fields /\ doubted' \subseteq Players
          /\ doc'.lastdraw = doc.lastdraw
          /\ "lastdraw" \in unsure' <=> "lastdraw" \in unsure
          /\ \A s \in stray' : s.field = "lastdraw" => s.value <= now
          /\ UnsureUnderWay'
          /\ doc'.owner \in (Players \ Guests) \cup {NoOwner}
          /\ \A s \in stray' : s.field = "owner" =>
                /\ s.value \in (doubted' \ Guests) \cup {NoOwner}
                /\ doc'.owner \in doubted' \cup {NoOwner}
          /\ doubted \subseteq doubted'
          /\ p \notin doubted' => "owner" \notin unsure'
          /\ \A q \in Players \ (Guests \cup doubted') :
                q # p => doc.owner # q /\ doc'.owner # q /\ prop.owner # q
      BY <1>s, <2>1, <2>2, <2>3, <2>4, Trading
    <2>6. "owner" \notin unsure' => doc'.owner = v
      BY <2>2, <2>3 DEF Writes
    <2>7. /\ prop' \in Props /\ prop'.owner = v /\ prop'.exists
          /\ prop'.lastdraw = prop.lastdraw
      BY <2>1, <2>4, <1>t DEF TypeOK, Props
    <2>8. TypeOK'
      <3>1. money' \in [Players -> Nat]
        BY <2>1, <1>t DEF TypeOK
      <3> QED
        BY <2>1, <2>5, <2>7, <3>1, <1>t DEF TypeOK
    <2>9. Times' /\ Paid'
      BY <2>1, <2>5, <2>7, <1>s, <1>t DEF Times, Paid
    <2>10. PropertySaved'
      BY <2>1, <2>5, <2>6, <2>7, <1>t DEF PropertySaved, Fields
    <2>11. ASSUME NEW q \in Players \ (Guests \cup doubted')
           PROVE  /\ prop'.owner = q <=> doc'.owner = q
                  /\ doc.owner = q <=> FALSE
                  /\ doc'.owner = q <=> q = p
      <3>1. CASE q = p
        <4>1. v = p /\ doc'.owner = v
          BY <3>1, <1>w, <2>5, <2>6 DEF v
        <4>2. doc.owner # p
          BY <3>1, <2>1, <2>5, <1>t DEF Owns
        <4> QED
          BY <3>1, <4>1, <4>2, <2>7
      <3>2. CASE q # p
        BY <3>2, <2>4, <2>5, <2>7
      <3> QED
        BY <3>1, <3>2
    <2>12. Owns'
      BY <2>5, <2>11 DEF Owns
    <2>13. Ledger'
      <3> SUFFICES ASSUME NEW q \in Players \ (Guests \cup doubted')
                   PROVE  money'[q] = StartMoney + drawn[q] + undone[q]
                                         - (IF doc'.owner = q THEN Value ELSE 0)
        BY <2>1 DEF Ledger
      <3>1. money[q] = StartMoney + drawn[q] + undone[q] - 0
        BY <2>5, <2>11, <1>t DEF Ledger
      <3>2. /\ drawn[q] \in Nat /\ undone[q] \in Int /\ money[q] \in Nat
            /\ money \in [Players -> Nat]
        BY <1>t DEF TypeOK
      <3>3. CASE q = p
        BY <3>1, <3>2, <3>3, <2>1, <2>11
      <3>4. CASE q # p
        BY <3>1, <3>2, <3>4, <2>1, <2>11
      <3> QED
        BY <3>3, <3>4
    <2> QED
      BY <2>5, <2>8, <2>9, <2>10, <2>12, <2>13 DEF IInv
  <1>12. ASSUME NEW p \in Players, PurchaseFails(p) PROVE IInv'
    <2> DEFINE v == UniqueID(p)
    <2>1. /\ prop.exists /\ prop.owner = NoOwner
          /\ dlg' = [dlg EXCEPT ![p] = "none"]
          /\ UNCHANGED <<now, prop, money, saved, created, periods, drawn, paidat, undone,
                         reopened>>
      BY <1>12 DEF PurchaseFails, Answers, OnSale
    <2>2. PICK w \in Threw(Stored, "owner", v) : Writes(w) /\ Doubts(w, p)
      BY <1>12 DEF PurchaseFails
    <2>3. /\ Wrote(Stored, w, "owner", v)
          /\ "owner" \notin w.unsure => w.doc.owner = doc.owner /\ "owner" \notin unsure
      <3>1. Sound(Stored) /\ Stored.doc = doc /\ Stored.unsure = unsure
        BY <1>s, <2>1
      <3>2. v \in Players \cup {NoOwner}
        BY <1>w
      <3> HIDE DEF v
      <3> QED
        BY <3>1, <3>2, <2>2, WritingOwner
    <2>4. v = NoOwner \/ (v = p /\ p \notin Guests)
      BY <1>w
    <2> HIDE DEF v
    <2>5. /\ doc' \in Props /\ doc'.exists /\ stray' \subseteq Strays
          /\ doubts' \in Nat /\ unsure' \subseteq Fields /\ doubted' \subseteq Players
          /\ doc'.lastdraw = doc.lastdraw
          /\ "lastdraw" \in unsure' <=> "lastdraw" \in unsure
          /\ \A s \in stray' : s.field = "lastdraw" => s.value <= now
          /\ UnsureUnderWay'
          /\ doc'.owner \in (Players \ Guests) \cup {NoOwner}
          /\ \A s \in stray' : s.field = "owner" =>
                /\ s.value \in (doubted' \ Guests) \cup {NoOwner}
                /\ doc'.owner \in doubted' \cup {NoOwner}
          /\ doubted \subseteq doubted'
          /\ p \notin doubted' => "owner" \notin unsure'
          /\ \A q \in Players \ (Guests \cup doubted') :
                q # p => doc.owner # q /\ doc'.owner # q /\ prop.owner # q
      BY <1>s, <2>1, <2>2, <2>3, <2>4, Trading
    <2>6. "owner" \notin unsure' => doc'.owner = doc.owner
      BY <2>1, <2>2, <2>3, <1>s DEF Writes
    <2>7. "owner" \notin unsure' => "owner" \notin unsure
      BY <2>2, <2>3 DEF Writes
    <2>8. TypeOK'
      BY <2>1, <2>5, <1>t DEF TypeOK
    <2>9. Times' /\ Paid'
      BY <2>1, <2>5, <1>s, <1>t DEF Times, Paid
    <2>10. PropertySaved'
      BY <2>1, <2>5, <2>6, <2>7, <1>t DEF PropertySaved, Fields
    <2>11. ASSUME NEW q \in Players \ (Guests \cup doubted')
           PROVE  (prop.owner = q <=> doc'.owner = q) /\ (doc.owner = q <=> doc'.owner = q)
      <3>1. prop.owner = q <=> doc.owner = q
        BY <2>1, <2>5, <1>t DEF Owns
      <3>2. CASE q = p
        BY <3>1, <3>2, <2>5, <2>6
      <3>3. CASE q # p
        BY <3>1, <3>3, <2>5
      <3> QED
        BY <3>2, <3>3
    <2>12. Owns'
      BY <2>1, <2>5, <2>11 DEF Owns
    <2>13. Ledger'
      BY <2>1, <2>5, <2>11, <1>t DEF Ledger
    <2> QED
      BY <2>5, <2>8, <2>9, <2>10, <2>12, <2>13 DEF IInv
  <1>13. ASSUME NEW p \in Players, Draw(p) PROVE IInv'
    <2>1. /\ prop.exists /\ prop.owner = UniqueID(p)
          /\ prop' = [prop EXCEPT !.lastdraw = LastDraw]
          /\ money' = [money EXCEPT ![p] = @ + Earns]
          /\ dlg' = [dlg EXCEPT ![p] = "none"]
          /\ UNCHANGED <<now, saved, created, doubted, undone, reopened>>
      BY <1>13 DEF Draw, Answers
    <2>2. PICK d : Draws(p, d) /\ Writes(d)
      BY <1>13 DEF Draw
    <2>3. /\ Sound(d)
          /\ d.doc.owner = doc.owner /\ ("owner" \in d.unsure <=> "owner" \in unsure)
          /\ "lastdraw" \notin d.unsure => d.doc.lastdraw = LastDraw
          /\ d.doc.lastdraw \in Nat /\ d.doc.lastdraw <= now
          /\ \A s \in d.stray : \/ s \in stray
                                \/ s.field = "lastdraw" /\ s.value <= now
          /\ LastDraw \in Nat /\ LastDraw <= now /\ paidat' = LastDraw
          /\ Earns \in Nat /\ drawn' = [drawn EXCEPT ![p] = @ + Earns]
          /\ periods' \in Nat
          /\ periods' * Period <= (paidat' - created) + reopened
      BY <2>1, <2>2, Drawing
    <2>6. /\ doc' = d.doc /\ stray' = d.stray /\ unsure' = d.unsure /\ doubts' = d.doubts
          /\ doc' \in Props /\ doc'.exists /\ stray' \subseteq Strays
          /\ doubts' \in Nat /\ unsure' \subseteq Fields
          /\ UnsureUnderWay'
      <3>1. /\ d.doc \in Props /\ d.doc.exists /\ d.stray \subseteq Strays
            /\ d.doubts \in Nat /\ d.unsure \subseteq Fields
            /\ UnderWay(d.stray) \subseteq d.unsure
        BY <2>3 DEF Sound, Writings
      <3>2. /\ doc' = d.doc /\ stray' = d.stray /\ unsure' = d.unsure /\ doubts' = d.doubts
            /\ UnderWay(stray)' = UnderWay(d.stray)
        BY <2>2 DEF Writes, UnderWay
      <3> QED
        BY <3>1, <3>2 DEF UnsureUnderWay
    <2>7. /\ prop' \in Props /\ prop'.owner = prop.owner /\ prop'.exists
          /\ prop'.lastdraw = LastDraw
      BY <2>1, <2>3, <1>t DEF TypeOK, Props
    <2>8. TypeOK'
      <3>1. money' \in [Players -> Nat] /\ drawn' \in [Players -> Nat] /\ paidat' \in Nat
        BY <2>1, <2>3, <1>t DEF TypeOK
      <3> QED
        BY <2>1, <2>3, <2>6, <2>7, <3>1, <1>t DEF TypeOK
    <2>9. Times' /\ Paid'
      BY <2>1, <2>3, <2>6, <2>7, <1>t DEF Times, Paid
    <2>10. PropertySaved'
      BY <2>1, <2>3, <2>6, <2>7, <1>t DEF PropertySaved, Fields
    <2>11. Owns'
      BY <2>1, <2>3, <2>6, <2>7, <1>t DEF Owns
    <2>12. Ledger'
      <3> SUFFICES ASSUME NEW q \in Players \ (Guests \cup doubted)
                   PROVE  money'[q] = StartMoney + drawn'[q] + undone[q]
                                         - (IF doc.owner = q THEN Value ELSE 0)
        BY <2>1, <2>3, <2>6 DEF Ledger
      <3>1. money[q] = StartMoney + drawn[q] + undone[q]
                           - (IF doc.owner = q THEN Value ELSE 0)
        BY <1>t DEF Ledger
      <3>2. /\ drawn[q] \in Nat /\ undone[q] \in Int /\ money[q] \in Nat
            /\ money \in [Players -> Nat] /\ drawn \in [Players -> Nat]
        BY <1>t DEF TypeOK
      <3> QED
        BY <3>1, <3>2, <2>1, <2>3
    <2> QED
      BY <2>6, <2>8, <2>9, <2>10, <2>11, <2>12 DEF IInv
  <1>14. ASSUME NEW p \in Players, DrawFails(p) PROVE IInv'
    <2>1. /\ prop.exists
          /\ dlg' = [dlg EXCEPT ![p] = "none"]
          /\ UNCHANGED <<now, prop, money, saved, created, periods, drawn, paidat, doubted,
                         undone, reopened>>
      BY <1>14 DEF DrawFails, Answers
    <2>2. PICK w \in Threw(Stored, "lastdraw", now) : Writes(w)
      BY <1>14 DEF DrawFails
    <2>3. /\ Wrote(Stored, w, "lastdraw", now)
          /\ "lastdraw" \notin w.unsure =>
                w.doc["lastdraw"] = Stored.doc["lastdraw"] /\ "lastdraw" \notin Stored.unsure
      <3>1. Sound(Stored)
        BY <1>s, <2>1
      <3>2. [field |-> "lastdraw", value |-> now] \in Strays /\ "lastdraw" \in Fields
            /\ now \in Nat
        BY <1>w
      <3> QED
        BY <3>1, <3>2, <2>2, Writing
    <2>4. /\ doc' = w.doc /\ stray' = w.stray /\ unsure' = w.unsure /\ doubts' = w.doubts
      BY <2>2 DEF Writes
    <2>5. /\ Sound(w)
          /\ w.doc["owner"] = doc["owner"] /\ ("owner" \in w.unsure <=> "owner" \in unsure)
          /\ w.doc["lastdraw"] = doc["lastdraw"] \/ w.doc["lastdraw"] = now
          /\ \A s \in w.stray : s \in stray \/ (s.field = "lastdraw" /\ s.value = now)
          /\ "lastdraw" \notin w.unsure =>
                w.doc["lastdraw"] = doc["lastdraw"] /\ "lastdraw" \notin unsure
      BY <2>1, <2>3, <1>s DEF Wrote, Fields
    <2>6. /\ doc' \in Props /\ doc'.exists /\ stray' \subseteq Strays
          /\ doubts' \in Nat /\ unsure' \subseteq Fields
          /\ UnsureUnderWay'
      <3>1. /\ w.doc \in Props /\ w.doc.exists /\ w.stray \subseteq Strays
            /\ w.doubts \in Nat /\ w.unsure \subseteq Fields
            /\ UnderWay(w.stray) \subseteq w.unsure
        BY <2>5 DEF Sound, Writings
      <3>2. UnderWay(stray)' = UnderWay(w.stray)
        BY <2>4 DEF UnderWay
      <3> QED
        BY <3>1, <3>2, <2>4 DEF UnsureUnderWay
    <2>7. now \in Nat /\ doc.lastdraw <= now
      BY <1>t DEF TypeOK, Times
    <2>8. TypeOK'
      BY <2>1, <2>6, <1>t DEF TypeOK
    <2>9. Times' /\ Paid'
      BY <2>1, <2>4, <2>5, <2>6, <2>7, <1>t DEF Times, Paid
    <2>10. PropertySaved'
      BY <2>1, <2>4, <2>5, <2>6, <1>t DEF PropertySaved, Fields
    <2>11. Owns' /\ Ledger'
      BY <2>1, <2>4, <2>5, <1>t DEF Owns, Ledger
    <2> QED
      BY <2>6, <2>8, <2>9, <2>10, <2>11 DEF IInv
  <1>15. ASSUME NEW p \in Players, Sell(p) PROVE IInv'
    <2>1. /\ prop.exists /\ prop.owner = p /\ p \notin Guests
          /\ prop' = [prop EXCEPT !.owner = NoOwner, !.lastdraw = LastDraw]
          /\ money' = [money EXCEPT ![p] = @ + Earns + Value]
          /\ dlg' = [dlg EXCEPT ![p] = "none"]
          /\ UNCHANGED <<now, saved, created, undone, reopened>>
      BY <1>15, <1>w DEF Sell, Answers, OnSale
    <2>2. PICK d : /\ Draws(p, d)
                   /\ \E w \in Returned(d, "owner", NoOwner) : Writes(w) /\ Doubts(w, p)
      BY <1>15 DEF Sell
    <2>3. /\ Sound(d)
          /\ d.doc.owner = doc.owner /\ ("owner" \in d.unsure <=> "owner" \in unsure)
          /\ "lastdraw" \notin d.unsure => d.doc.lastdraw = LastDraw
          /\ d.doc.lastdraw \in Nat /\ d.doc.lastdraw <= now
          /\ \A s \in d.stray : \/ s \in stray
                                \/ s.field = "lastdraw" /\ s.value <= now
          /\ LastDraw \in Nat /\ LastDraw <= now /\ paidat' = LastDraw
          /\ Earns \in Nat /\ drawn' = [drawn EXCEPT ![p] = @ + Earns]
          /\ periods' \in Nat
          /\ periods' * Period <= (paidat' - created) + reopened
      BY <2>1, <2>2, Drawing
    <2>4. PICK w \in Returned(d, "owner", NoOwner) : Writes(w) /\ Doubts(w, p)
      BY <2>2
    <2>5. Wrote(d, w, "owner", NoOwner) /\ ("owner" \notin unsure' => doc'.owner = NoOwner)
      BY <2>3, <2>4, WritingOwner DEF Writes
    <2>6. /\ doc' \in Props /\ doc'.exists /\ stray' \subseteq Strays
          /\ doubts' \in Nat /\ unsure' \subseteq Fields /\ doubted' \subseteq Players
          /\ doc'.lastdraw = d.doc.lastdraw
          /\ "lastdraw" \in unsure' <=> "lastdraw" \in d.unsure
          /\ \A s \in stray' : s.field = "lastdraw" => s.value <= now
          /\ UnsureUnderWay'
          /\ doc'.owner \in (Players \ Guests) \cup {NoOwner}
          /\ \A s \in stray' : s.field = "owner" =>
                /\ s.value \in (doubted' \ Guests) \cup {NoOwner}
                /\ doc'.owner \in doubted' \cup {NoOwner}
          /\ doubted \subseteq doubted'
          /\ p \notin doubted' => "owner" \notin unsure'
          /\ \A q \in Players \ (Guests \cup doubted') :
                q # p => doc.owner # q /\ doc'.owner # q /\ prop.owner # q
      BY <2>1, <2>2, <2>3, <2>4, <2>5, Trading
    <2>7. /\ prop' \in Props /\ prop'.owner = NoOwner /\ prop'.exists
          /\ prop'.lastdraw = LastDraw
      <3>1. prop' = [exists |-> prop.exists, owner |-> NoOwner, lastdraw |-> LastDraw]
        BY <2>1, <1>t DEF TypeOK, Props
      <3> QED
        BY <3>1, <2>1, <2>3, <1>t DEF TypeOK, Props
    <2>8. TypeOK'
      <3>1. money' \in [Players -> Nat] /\ drawn' \in [Players -> Nat] /\ paidat' \in Nat
        BY <2>1, <2>3, <1>t DEF TypeOK
      <3> QED
        BY <2>1, <2>3, <2>6, <2>7, <3>1, <1>t DEF TypeOK
    <2>9. Times' /\ Paid'
      BY <2>1, <2>3, <2>6, <2>7, <1>t DEF Times, Paid
    <2>10. PropertySaved'
      BY <2>1, <2>3, <2>5, <2>6, <2>7, <1>t DEF PropertySaved, Fields
    <2>11. ASSUME NEW q \in Players \ (Guests \cup doubted')
           PROVE  doc'.owner # q /\ (doc.owner = q <=> q = p)
      <3>1. CASE q = p
        BY <3>1, <2>1, <2>5, <2>6, <1>t DEF Owns
      <3>2. CASE q # p
        BY <3>2, <2>6
      <3> QED
        BY <3>1, <3>2
    <2>12. Owns'
      <3>1. \A q \in Players : prop'.owner # q
        BY <2>7
      <3> QED
        BY <3>1, <2>6, <2>11 DEF Owns
    <2>13. Ledger'
      <3> SUFFICES ASSUME NEW q \in Players \ (Guests \cup doubted')
                   PROVE  money'[q] = StartMoney + drawn'[q] + undone[q] - 0
        BY <2>1, <2>11 DEF Ledger
      <3>1. money[q] = StartMoney + drawn[q] + undone[q] - (IF q = p THEN Value ELSE 0)
        BY <2>6, <2>11, <1>t DEF Ledger
      <3>2. /\ drawn[q] \in Nat /\ undone[q] \in Int /\ money[q] \in Nat
            /\ money \in [Players -> Nat] /\ drawn \in [Players -> Nat]
        BY <1>t DEF TypeOK
      <3>3. CASE q = p
        BY <3>1, <3>2, <3>3, <2>1, <2>3
      <3>4. CASE q # p
        BY <3>1, <3>2, <3>4, <2>1, <2>3
      <3> QED
        BY <3>3, <3>4
    <2> QED
      BY <2>6, <2>8, <2>9, <2>10, <2>12, <2>13 DEF IInv
  <1>16. ASSUME NEW p \in Players, SellFails(p) PROVE IInv'
    <2>1. /\ prop.exists /\ prop.owner = p /\ p \notin Guests
          /\ prop' = [prop EXCEPT !.lastdraw = LastDraw]
          /\ money' = [money EXCEPT ![p] = @ + Earns]
          /\ dlg' = [dlg EXCEPT ![p] = "none"]
          /\ UNCHANGED <<now, saved, created, undone, reopened>>
      BY <1>16, <1>w DEF SellFails, Answers, OnSale
    <2>2. PICK d : /\ Draws(p, d)
                   /\ \E w \in Threw(d, "owner", NoOwner) : Writes(w) /\ Doubts(w, p)
      BY <1>16 DEF SellFails
    <2>3. /\ Sound(d)
          /\ d.doc.owner = doc.owner /\ ("owner" \in d.unsure <=> "owner" \in unsure)
          /\ "lastdraw" \notin d.unsure => d.doc.lastdraw = LastDraw
          /\ d.doc.lastdraw \in Nat /\ d.doc.lastdraw <= now
          /\ \A s \in d.stray : \/ s \in stray
                                \/ s.field = "lastdraw" /\ s.value <= now
          /\ LastDraw \in Nat /\ LastDraw <= now /\ paidat' = LastDraw
          /\ Earns \in Nat /\ drawn' = [drawn EXCEPT ![p] = @ + Earns]
          /\ periods' \in Nat
          /\ periods' * Period <= (paidat' - created) + reopened
      BY <2>1, <2>2, Drawing
    <2>4. PICK w \in Threw(d, "owner", NoOwner) : Writes(w) /\ Doubts(w, p)
      BY <2>2
    <2>5. /\ Wrote(d, w, "owner", NoOwner)
          /\ "owner" \notin unsure' => doc'.owner = doc.owner /\ "owner" \notin unsure
      BY <2>3, <2>4, WritingOwner DEF Writes
    <2>6. /\ doc' \in Props /\ doc'.exists /\ stray' \subseteq Strays
          /\ doubts' \in Nat /\ unsure' \subseteq Fields /\ doubted' \subseteq Players
          /\ doc'.lastdraw = d.doc.lastdraw
          /\ "lastdraw" \in unsure' <=> "lastdraw" \in d.unsure
          /\ \A s \in stray' : s.field = "lastdraw" => s.value <= now
          /\ UnsureUnderWay'
          /\ doc'.owner \in (Players \ Guests) \cup {NoOwner}
          /\ \A s \in stray' : s.field = "owner" =>
                /\ s.value \in (doubted' \ Guests) \cup {NoOwner}
                /\ doc'.owner \in doubted' \cup {NoOwner}
          /\ doubted \subseteq doubted'
          /\ p \notin doubted' => "owner" \notin unsure'
          /\ \A q \in Players \ (Guests \cup doubted') :
                q # p => doc.owner # q /\ doc'.owner # q /\ prop.owner # q
      BY <2>1, <2>2, <2>3, <2>4, <2>5, Trading
    <2>7. /\ prop' \in Props /\ prop'.owner = prop.owner /\ prop'.exists
          /\ prop'.lastdraw = LastDraw
      BY <2>1, <2>3, <1>t DEF TypeOK, Props
    <2>8. TypeOK'
      <3>1. money' \in [Players -> Nat] /\ drawn' \in [Players -> Nat] /\ paidat' \in Nat
        BY <2>1, <2>3, <1>t DEF TypeOK
      <3> QED
        BY <2>1, <2>3, <2>6, <2>7, <3>1, <1>t DEF TypeOK
    <2>9. Times' /\ Paid'
      BY <2>1, <2>3, <2>6, <2>7, <1>t DEF Times, Paid
    <2>10. PropertySaved'
      BY <2>1, <2>3, <2>5, <2>6, <2>7, <1>t DEF PropertySaved, Fields
    <2>11. ASSUME NEW q \in Players \ (Guests \cup doubted')
           PROVE  (prop'.owner = q <=> doc'.owner = q) /\ (doc.owner = q <=> doc'.owner = q)
      <3>1. CASE q = p
        BY <3>1, <2>1, <2>5, <2>6, <2>7, <1>t DEF Owns
      <3>2. CASE q # p
        BY <3>2, <2>6, <2>7
      <3> QED
        BY <3>1, <3>2
    <2>12. Owns'
      BY <2>6, <2>11 DEF Owns
    <2>13. Ledger'
      <3> SUFFICES ASSUME NEW q \in Players \ (Guests \cup doubted')
                   PROVE  money'[q] = StartMoney + drawn'[q] + undone[q]
                                         - (IF doc.owner = q THEN Value ELSE 0)
        BY <2>1, <2>11 DEF Ledger
      <3>1. money[q] = StartMoney + drawn[q] + undone[q]
                           - (IF doc.owner = q THEN Value ELSE 0)
        BY <2>6, <1>t DEF Ledger
      <3>2. /\ drawn[q] \in Nat /\ undone[q] \in Int /\ money[q] \in Nat
            /\ money \in [Players -> Nat] /\ drawn \in [Players -> Nat]
        BY <1>t DEF TypeOK
      <3> QED
        BY <3>1, <3>2, <2>1, <2>3
    <2> QED
      BY <2>6, <2>8, <2>9, <2>10, <2>12, <2>13 DEF IInv
  <1> QED
    BY <1>1, <1>2, <1>3, <1>4, <1>5, <1>6, <1>7, <1>8, <1>9, <1>10, <1>11, <1>12, <1>13,
       <1>14, <1>15, <1>16 DEF Next

\* The inductive invariant holds throughout.
THEOREM Invariance == Spec => []IInv
  BY Initial, Step, PTL DEF Spec

\* Purchase's check of the buyer's money suffices: nobody's money is negative,
\* in memory or saved, whatever fails or comes late in between.
THEOREM TypeCorrect == Spec => []TypeOK
  <1>1. IInv => TypeOK
    BY DEF IInv
  <1> QED
    BY <1>1, Invariance, PTL

\* The Property and its document part only in a field whose last write was in
\* doubt, and only until the next load or write of that field.
THEOREM PropertyIsSaved == Spec => []PropertySaved
  <1>1. IInv => PropertySaved
    BY DEF IInv
  <1> QED
    BY <1>1, Invariance, PTL

\* Purchase and Sell move exactly the price, for any number of players and any
\* old dialogs they answer; time outs and crashes change the balance by what
\* was not saved, and writes in doubt by nothing for those who made none.
THEOREM LedgerBalances == Spec => []Ledger
  <1>1. IInv => Ledger
    BY DEF IInv
  <1> QED
    BY <1>1, Invariance, PTL

\* Draw pays for a period twice only where a load has set the last draw back,
\* for every period length and profit.
THEOREM ProfitPaidOnce == Spec => []ProfitEarned
  <1>1. IInv => ProfitEarned
    <2> SUFFICES ASSUME IInv PROVE ProfitEarned
      OBVIOUS
    <2>1. /\ paidat \in Nat /\ now \in Nat /\ created \in Nat /\ reopened \in Nat
          /\ periods * Period <= (paidat - created) + reopened
          /\ paidat <= now
      BY DEF IInv, TypeOK, Times, Paid
    <2>2. periods * Period \in Nat
      BY ProductNat, PropertiesAssumption DEF IInv, TypeOK
    <2> QED
      BY <2>1, <2>2 DEF ProfitEarned
  <1> QED
    BY <1>1, Invariance, PTL

=============================================================================
