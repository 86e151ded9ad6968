---------------------------- MODULE ZonesProofs -----------------------------
(***************************************************************************)
(* For any number of zone documents, teams, administrators and areas: a    *)
(* zone's area and trigger lead to it, an open remove dialog tells the     *)
(* truth until a zone is made, and a start without database failures       *)
(* loads everything.                                                       *)
(***************************************************************************)
EXTENDS Zones, FiniteSetTheorems, NaturalsInduction, SequenceTheorems, TLAPS

\* The mark of a zone carries its number and document.
Home(r) ==
    \A z \in Numbers : r.zone[z] # NoZone =>
        r.mark[r.zone[z].mark] = [zone |-> z, doc |-> r.zone[z].doc]

\* A mark leads to a zone that has this mark.
Led(r) ==
    \A m \in Marks : r.mark[m] # NoMark =>
        r.zone[r.mark[m].zone] = [doc |-> r.mark[m].doc, mark |-> m]

\* A document is that of one zone at most.
Apart(r) ==
    \A y, z \in Numbers : r.zone[y] # NoZone /\ r.zone[y].doc = r.zone[z].doc => y = z

RegistryOK(r) == r \in Registries /\ Home(r) /\ Apart(r)

\* A zone's document was written, and may have been removed since.
DocsExist == \A z \in Numbers : reg.zone[z] # NoZone => owner[reg.zone[z].doc] # Unwritten

\* As long as nobody switches teams on the way, the wizard is in the hands of
\* members of some team, and so are all zones, the ones still to be written
\* included.
Wizards ==
    excuse # "switch" =>
        /\ \A d \in Written : owner[d] \in Teams
        /\ \A s \in stray : s.owner \in Teams \cup {Removed}
        /\ \A p \in Players : dlg[p] = "name" \/ step[p] # NoVar => team[p] \in Teams

\* Without a fault, all teams are loaded.
TeamsThere == excuse = "none" => loaded = Teams

ZonesInv ==
    /\ TypeOK /\ Apart(reg) /\ MarksLeadHome /\ DocsExist
    /\ ListIsRight /\ Wizards /\ TeamsThere /\ EverythingLoaded

-----------------------------------------------------------------------------
(***************************************************************************)
(* Numbers.                                                                *)
(***************************************************************************)

\* The least element of a set of naturals.
LEMMA LeastNatural ==
    ASSUME NEW S \in SUBSET Nat, S # {}
    PROVE  \E n \in S : \A m \in S : n <= m
<1> DEFINE R == {ss \in Nat \X Nat : ss[1] < ss[2]}
<1>1. IsWellFoundedOn(R, Nat)
  BY NatLessThanWellFounded DEF OpToRel
<1> HIDE DEF R
<1>2. PICK x \in S : \A y \in S : ~ (<<y, x>> \in R)
  BY <1>1, WFMin
<1>3. ASSUME NEW y \in S, y < x PROVE FALSE
  <2>1. <<y, x>> \in R
    BY <1>3 DEF R
  <2> QED
    BY <1>2, <2>1
<1> QED
  BY <1>2, <1>3

\* Induction, for a set.
LEMMA NatInd ==
    ASSUME NEW S \in SUBSET Nat, 0 \in S, \A n \in S : n + 1 \in S
    PROVE  S = Nat
<1> SUFFICES ASSUME Nat \ S # {} PROVE FALSE
  OBVIOUS
<1>1. PICK n \in Nat \ S : \A m \in Nat \ S : n <= m
  BY LeastNatural
<1>2. n # 0 /\ n - 1 \in Nat /\ n - 1 < n
  BY <1>1
<1>3. n - 1 \in S
  BY <1>1, <1>2
<1>4. (n - 1) + 1 \in S
  BY <1>3
<1> QED
  BY <1>1, <1>4

\* Min picks an element.
LEMMA MinIn ==
    ASSUME NEW S \in SUBSET Nat, S # {}
    PROVE  Min(S) \in S
  BY LeastNatural DEF Min

\* Sizes of the sets of numbers and marks.
LEMMA Sizes ==
    /\ Cardinality(Docs) \in Nat /\ MaxMarks \in Nat /\ Cardinality(Docs) <= MaxMarks
    /\ IsFiniteSet(Numbers) /\ Cardinality(Numbers) = Cardinality(Docs)
    /\ IsFiniteSet(Marks) /\ Cardinality(Marks) = MaxMarks
    /\ Numbers \subseteq Nat \ {0} /\ Marks \subseteq Nat \ {0}
<1>1. Cardinality(Docs) \in Nat /\ MaxMarks \in Nat /\ Cardinality(Docs) <= MaxMarks
  BY ZonesAssumption, FS_CardinalityType
<1>2. IsFiniteSet(Numbers) /\ Cardinality(Numbers) = Cardinality(Docs)
  BY <1>1, FS_Interval DEF Numbers
<1>3. IsFiniteSet(Marks) /\ Cardinality(Marks) = MaxMarks
  BY <1>1, FS_Interval DEF Marks
<1> QED
  BY <1>1, <1>2, <1>3 DEF Numbers, Marks

-----------------------------------------------------------------------------
(***************************************************************************)
(* One zone in the registry, and one more.                                 *)
(***************************************************************************)

\* What there is at a number and at a mark.
LEMMA EntriesAre ==
    ASSUME NEW r \in Registries
    PROVE  /\ r.zone \in [Numbers -> [doc : Docs, mark : Marks] \cup {NoZone}]
           /\ r.mark \in [Marks -> [zone : Numbers, doc : Docs] \cup {NoMark}]
           /\ \A z \in Numbers : r.zone[z] # NoZone =>
                 r.zone[z].doc \in Docs /\ r.zone[z].mark \in Marks
           /\ \A m \in Marks : r.mark[m] # NoMark =>
                 r.mark[m].zone \in Numbers /\ r.mark[m].doc \in Docs
  BY DEF Registries

\* An entry is not that of nothing.
LEMMA EntryIsNew ==
    /\ NoZone.doc = NoDoc /\ NoZone.mark = 0 /\ NoMark.zone = 0 /\ NoMark.doc = NoDoc
    /\ NoDoc \notin Docs /\ 0 \notin Marks /\ 0 \notin Numbers
    /\ \A d \in Docs, m \in Marks : [doc |-> d, mark |-> m] # NoZone
    /\ \A d \in Docs, n \in Numbers : [zone |-> n, doc |-> d] # NoMark
<1>1. NoDoc \notin Docs
  BY ZonesAssumption DEF NoDoc
<1>2. 0 \notin Marks /\ 0 \notin Numbers
  BY Sizes
<1> QED
  BY <1>1, <1>2 DEF NoZone, NoMark

\* GangZoneCreate and the streamer find a number and ids, as long as there is a
\* document left without a zone.
LEMMA NumberIsFree ==
    ASSUME NEW r, RegistryOK(r), NEW d \in Docs,
           \A z \in Numbers : r.zone[z] # NoZone => r.zone[z].doc # d
    PROVE  FreeNumber(r) \in Numbers /\ r.zone[FreeNumber(r)] = NoZone
<1> DEFINE F == {z \in Numbers : r.zone[z] = NoZone}
<1>1. F # {}
  <2> SUFFICES ASSUME F = {} PROVE FALSE
    OBVIOUS
  <2> DEFINE f == [z \in Numbers |-> r.zone[z].doc]
  <2>1. \A z \in Numbers : r.zone[z] # NoZone
    OBVIOUS
  <2>2. f \in [Numbers -> Docs \ {d}]
    BY <2>1, EntriesAre DEF RegistryOK
  <2>3. IsFiniteSet(Docs \ {d}) /\ Cardinality(Docs \ {d}) = Cardinality(Docs) - 1
    BY FS_RemoveElement, ZonesAssumption
  <2>4. Cardinality(Docs \ {d}) < Cardinality(Numbers) /\ IsFiniteSet(Numbers)
    BY <2>3, Sizes
  <2>5. PICK y, z \in Numbers : y # z /\ f[y] = f[z]
    <3> HIDE DEF f
    <3> QED
      BY <2>2, <2>3, <2>4, FS_PigeonHole
  <2>6. r.zone[y].doc = r.zone[z].doc
    BY <2>5
  <2> QED
    BY <2>1, <2>5, <2>6 DEF RegistryOK, Apart
<1>2. F \in SUBSET Nat
  BY Sizes
<1>3. Min(F) \in F
  BY <1>1, <1>2, MinIn
<1> QED
  BY <1>3 DEF FreeNumber

LEMMA MarkIsFree ==
    ASSUME NEW r, FreeMarks(r) # {}
    PROVE  Min(FreeMarks(r)) \in Marks /\ r.mark[Min(FreeMarks(r))] = NoMark
<1>1. FreeMarks(r) \in SUBSET Nat
  BY Sizes DEF FreeMarks
<1>2. Min(FreeMarks(r)) \in FreeMarks(r)
  BY <1>1, MinIn
<1> QED
  BY <1>2 DEF FreeMarks

\* u is r with a mark m for number n, and with the zone as well.
IsMarked(r, u, d, n, m) ==
    /\ u \in Registries /\ u.zone = r.zone
    /\ u.mark = [r.mark EXCEPT ![m] = [zone |-> n, doc |-> d]]

IsConstructed(r, u, d, n, m) ==
    /\ u \in Registries
    /\ u.zone = [r.zone EXCEPT ![n] = [doc |-> d, mark |-> m]]
    /\ u.mark = [r.mark EXCEPT ![m] = [zone |-> n, doc |-> d]]

\* What the constructor does, whether it throws or not.
LEMMA ConstructIs ==
    ASSUME NEW r, RegistryOK(r), NEW d \in Docs, FreeMarks(r) # {},
           \A z \in Numbers : r.zone[z] # NoZone => r.zone[z].doc # d
    PROVE  \E n \in Numbers, m \in Marks :
              /\ r.zone[n] = NoZone /\ r.mark[m] = NoMark
              /\ IsMarked(r, Marked(r, d), d, n, m)
              /\ IsConstructed(r, Construct(r, d), d, n, m)
<1>1. PICK n \in Numbers : n = FreeNumber(r) /\ r.zone[n] = NoZone
  BY NumberIsFree
<1>2. PICK m \in Marks : m = Min(FreeMarks(r)) /\ r.mark[m] = NoMark
  BY MarkIsFree
<1>3. Marked(r, d) = [r EXCEPT !.mark[m] = [zone |-> n, doc |-> d]]
  BY <1>1, <1>2 DEF Marked
<1>4. PICK u : u = Marked(r, d)
  OBVIOUS
<1>5. IsMarked(r, u, d, n, m)
  BY <1>3, <1>4 DEF IsMarked, RegistryOK, Registries
<1>6. Construct(r, d) = [u EXCEPT !.zone[n] = [doc |-> d, mark |-> m]]
  BY <1>1, <1>2, <1>4 DEF Construct
<1>7. IsConstructed(r, Construct(r, d), d, n, m)
  BY <1>5, <1>6 DEF IsMarked, IsConstructed, Registries
<1> QED
  BY <1>1, <1>2, <1>4, <1>5, <1>7

\* A constructor that throws leaves the zones as they are.
LEMMA MarkedOK ==
    ASSUME NEW r, RegistryOK(r), NEW d \in Docs, FreeMarks(r) # {},
           \A z \in Numbers : r.zone[z] # NoZone => r.zone[z].doc # d
    PROVE  RegistryOK(Marked(r, d)) /\ Marked(r, d).zone = r.zone
<1>1. PICK u : u = Marked(r, d)
  OBVIOUS
<1>2. PICK n \in Numbers, m \in Marks : r.mark[m] = NoMark /\ IsMarked(r, u, d, n, m)
  BY <1>1, ConstructIs
<1>3. u \in Registries /\ u.zone = r.zone
  BY <1>2 DEF IsMarked
<1>4. ASSUME NEW z \in Numbers, u.zone[z] # NoZone
      PROVE  u.mark[u.zone[z].mark] = [zone |-> z, doc |-> u.zone[z].doc]
  <2>1. r.zone[z].mark \in Marks /\ r.zone[z].doc \in Docs
    BY <1>3, <1>4, EntriesAre DEF RegistryOK
  <2>2. r.mark[r.zone[z].mark] = [zone |-> z, doc |-> r.zone[z].doc]
    BY <1>3, <1>4 DEF RegistryOK, Home
  <2>3. r.mark[r.zone[z].mark] # NoMark
    BY <2>1, <2>2, EntryIsNew
  <2>4. u.mark[r.zone[z].mark] = r.mark[r.zone[z].mark]
    BY <1>2, <2>1, <2>3, EntriesAre DEF IsMarked, RegistryOK
  <2> QED
    BY <1>3, <2>2, <2>4
<1>5. Apart(u)
  BY <1>3 DEF RegistryOK, Apart
<1> QED
  BY <1>1, <1>3, <1>4, <1>5 DEF RegistryOK, Home

\* What one more zone, that of document d, makes of the registry r.
OneMore(r, u, d) ==
    /\ RegistryOK(u) /\ (Led(r) => Led(u))
    /\ \A z \in Numbers : u.zone[z] # NoZone =>
          u.zone[z].doc = d \/ (r.zone[z] # NoZone /\ u.zone[z] = r.zone[z])
    /\ \A z \in Numbers : r.zone[z] # NoZone => u.zone[z] = r.zone[z]
    /\ \E z \in Numbers : u.zone[z].doc = d
    /\ Cardinality(FreeMarks(u)) = Cardinality(FreeMarks(r)) - 1

\* A constructor that does not throw.
LEMMA ConstructOK ==
    ASSUME NEW r, RegistryOK(r), NEW d \in Docs, FreeMarks(r) # {},
           \A z \in Numbers : r.zone[z] # NoZone => r.zone[z].doc # d
    PROVE  OneMore(r, Construct(r, d), d)
<1>1. PICK u : u = Construct(r, d)
  OBVIOUS
<1>2. PICK n \in Numbers, m \in Marks :
        r.zone[n] = NoZone /\ r.mark[m] = NoMark /\ IsConstructed(r, u, d, n, m)
  BY <1>1, ConstructIs
<1>3. u \in Registries /\ r \in Registries
  BY <1>2 DEF IsConstructed, RegistryOK
<1>4. u.zone[n] = [doc |-> d, mark |-> m] /\ \A z \in Numbers \ {n} : u.zone[z] = r.zone[z]
  BY <1>2, <1>3, EntriesAre DEF IsConstructed
<1>5. u.mark[m] = [zone |-> n, doc |-> d] /\ \A k \in Marks \ {m} : u.mark[k] = r.mark[k]
  BY <1>2, <1>3, EntriesAre DEF IsConstructed
<1>6. ASSUME NEW z \in Numbers \ {n}, r.zone[z] # NoZone
      PROVE  /\ r.zone[z].mark \in Marks \ {m} /\ r.zone[z].doc # d
             /\ r.mark[r.zone[z].mark] = [zone |-> z, doc |-> r.zone[z].doc]
  <2>1. r.zone[z].mark \in Marks /\ r.zone[z].doc \in Docs
    BY <1>3, <1>6, EntriesAre
  <2>2. r.mark[r.zone[z].mark] = [zone |-> z, doc |-> r.zone[z].doc]
    BY <1>6 DEF RegistryOK, Home
  <2>3. r.mark[r.zone[z].mark] # NoMark
    BY <2>1, <2>2, EntryIsNew
  <2> QED
    BY <1>2, <1>6, <2>1, <2>2, <2>3
<1>7. Home(u)
  <2> SUFFICES ASSUME NEW z \in Numbers, u.zone[z] # NoZone
               PROVE  u.mark[u.zone[z].mark] = [zone |-> z, doc |-> u.zone[z].doc]
    BY DEF Home
  <2>1. CASE z = n
    BY <1>4, <1>5, <2>1
  <2>2. CASE z # n
    BY <1>4, <1>5, <1>6, <2>2
  <2> QED
    BY <2>1, <2>2
<1>8. Apart(u)
  <2> SUFFICES ASSUME NEW y \in Numbers, NEW z \in Numbers, u.zone[y] # NoZone,
                      u.zone[y].doc = u.zone[z].doc, y # z
               PROVE  FALSE
    BY DEF Apart
  <2>1. u.zone[n].doc = d /\ d # NoDoc /\ NoZone.doc = NoDoc
    BY <1>4, EntryIsNew
  <2>2. CASE y = n
    <3>1. u.zone[z] = r.zone[z] /\ r.zone[z].doc = d
      BY <1>4, <2>1, <2>2
    <3> QED
      BY <1>6, <2>1, <2>2, <3>1
  <2>3. CASE y # n
    <3>1. u.zone[y] = r.zone[y] /\ r.zone[y].doc # d
      BY <1>4, <1>6, <2>3
    <3>2. z # n
      BY <2>1, <3>1
    <3>3. u.zone[z] = r.zone[z]
      BY <1>4, <3>2
    <3> QED
      BY <3>1, <3>3 DEF RegistryOK, Apart
  <2> QED
    BY <2>2, <2>3
<1>9. Led(r) => Led(u)
  <2> SUFFICES ASSUME Led(r), NEW k \in Marks, u.mark[k] # NoMark
               PROVE  u.zone[u.mark[k].zone] = [doc |-> u.mark[k].doc, mark |-> k]
    BY DEF Led
  <2>1. CASE k = m
    BY <1>4, <1>5, <2>1
  <2>2. CASE k # m
    <3>1. u.mark[k] = r.mark[k]
      BY <1>5, <2>2
    <3>2. r.zone[r.mark[k].zone] = [doc |-> r.mark[k].doc, mark |-> k]
      BY <3>1 DEF Led
    <3>3. r.mark[k].zone \in Numbers /\ r.mark[k].doc \in Docs
      BY <1>3, <3>1, EntriesAre
    <3>4. r.mark[k].zone # n
      BY <1>2, <3>2, <3>3, EntryIsNew
    <3> QED
      BY <1>4, <3>1, <3>2, <3>3, <3>4
  <2> QED
    BY <2>1, <2>2
<1>10. Cardinality(FreeMarks(u)) = Cardinality(FreeMarks(r)) - 1
  <2>1. u.mark[m] # NoMark
    BY <1>5, EntryIsNew
  <2>2. FreeMarks(u) = FreeMarks(r) \ {m}
    BY <1>5, <2>1 DEF FreeMarks
  <2>3. m \in FreeMarks(r) /\ FreeMarks(r) \in SUBSET Marks
    BY <1>2 DEF FreeMarks
  <2>4. IsFiniteSet(FreeMarks(r))
    BY <2>3, Sizes, FS_Subset
  <2> QED
    BY <2>2, <2>3, <2>4, FS_RemoveElement
<1>11. \A z \in Numbers : u.zone[z] # NoZone =>
          u.zone[z].doc = d \/ (r.zone[z] # NoZone /\ u.zone[z] = r.zone[z])
  BY <1>4
<1>12. \A z \in Numbers : r.zone[z] # NoZone => u.zone[z] = r.zone[z]
  BY <1>2, <1>4
<1>13. u.zone[n].doc = d
  BY <1>4
<1> QED
  BY <1>1, <1>3, <1>7, <1>8, <1>9, <1>10, <1>11, <1>12, <1>13 DEF OneMore, RegistryOK

-----------------------------------------------------------------------------
(***************************************************************************)
(* Zones that go.                                                          *)
(***************************************************************************)

\* What is left of the registry r without the zones Z.
Without(r, u, Z) ==
    /\ RegistryOK(u) /\ (Led(r) => Led(u))
    /\ \A z \in Numbers : u.zone[z] = IF z \in Z THEN NoZone ELSE r.zone[z]

LEMMA DestructOK ==
    ASSUME NEW r, RegistryOK(r), NEW Z \in SUBSET Numbers
    PROVE  Without(r, Destruct(r, Z), Z)
<1>1. PICK u : u = Destruct(r, Z)
  OBVIOUS
<1>2. r \in Registries
  BY DEF RegistryOK
<1>3. /\ u.zone = [z \in Numbers |-> IF z \in Z THEN NoZone ELSE r.zone[z]]
      /\ u.mark = [m \in Marks |->
                     IF \E z \in Z : r.zone[z].mark = m THEN NoMark ELSE r.mark[m]]
  BY <1>1 DEF Destruct
<1>4. u \in Registries
  <2>1. u.zone \in [Numbers -> [doc : Docs, mark : Marks] \cup {NoZone}]
    BY <1>2, <1>3, EntriesAre
  <2>2. u.mark \in [Marks -> [zone : Numbers, doc : Docs] \cup {NoMark}]
    BY <1>2, <1>3, EntriesAre
  <2>3. u = [zone |-> u.zone, mark |-> u.mark]
    BY <1>1 DEF Destruct
  <2> QED
    BY <2>1, <2>2, <2>3 DEF Registries
<1>5. \A z \in Numbers : u.zone[z] = IF z \in Z THEN NoZone ELSE r.zone[z]
  BY <1>3
<1>6. ASSUME NEW y \in Numbers, NEW z \in Numbers, r.zone[y] # NoZone,
             r.zone[y].mark = r.zone[z].mark
      PROVE  y = z
  <2>1. r.zone[y].mark \in Marks
    BY <1>2, <1>6, EntriesAre
  <2>2. r.zone[z] # NoZone
    BY <1>6, <2>1, EntryIsNew
  <2>4. /\ r.mark[r.zone[y].mark] = [zone |-> y, doc |-> r.zone[y].doc]
        /\ r.mark[r.zone[z].mark] = [zone |-> z, doc |-> r.zone[z].doc]
    BY <1>6, <2>2 DEF RegistryOK, Home
  <2>3. r.mark[r.zone[y].mark].zone = y /\ r.mark[r.zone[z].mark].zone = z
    BY <2>4
  <2> QED
    BY <1>6, <2>3
<1>7. Home(u)
  <2> SUFFICES ASSUME NEW z \in Numbers, u.zone[z] # NoZone
               PROVE  u.mark[u.zone[z].mark] = [zone |-> z, doc |-> u.zone[z].doc]
    BY DEF Home
  <2>1. z \notin Z /\ u.zone[z] = r.zone[z]
    BY <1>5
  <2>2. r.zone[z].mark \in Marks
    BY <1>2, <2>1, EntriesAre
  <2>3. ~ \E y \in Z : r.zone[y].mark = r.zone[z].mark
    BY <1>6, <2>1
  <2>4. u.mark[r.zone[z].mark] = r.mark[r.zone[z].mark]
    BY <1>3, <2>2, <2>3
  <2> QED
    BY <2>1, <2>4 DEF RegistryOK, Home
<1>8. Apart(u)
  <2> SUFFICES ASSUME NEW y \in Numbers, NEW z \in Numbers, u.zone[y] # NoZone,
                      u.zone[y].doc = u.zone[z].doc
               PROVE  y = z
    BY DEF Apart
  <2>1. u.zone[y] = r.zone[y] /\ r.zone[y].doc \in Docs
    BY <1>2, <1>5, EntriesAre
  <2>2. u.zone[z] # NoZone
    BY <2>1, EntryIsNew
  <2>3. u.zone[z] = r.zone[z]
    BY <1>5, <2>2
  <2> QED
    BY <2>1, <2>3 DEF RegistryOK, Apart
<1>9. Led(r) => Led(u)
  <2> SUFFICES ASSUME Led(r), NEW m \in Marks, u.mark[m] # NoMark
               PROVE  u.zone[u.mark[m].zone] = [doc |-> u.mark[m].doc, mark |-> m]
    BY DEF Led
  <2>1. (~ \E z \in Z : r.zone[z].mark = m) /\ u.mark[m] = r.mark[m]
    BY <1>3
  <2>2. r.zone[r.mark[m].zone] = [doc |-> r.mark[m].doc, mark |-> m]
    BY <2>1 DEF Led
  <2>3. r.mark[m].zone \in Numbers
    BY <1>2, <2>1, EntriesAre
  <2>4. r.mark[m].zone \notin Z
    BY <2>1, <2>2
  <2> QED
    BY <1>5, <2>1, <2>2, <2>3, <2>4
<1> QED
  BY <1>1, <1>4, <1>5, <1>7, <1>8, <1>9 DEF Without, RegistryOK

\* The empty registry.
LEMMA EmptyOK ==
    /\ RegistryOK(Empty) /\ Led(Empty) /\ \A z \in Numbers : Empty.zone[z] = NoZone
    /\ FreeMarks(Empty) = Marks
  BY DEF Empty, RegistryOK, Registries, Home, Apart, Led, FreeMarks

-----------------------------------------------------------------------------
(***************************************************************************)
(* A load: zones that come one after the other.                            *)
(***************************************************************************)

\* The registries of a load, as far as zone n.
Grows(f, r, s, n) ==
    f = [k \in 0 .. n |-> IF k = 0 THEN r ELSE Construct(f[k - 1], s[k])]

\* There are such registries, however long the load.
LEMMA GrowthExists ==
    ASSUME NEW r, NEW s, NEW n \in Nat
    PROVE  \E f : Grows(f, r, s, n)
<1> DEFINE S == {k \in Nat : \E f : Grows(f, r, s, k)}
<1>1. 0 \in S
  <2>1. Grows([k \in 0 .. 0 |-> r], r, s, 0)
    BY DEF Grows
  <2> QED
    BY <2>1
<1>2. ASSUME NEW k \in S PROVE k + 1 \in S
  <2>1. PICK f : Grows(f, r, s, k)
    OBVIOUS
  <2>2. PICK g : g = [i \in 0 .. k + 1 |-> IF i <= k THEN f[i] ELSE Construct(f[k], s[k + 1])]
    OBVIOUS
  <2>3. \A i \in 0 .. k : g[i] = f[i]
    BY <2>2
  <2>4. \A i \in 0 .. k : f[i] = IF i = 0 THEN r ELSE Construct(f[i - 1], s[i])
    BY <2>1 DEF Grows
  <2>5. ASSUME NEW i \in 0 .. k + 1
        PROVE  g[i] = IF i = 0 THEN r ELSE Construct(g[i - 1], s[i])
    <3>1. CASE i = 0
      BY <2>3, <2>4, <3>1
    <3>2. CASE i \in 1 .. k
      <4>1. i - 1 \in 0 .. k /\ i \in 0 .. k /\ i # 0
        BY <3>2
      <4> QED
        BY <2>3, <2>4, <4>1
    <3>3. CASE i = k + 1
      <4>1. ~ (k + 1 <= k) /\ k + 1 \in 0 .. k + 1 /\ k \in 0 .. k /\ i - 1 = k /\ i # 0
        BY <3>3
      <4>2. g[i] = Construct(f[k], s[k + 1])
        BY <2>2, <3>3, <4>1
      <4> QED
        BY <2>3, <3>3, <4>1, <4>2
    <3> QED
      BY <3>1, <3>2, <3>3
  <2>6. Grows(g, r, s, k + 1)
    BY <2>2, <2>5 DEF Grows
  <2> QED
    BY <2>6
<1>3. S = Nat
  <2> HIDE DEF S
  <2>1. S \in SUBSET Nat
    BY DEF S
  <2> QED
    BY <1>1, <1>2, <2>1, NatInd
<1> QED
  BY <1>3

\* So Constructed goes step by step.
LEMMA ConstructedIs ==
    ASSUME NEW r, NEW s, Len(s) \in Nat
    PROVE  Grows(Constructed(r, s), r, s, Len(s))
<1>1. \E f : Grows(f, r, s, Len(s))
  BY GrowthExists
<1>2. Grows(CHOOSE f : Grows(f, r, s, Len(s)), r, s, Len(s))
  BY <1>1
<1>3. Constructed(r, s) = CHOOSE f : Grows(f, r, s, Len(s))
  BY DEF Constructed, Grows
<1> QED
  BY <1>2, <1>3

\* An order in which the database hands out the documents D: each of them once.
LEMMA OrderIs ==
    ASSUME NEW D \in SUBSET Docs, NEW s \in Orders(D)
    PROVE  /\ Len(s) = Cardinality(D) /\ Len(s) \in Nat
           /\ \A i \in 1 .. Len(s) : s[i] \in D
           /\ \A i, j \in 1 .. Len(s) : s[i] = s[j] => i = j
           /\ \A d \in D : \E i \in 1 .. Len(s) : s[i] = d
<1>1. IsFiniteSet(D) /\ Cardinality(D) \in Nat
  BY ZonesAssumption, FS_Subset, FS_CardinalityType
<1>2. PICK n \in Nat : n = Cardinality(D)
  BY <1>1
<1>3. s \in [1 .. n -> D] /\ \A i, j \in 1 .. n : s[i] = s[j] => i = j
  BY <1>2 DEF Orders
<1>4. s \in Seq(D) /\ Len(s) = n
  BY <1>3
<1>5. s \in Injection(1 .. n, D)
  BY <1>3 DEF Injection, IsInjective
<1>6. Cardinality(1 .. n) = n
  BY FS_Interval
<1>7. s \in Surjection(1 .. n, D)
  BY <1>1, <1>2, <1>5, <1>6, FS_Injection
<1>8. \A d \in D : \E i \in 1 .. n : s[i] = d
  BY <1>7 DEF Surjection
<1> QED
  BY <1>2, <1>3, <1>4, <1>8

\* The registry u after zones 1 to k of s, when r has none.
After(r, s, k, u) ==
    /\ RegistryOK(u) /\ (Led(r) => Led(u))
    /\ \A z \in Numbers : u.zone[z] # NoZone => \E i \in 1 .. k : u.zone[z].doc = s[i]
    /\ \A i \in 1 .. k : \E z \in Numbers : u.zone[z].doc = s[i]
    /\ Cardinality(FreeMarks(u)) = Cardinality(FreeMarks(r)) - k

\* Room for the marks of D.
Roomy(r, D) ==
    /\ RegistryOK(r) /\ \A z \in Numbers : r.zone[z] = NoZone
    /\ Cardinality(FreeMarks(r)) >= Cardinality(D)

\* One zone of a load.
LEMMA LoadStep ==
    ASSUME NEW D \in SUBSET Docs, NEW s \in Orders(D), NEW r, Roomy(r, D),
           NEW k \in Nat, k < Len(s), NEW u, After(r, s, k, u)
    PROVE  /\ After(r, s, k + 1, Construct(u, s[k + 1]))
           /\ RegistryOK(Marked(u, s[k + 1])) /\ Marked(u, s[k + 1]).zone = u.zone
<1>1. k + 1 \in 1 .. Len(s) /\ 1 .. k \subseteq 1 .. Len(s) /\ k + 1 \notin 1 .. k
      /\ Len(s) = Cardinality(D) /\ Len(s) \in Nat
  BY OrderIs
<1>2. PICK d \in Docs : d = s[k + 1]
  BY <1>1, OrderIs
<1>3. ASSUME NEW z \in Numbers, u.zone[z] # NoZone PROVE u.zone[z].doc # d
  <2>1. PICK i \in 1 .. k : u.zone[z].doc = s[i]
    BY <1>3 DEF After
  <2>2. i # k + 1 /\ i \in 1 .. Len(s)
    BY <1>1
  <2> QED
    BY <1>1, <1>2, <2>1, <2>2, OrderIs
<1>4. FreeMarks(u) # {}
  <2>0. FreeMarks(r) \in SUBSET Marks
    BY DEF FreeMarks
  <2>1. Cardinality(FreeMarks(r)) \in Nat
    BY <2>0, Sizes, FS_Subset, FS_CardinalityType
  <2>2. Cardinality(FreeMarks(u)) # 0
    BY <1>1, <2>1 DEF After, Roomy
  <2> QED
    BY <2>2, FS_EmptySet
<1>5. RegistryOK(u)
  BY DEF After
<1>6. RegistryOK(Marked(u, d)) /\ Marked(u, d).zone = u.zone
  BY <1>3, <1>4, <1>5, MarkedOK
<1>7. PICK v : v = Construct(u, d)
  OBVIOUS
<1>8. OneMore(u, v, d)
  BY <1>3, <1>4, <1>5, <1>7, ConstructOK
<1>9. ASSUME NEW z \in Numbers, v.zone[z] # NoZone
      PROVE  \E i \in 1 .. k + 1 : v.zone[z].doc = s[i]
  <2>1. CASE v.zone[z].doc = d
    <3>1. k + 1 \in 1 .. k + 1
      OBVIOUS
    <3> QED
      BY <1>2, <2>1, <3>1
  <2>2. CASE u.zone[z] # NoZone /\ v.zone[z] = u.zone[z]
    <3>1. PICK i \in 1 .. k : u.zone[z].doc = s[i]
      BY <2>2 DEF After
    <3>2. i \in 1 .. k + 1
      OBVIOUS
    <3> QED
      BY <2>2, <3>1, <3>2
  <2> QED
    BY <1>8, <1>9, <2>1, <2>2 DEF OneMore
<1>10. ASSUME NEW i \in 1 .. k + 1
       PROVE  \E z \in Numbers : v.zone[z].doc = s[i]
  <2>1. CASE i = k + 1
    BY <1>2, <1>8, <2>1 DEF OneMore
  <2>2. CASE i \in 1 .. k
    <3>1. PICK z \in Numbers : u.zone[z].doc = s[i]
      BY <2>2 DEF After
    <3>2. s[i] \in Docs
      BY <1>1, <2>2, OrderIs
    <3>3. u.zone[z] # NoZone
      BY <3>1, <3>2, EntryIsNew
    <3>4. v.zone[z] = u.zone[z]
      BY <1>8, <3>3 DEF OneMore
    <3> QED
      BY <3>1, <3>4
  <2> QED
    BY <2>1, <2>2
<1>11. Cardinality(FreeMarks(v)) = Cardinality(FreeMarks(r)) - (k + 1)
  <2>0. FreeMarks(r) \in SUBSET Marks
    BY DEF FreeMarks
  <2>1. Cardinality(FreeMarks(r)) \in Nat
    BY <2>0, Sizes, FS_Subset, FS_CardinalityType
  <2> QED
    BY <1>8, <2>1 DEF OneMore, After
<1>12. RegistryOK(v) /\ (Led(r) => Led(v))
  BY <1>8 DEF OneMore, After
<1>13. After(r, s, k + 1, v)
  BY <1>9, <1>10, <1>11, <1>12 DEF After
<1> QED
  BY <1>2, <1>6, <1>7, <1>13

\* A load, up to any zone.
LEMMA LoadUpTo ==
    ASSUME NEW D \in SUBSET Docs, NEW s \in Orders(D), NEW r, Roomy(r, D),
           NEW n \in 0 .. Len(s)
    PROVE  After(r, s, n, Constructed(r, s)[n])
<1>1. Len(s) \in Nat
  BY OrderIs
<1>2. PICK f : f = Constructed(r, s)
  OBVIOUS
<1>3. \A k \in 0 .. Len(s) : f[k] = IF k = 0 THEN r ELSE Construct(f[k - 1], s[k])
  BY <1>1, <1>2, ConstructedIs DEF Grows
<1> DEFINE S == {k \in Nat : k <= Len(s) => After(r, s, k, f[k])}
<1>4. 0 \in S
  <2>1. f[0] = r
    BY <1>1, <1>3
  <2>0. FreeMarks(r) \in SUBSET Marks
    BY DEF FreeMarks
  <2>2. Cardinality(FreeMarks(r)) \in Nat
    BY <2>0, Sizes, FS_Subset, FS_CardinalityType
  <2>3. After(r, s, 0, r)
    BY <2>2 DEF After, Roomy
  <2> QED
    BY <2>1, <2>3
<1>5. ASSUME NEW k \in S PROVE k + 1 \in S
  <2> SUFFICES ASSUME k + 1 <= Len(s) PROVE After(r, s, k + 1, f[k + 1])
    OBVIOUS
  <2>1. k \in Nat /\ k < Len(s) /\ k + 1 \in 0 .. Len(s) /\ k + 1 # 0 /\ (k + 1) - 1 = k
    BY <1>1
  <2>2. After(r, s, k, f[k])
    BY <1>1, <2>1
  <2>3. f[k + 1] = Construct(f[k], s[k + 1])
    BY <1>3, <2>1
  <2> QED
    BY <2>1, <2>2, <2>3, LoadStep
<1>6. S = Nat
  <2> HIDE DEF S
  <2>1. S \in SUBSET Nat
    BY DEF S
  <2> QED
    BY <1>4, <1>5, <2>1, NatInd
<1> QED
  BY <1>1, <1>2, <1>6

\* A load stops at the first zone whose owner is not loaded, if at all.
LEMMA ReachedIs ==
    ASSUME NEW s, Len(s) \in Nat, NEW teams
    PROVE  /\ Reached(s, teams) \in 0 .. Len(s)
           /\ \A k \in 1 .. Reached(s, teams) : owner[s[k]] \in teams
           /\ Reached(s, teams) < Len(s) => owner[s[Reached(s, teams) + 1]] \notin teams
<1> DEFINE P(n) == /\ \A k \in 1 .. n : owner[s[k]] \in teams
                   /\ n < Len(s) => owner[s[n + 1]] \notin teams
<1>1. \E n \in 0 .. Len(s) : P(n)
  <2> DEFINE B == {n \in Nat : n < Len(s) /\ owner[s[n + 1]] \notin teams}
  <2>1. CASE B = {}
    <3>1. ASSUME NEW k \in 1 .. Len(s) PROVE owner[s[k]] \in teams
      <4>1. k - 1 \in Nat /\ k - 1 < Len(s) /\ (k - 1) + 1 = k
        OBVIOUS
      <4> QED
        BY <2>1, <4>1
    <3>2. P(Len(s)) /\ Len(s) \in 0 .. Len(s)
      BY <3>1
    <3> QED
      BY <3>2
  <2>2. CASE B # {}
    <3>1. PICK n \in B : \A m \in B : n <= m
      <4>1. B \in SUBSET Nat
        OBVIOUS
      <4> HIDE DEF B
      <4> QED
        BY <2>2, <4>1, LeastNatural
    <3>2. ASSUME NEW k \in 1 .. n PROVE owner[s[k]] \in teams
      <4>1. k - 1 \in Nat /\ k - 1 < Len(s) /\ (k - 1) + 1 = k /\ ~ (n <= k - 1)
        BY <3>1
      <4>2. k - 1 \notin B
        BY <3>1, <4>1
      <4> QED
        BY <4>1, <4>2
    <3>3. P(n) /\ n \in 0 .. Len(s)
      BY <3>1, <3>2
    <3> QED
      BY <3>3
  <2> QED
    BY <2>1, <2>2
<1>2. Reached(s, teams) = CHOOSE n \in 0 .. Len(s) : P(n)
  BY DEF Reached
<1>3. Reached(s, teams) \in 0 .. Len(s) /\ P(Reached(s, teams))
  <2> HIDE DEF P
  <2> QED
    BY <1>1, <1>2
<1> QED
  BY <1>3

\* How a load of the documents D may leave the registry r.
LoadOf(r, D, teams, out) ==
    /\ out.end \in {"done", "bad", "fault"} /\ RegistryOK(out.reg)
    /\ out.end # "bad" /\ Led(r) => Led(out.reg)
    /\ \A z \in Numbers : out.reg.zone[z] # NoZone => out.reg.zone[z].doc \in D
    /\ out.end = "done" => \A d \in D : \E z \in Numbers : out.reg.zone[z].doc = d
    /\ (\A d \in D : owner[d] \in teams) => out.end # "bad"

LEMMA OutcomeIs ==
    ASSUME Written \in SUBSET Docs, NEW r, Roomy(r, Written), NEW teams,
           NEW out \in Outcomes(r, teams)
    PROVE  LoadOf(r, Written, teams, out)
<1>0. PICK D \in SUBSET Docs : D = Written
  OBVIOUS
<1>1. PICK s \in Orders(D) : out \in Ends(r, s, teams)
  BY <1>0 DEF Outcomes
<1>2. PICK n \in 0 .. Len(s) : n = Reached(s, teams)
  BY OrderIs, ReachedIs
<1>3. PICK got : got = Constructed(r, s)
  OBVIOUS
<1>4. \A k \in 0 .. Len(s) : After(r, s, k, got[k])
  BY <1>0, <1>3, LoadUpTo
<1>5. Len(s) \in Nat /\ \A i \in 1 .. Len(s) : s[i] \in D
  BY OrderIs
<1>6. ASSUME NEW k \in 0 .. Len(s)
      PROVE  /\ RegistryOK(got[k]) /\ (Led(r) => Led(got[k]))
             /\ \A z \in Numbers : got[k].zone[z] # NoZone => got[k].zone[z].doc \in D
  <2>1. After(r, s, k, got[k]) /\ 1 .. k \subseteq 1 .. Len(s)
    BY <1>4, <1>5
  <2> QED
    BY <1>5, <2>1 DEF After
<1>7. CASE n = Len(s) /\ out = [reg |-> got[n], end |-> "done"]
  <2>1. After(r, s, Len(s), got[n])
    BY <1>4, <1>7
  <2>2. \A d \in D : \E z \in Numbers : got[n].zone[z].doc = d
    BY <2>1, OrderIs DEF After
  <2>3. out.reg = got[n] /\ out.end = "done"
    BY <1>7
  <2>4. LoadOf(r, D, teams, out)
    BY <1>6, <2>2, <2>3 DEF LoadOf
  <2> QED
    BY <1>0, <2>4
<1>8. CASE n # Len(s) /\ out = [reg |-> Marked(got[n], s[n + 1]), end |-> "bad"]
  <2>1. n \in Nat /\ n < Len(s) /\ n + 1 \in 1 .. Len(s)
    BY <1>5, <1>8
  <2>2. RegistryOK(Marked(got[n], s[n + 1])) /\ Marked(got[n], s[n + 1]).zone = got[n].zone
    BY <1>0, <1>4, <2>1, LoadStep
  <2>3. owner[s[n + 1]] \notin teams /\ s[n + 1] \in D
    BY <1>2, <1>5, <2>1, ReachedIs
  <2>4. out.reg = Marked(got[n], s[n + 1]) /\ out.end = "bad"
    BY <1>8
  <2>5. out.reg.zone = got[n].zone /\ RegistryOK(out.reg)
    BY <2>2, <2>4
  <2>6. LoadOf(r, D, teams, out)
    BY <1>6, <2>3, <2>4, <2>5 DEF LoadOf
  <2> QED
    BY <1>0, <2>6
<1>9. CASE \E k \in 0 .. n : out = [reg |-> got[k], end |-> "fault"]
  <2>1. PICK k \in 0 .. n : out = [reg |-> got[k], end |-> "fault"]
    BY <1>9
  <2>2. k \in 0 .. Len(s) /\ out.reg = got[k] /\ out.end = "fault"
    BY <1>5, <2>1
  <2>3. LoadOf(r, D, teams, out)
    BY <1>6, <2>2 DEF LoadOf
  <2> QED
    BY <1>0, <2>3
<1> QED
  BY <1>1, <1>2, <1>3, <1>7, <1>8, <1>9 DEF Ends

-----------------------------------------------------------------------------
(***************************************************************************)
(* The steps of players that leave the zones alone.                        *)
(***************************************************************************)

\* The zones stay; what is to show is about players only.
LEMMA WorldSame ==
    ASSUME ZonesInv, UNCHANGED world, UNCHANGED half,
           excuse' = excuse \/ excuse' = "switch", TypeOK', ListIsRight',
           excuse' # "switch" => \A p \in Players :
              dlg'[p] = "name" \/ step'[p] # NoVar => team'[p] \in Teams
    PROVE  ZonesInv'
<1>1. reg' = reg /\ owner' = owner /\ stray' = stray /\ loaded' = loaded /\ later' = later
  BY DEF world
<1>2. Written' = Written
  BY <1>1 DEF Written
<1>3. Apart(reg)' /\ DocsExist'
  BY <1>1, <1>2 DEF ZonesInv, Apart, DocsExist
<1>4. MarksLeadHome'
  BY <1>1 DEF ZonesInv, MarksLeadHome
<1>5. Wizards' /\ TeamsThere'
  BY <1>1, <1>2 DEF ZonesInv, Wizards, TeamsThere
<1>6. EverythingLoaded'
  BY <1>1, <1>2 DEF ZonesInv, EverythingLoaded
<1> QED
  BY <1>3, <1>4, <1>5, <1>6 DEF ZonesInv

\* Closing a dialog while zones stay or go.
LEMMA Closed ==
    ASSUME TypeOK, ListIsRight, NEW p \in Players, CloseDialog(p),
           \A z \in Numbers : reg'.zone[z] # NoZone => reg'.zone[z] = reg.zone[z]
    PROVE  /\ dlg' \in [Players -> {"none", "name", "remove"}]
           /\ list' \in [Players -> [Numbers -> Docs \cup {NoDoc}]]
           /\ old' \in SUBSET Players
           /\ dlg'[p] = "none" /\ (\A q \in Players \ {p} : dlg'[q] = dlg[q])
           /\ ListIsRight'
<1>1. /\ dlg' \in [Players -> {"none", "name", "remove"}]
      /\ dlg'[p] = "none" /\ (\A q \in Players \ {p} : dlg'[q] = dlg[q])
  BY DEF TypeOK, CloseDialog
<1>2. /\ list' \in [Players -> [Numbers -> Docs \cup {NoDoc}]]
      /\ (\A q \in Players \ {p} : list'[q] = list[q])
  BY DEF TypeOK, CloseDialog, NoList
<1>3. old' \in SUBSET Players /\ (\A q \in Players \ {p} : q \in old' <=> q \in old)
  BY DEF TypeOK, CloseDialog
<1>4. ASSUME NEW q \in Players, q \notin old', dlg'[q] = "remove", NEW z \in Numbers,
             reg'.zone[z] # NoZone
      PROVE  list'[q][z] = reg'.zone[z].doc
  <2>1. q # p
    BY <1>1, <1>4
  <2> QED
    BY <1>1, <1>2, <1>3, <1>4, <2>1 DEF ListIsRight
<1> QED
  BY <1>1, <1>2, <1>3, <1>4 DEF ListIsRight

\* The type of what the step does not touch.
LEMMA TypeOfPlayers ==
    ASSUME TypeOK, UNCHANGED world, UNCHANGED half, excuse' \in {excuse, "switch"},
           team' \in [Players -> Teams \cup {NoTeam}],
           step' \in [Players -> (SUBSET Steps) \cup {NoVar}],
           dlg' \in [Players -> {"none", "name", "remove"}],
           list' \in [Players -> [Numbers -> Docs \cup {NoDoc}]],
           old' \in SUBSET Players
    PROVE  TypeOK'
<1>1. loaded' \in SUBSET Teams
      /\ stray' \in SUBSET [doc : Docs, owner : Teams \cup {NoTeam, Removed}]
      /\ owner' \in [Docs -> Teams \cup {NoTeam, Unwritten, Removed}]
  BY DEF TypeOK, world
<1>2. reg' \in Registries
  BY DEF TypeOK, world
<1>3. later' \in BOOLEAN
  BY DEF TypeOK, world
<1>4. half' \in BOOLEAN
  BY DEF TypeOK
<1>5. excuse' \in {"none", "fault", "switch"}
  BY DEF TypeOK
<1> QED
  BY <1>1, <1>2, <1>3, <1>4, <1>5 DEF TypeOK

\* The team dialog.
LEMMA TeamSelectInv ==
    ASSUME ZonesInv, NEW p \in Players, NEW t \in Teams, TeamSelect(p, t)
    PROVE  ZonesInv'
<1>1. TypeOK /\ ListIsRight /\ UNCHANGED world /\ UNCHANGED half /\ step' = step /\ reg' = reg
  BY DEF ZonesInv, TeamSelect, world
<1>2. /\ dlg' \in [Players -> {"none", "name", "remove"}]
      /\ list' \in [Players -> [Numbers -> Docs \cup {NoDoc}]]
      /\ old' \in SUBSET Players
      /\ dlg'[p] = "none" /\ (\A q \in Players \ {p} : dlg'[q] = dlg[q])
      /\ ListIsRight'
  BY <1>1, Closed DEF TeamSelect
<1>3. /\ team' \in [Players -> Teams \cup {NoTeam}]
      /\ \A q \in Players \ {p} : team'[q] = team[q]
  BY <1>1 DEF TypeOK, TeamSelect
<1>4. excuse' = (IF step[p] # NoVar THEN "switch" ELSE excuse)
  BY DEF TeamSelect
<1>5. step' \in [Players -> (SUBSET Steps) \cup {NoVar}]
  BY <1>1 DEF TypeOK
<1>6. TypeOK'
  BY <1>1, <1>2, <1>3, <1>4, <1>5, TypeOfPlayers
<1>7. ASSUME excuse' # "switch", NEW q \in Players, dlg'[q] = "name" \/ step'[q] # NoVar
      PROVE  team'[q] \in Teams
  <2>1. step[p] = NoVar /\ excuse # "switch"
    BY <1>4, <1>7
  <2>2. q # p
    BY <1>1, <1>2, <1>7, <2>1
  <2>3. team[q] \in Teams
    BY <1>1, <1>2, <1>7, <2>1, <2>2 DEF ZonesInv, Wizards
  <2> QED
    BY <1>3, <2>2, <2>3
<1> QED
  BY <1>1, <1>2, <1>4, <1>6, <1>7, WorldSame

\* Leaving, and closing a dialog.
LEMMA CloseInv ==
    ASSUME ZonesInv, NEW p \in Players, OnPlayerDisconnect(p) \/ Dismiss(p)
    PROVE  ZonesInv'
<1>1. TypeOK /\ ListIsRight /\ UNCHANGED world /\ UNCHANGED half /\ excuse' = excuse
      /\ reg' = reg
  BY DEF ZonesInv, OnPlayerDisconnect, Dismiss, world, history
<1>2. /\ dlg' \in [Players -> {"none", "name", "remove"}]
      /\ list' \in [Players -> [Numbers -> Docs \cup {NoDoc}]]
      /\ old' \in SUBSET Players
      /\ dlg'[p] = "none" /\ (\A q \in Players \ {p} : dlg'[q] = dlg[q])
      /\ ListIsRight'
  BY <1>1, Closed DEF OnPlayerDisconnect, Dismiss
<1>3. /\ team' \in [Players -> Teams \cup {NoTeam}]
      /\ \A q \in Players \ {p} : team'[q] = team[q]
  BY <1>1 DEF TypeOK, OnPlayerDisconnect, Dismiss
<1>4. /\ step' \in [Players -> (SUBSET Steps) \cup {NoVar}]
      /\ \A q \in Players \ {p} : step'[q] = step[q]
      /\ step'[p] # NoVar => step[p] # NoVar /\ team'[p] = team[p]
  BY <1>1 DEF TypeOK, OnPlayerDisconnect, Dismiss
<1>5. TypeOK'
  BY <1>1, <1>2, <1>3, <1>4, TypeOfPlayers
<1>6. ASSUME excuse' # "switch", NEW q \in Players, dlg'[q] = "name" \/ step'[q] # NoVar
      PROVE  team'[q] \in Teams
  <2>1. CASE q = p
    BY <1>1, <1>2, <1>4, <1>6, <2>1 DEF ZonesInv, Wizards
  <2>2. CASE q # p
    BY <1>1, <1>2, <1>3, <1>4, <1>6, <2>2 DEF ZonesInv, Wizards
  <2> QED
    BY <2>1, <2>2
<1> QED
  BY <1>1, <1>2, <1>5, <1>6, WorldSame

\* The steps of the wizard up to the last.
LEMMA WizardInv ==
    ASSUME ZonesInv, NEW p \in Players,
           MenuCreate(p) \/ CreateName(p) \/ OnPlayerClickMap(p) \/ ProcessPlaces(p)
             \/ ProcessCancel(p)
    PROVE  ZonesInv'
<1>1. TypeOK /\ ListIsRight /\ UNCHANGED world /\ UNCHANGED half /\ excuse' = excuse
      /\ reg' = reg /\ UNCHANGED <<team, list, old>>
  BY DEF ZonesInv, MenuCreate, CreateName, OnPlayerClickMap, ProcessPlaces, ProcessCancel,
     world, history
<1>2. /\ dlg' \in [Players -> {"none", "name", "remove"}]
      /\ \A q \in Players \ {p} : dlg'[q] = dlg[q]
      /\ dlg'[p] = "remove" => dlg[p] = "remove"
  BY <1>1 DEF TypeOK, MenuCreate, CreateName, OnPlayerClickMap, ProcessPlaces, ProcessCancel
<1>3. /\ step' \in [Players -> (SUBSET Steps) \cup {NoVar}]
      /\ \A q \in Players \ {p} : step'[q] = step[q]
  <2>1. CASE OnPlayerClickMap(p) \/ ProcessPlaces(p)
    <3>1. step[p] # NoVar /\ step[p] \in SUBSET Steps
      BY <1>1, <2>1 DEF TypeOK, OnPlayerClickMap, ProcessPlaces
    <3>2. PICK T \in SUBSET Steps : step' = [step EXCEPT ![p] = T]
      BY <2>1, <3>1 DEF OnPlayerClickMap, ProcessPlaces, Steps
    <3> QED
      BY <1>1, <3>2 DEF TypeOK
  <2>2. CASE MenuCreate(p) \/ CreateName(p) \/ ProcessCancel(p)
    BY <1>1, <2>2 DEF TypeOK, MenuCreate, CreateName, ProcessCancel
  <2> QED
    BY <2>1, <2>2
<1>4. TypeOK'
  <2>1. /\ team' \in [Players -> Teams \cup {NoTeam}] /\ old' \in SUBSET Players
        /\ list' \in [Players -> [Numbers -> Docs \cup {NoDoc}]]
    BY <1>1 DEF TypeOK
  <2> QED
    BY <1>1, <1>2, <1>3, <2>1, TypeOfPlayers
<1>5. ListIsRight'
  BY <1>1, <1>2 DEF ListIsRight
<1>6. MenuCreate(p) => team[p] \in Teams
  BY <1>1 DEF TypeOK, MenuCreate
<1>7. MenuCreate(p) \/ dlg[p] = "name" \/ step[p] # NoVar
  BY DEF CreateName, OnPlayerClickMap, ProcessPlaces, ProcessCancel
<1>8. ASSUME excuse' # "switch", NEW q \in Players, dlg'[q] = "name" \/ step'[q] # NoVar
      PROVE  team'[q] \in Teams
  <2>1. CASE q = p
    BY <1>1, <1>6, <1>7, <1>8, <2>1 DEF ZonesInv, Wizards
  <2>2. CASE q # p
    BY <1>1, <1>2, <1>3, <1>8, <2>2 DEF ZonesInv, Wizards
  <2> QED
    BY <2>1, <2>2
<1> QED
  BY <1>1, <1>4, <1>5, <1>8, WorldSame

\* The list of the remove dialog is right when it is shown.
LEMMA MenuRemoveInv ==
    ASSUME ZonesInv, NEW p \in Players, MenuRemove(p)
    PROVE  ZonesInv'
<1>1. TypeOK /\ ListIsRight /\ UNCHANGED world /\ UNCHANGED half /\ excuse' = excuse
      /\ reg' = reg /\ UNCHANGED <<team, step>>
  BY DEF ZonesInv, MenuRemove, world, history
<1>2. /\ dlg' \in [Players -> {"none", "name", "remove"}]
      /\ \A q \in Players \ {p} : dlg'[q] = dlg[q]
      /\ dlg'[p] = "remove"
  BY <1>1 DEF TypeOK, MenuRemove
<1>3. /\ list' \in [Players -> [Numbers -> Docs \cup {NoDoc}]]
      /\ \A q \in Players \ {p} : list'[q] = list[q]
      /\ \A z \in Numbers : list'[p][z] = reg.zone[z].doc
  <2>1. PICK l : l = [z \in Numbers |-> reg.zone[z].doc]
    OBVIOUS
  <2>2. list' = [list EXCEPT ![p] = l]
    BY <2>1 DEF MenuRemove
  <2>3. \A z \in Numbers : reg.zone[z].doc \in Docs \cup {NoDoc}
    BY <1>1, EntriesAre, EntryIsNew DEF TypeOK
  <2>4. l \in [Numbers -> Docs \cup {NoDoc}] /\ \A z \in Numbers : l[z] = reg.zone[z].doc
    BY <2>1, <2>3
  <2> QED
    BY <1>1, <2>2, <2>4 DEF TypeOK
<1>4. old' \in SUBSET Players /\ \A q \in Players \ {p} : q \in old' <=> q \in old
  BY <1>1 DEF TypeOK, MenuRemove
<1>5. TypeOK'
  <2>1. /\ team' \in [Players -> Teams \cup {NoTeam}]
        /\ step' \in [Players -> (SUBSET Steps) \cup {NoVar}]
    BY <1>1 DEF TypeOK
  <2> QED
    BY <1>1, <1>2, <1>3, <1>4, <2>1, TypeOfPlayers
<1>6. ListIsRight'
  <2> SUFFICES ASSUME NEW q \in Players, q \notin old', dlg'[q] = "remove", NEW z \in Numbers,
                      reg'.zone[z] # NoZone
               PROVE  list'[q][z] = reg'.zone[z].doc
    BY DEF ListIsRight
  <2>1. CASE q = p
    BY <1>1, <1>3, <2>1
  <2>2. CASE q # p
    BY <1>1, <1>2, <1>3, <1>4, <2>2 DEF ListIsRight
  <2> QED
    BY <2>1, <2>2
<1>7. ASSUME excuse' # "switch", NEW q \in Players, dlg'[q] = "name" \/ step'[q] # NoVar
      PROVE  team'[q] \in Teams
  <2>1. CASE q = p
    <3>1. step[p] # NoVar
      BY <1>1, <1>2, <1>7, <2>1
    <3> QED
      BY <1>1, <1>7, <2>1, <3>1 DEF ZonesInv, Wizards
  <2>2. CASE q # p
    BY <1>1, <1>2, <1>7, <2>2 DEF ZonesInv, Wizards
  <2> QED
    BY <2>1, <2>2
<1> QED
  BY <1>1, <1>5, <1>6, <1>7, WorldSame

-----------------------------------------------------------------------------
(***************************************************************************)
(* Faults, removals, creations and loads.                                  *)
(***************************************************************************)

LEMMA FaultIs ==
    \A x : /\ Fault(x) \in {"fault", "switch"} /\ Fault(x) # "none"
           /\ Fault(x) = "switch" <=> x = "switch"
  BY DEF Fault

\* The documents that are there.
LEMMA WrittenIs ==
    /\ Written \in SUBSET Docs
    /\ \A d \in Docs : d \in Written <=> owner[d] # Unwritten /\ owner[d] # Removed
    /\ Unwritten # Removed /\ \A t \in Teams \cup {NoTeam} : t # Unwritten /\ t # Removed
<1>1. Unwritten # Removed
  BY DEF Unwritten, Removed
<1>2. \A t \in Teams \cup {NoTeam} : t # Unwritten /\ t # Removed
  BY ZonesAssumption DEF Unwritten, Removed
<1> QED
  BY <1>1, <1>2 DEF Written

\* Homes and marks, as MarksLeadHome puts them.
LEMMA HomeIs == MarksLeadHome <=> Home(reg) /\ (~ half => Led(reg))
  BY DEF MarksLeadHome, Home, Led

\* /reload of the teams.
LEMMA ReloadTeamsInv ==
    ASSUME ZonesInv, ReloadTeams
    PROVE  ZonesInv'
<1>1. UNCHANGED <<team, owner, stray, reg, later, half, step, dlg, list, old>>
  BY DEF ReloadTeams, wizard
<1>2. /\ loaded' \in SUBSET Teams
      /\ excuse' = IF loaded' = Teams THEN excuse ELSE Fault(excuse)
  BY DEF ReloadTeams
<1>3. Written' = Written
  BY <1>1 DEF Written
<1>4. TypeOK
  BY DEF ZonesInv
<1>5. excuse' \in {"none", "fault", "switch"} /\ (excuse' # "switch" => excuse # "switch")
      /\ (excuse' = "none" => excuse = "none" /\ loaded' = Teams)
  BY <1>2, <1>4, FaultIs DEF TypeOK
<1>6. later' \in BOOLEAN /\ half' \in BOOLEAN /\ reg' \in Registries
  BY <1>1, <1>4 DEF TypeOK
<1>7. TypeOK'
  BY <1>1, <1>2, <1>4, <1>5, <1>6 DEF TypeOK
<1>8. Apart(reg)' /\ DocsExist'
  BY <1>1, <1>3 DEF ZonesInv, Apart, DocsExist
<1>9. MarksLeadHome' /\ ListIsRight'
  BY <1>1 DEF ZonesInv, MarksLeadHome, ListIsRight
<1>10. Wizards' /\ TeamsThere'
  BY <1>1, <1>3, <1>5 DEF ZonesInv, Wizards, TeamsThere
<1>11. EverythingLoaded'
  BY <1>1, <1>3, <1>5 DEF ZonesInv, EverythingLoaded
<1> QED
  BY <1>7, <1>8, <1>9, <1>10, <1>11 DEF ZonesInv

\* What a write that is given up leaves.
LEMMA NoWriteIs ==
    ASSUME TypeOK, NEW d \in Docs, NEW t \in Teams \cup {NoTeam, Removed}, NoWrite(d, t)
    PROVE  /\ owner' = owner /\ Written' = Written
           /\ stray' \in SUBSET [doc : Docs, owner : Teams \cup {NoTeam, Removed}]
           /\ \A s \in stray' : s \in stray \/ s.owner = t
<1>1. PICK x : x = [doc |-> d, owner |-> t]
  OBVIOUS
<1>2. x \in [doc : Docs, owner : Teams \cup {NoTeam, Removed}] /\ x.owner = t
  BY <1>1
<1>3. owner' = owner /\ (stray' = stray \/ stray' = {x})
  BY <1>1 DEF NoWrite
<1>4. Written' = Written
  BY <1>3 DEF Written
<1> QED
  BY <1>2, <1>3, <1>4 DEF TypeOK

\* A new document d, of a team t.
LEMMA NewDocument ==
    ASSUME ZonesInv, NEW d \in Docs, owner[d] = Unwritten,
           NEW t \in Teams \cup {NoTeam}, Write(d, t)
    PROVE  /\ owner' \in [Docs -> Teams \cup {NoTeam, Unwritten, Removed}]
           /\ stray' = stray /\ Written' = Written \cup {d}
           /\ owner'[d] = t /\ t # Unwritten /\ \A e \in Docs \ {d} : owner'[e] = owner[e]
<1>1. /\ owner' \in [Docs -> Teams \cup {NoTeam, Unwritten, Removed}] /\ stray' = stray
      /\ owner'[d] = t /\ \A e \in Docs \ {d} : owner'[e] = owner[e]
  BY DEF ZonesInv, TypeOK, Write
<1>2. t # Unwritten /\ t # Removed
  BY WrittenIs
<1>3. Written' = Written \cup {d}
  BY <1>1, <1>2 DEF Written
<1> QED
  BY <1>1, <1>2, <1>3

\* The wizard's last step when the database fails.
LEMMA ProcessFinishFailsInv ==
    ASSUME ZonesInv, NEW p \in Players, NEW d \in Docs, ProcessFinishFails(p, d)
    PROVE  ZonesInv'
<1>1. UNCHANGED <<team, loaded, reg, later, half, step, dlg, list, old>>
      /\ excuse' = Fault(excuse) /\ owner[d] = Unwritten /\ step[p] = Steps
  BY DEF ProcessFinishFails, wizard, Fresh
<1>2. TypeOK
  BY DEF ZonesInv
<1>3. team[p] \in Teams \cup {NoTeam}
  BY <1>2 DEF TypeOK
<1>4. step[p] # NoVar
  BY <1>1 DEF Steps, NoVar
<1>5. /\ owner' \in [Docs -> Teams \cup {NoTeam, Unwritten, Removed}]
      /\ stray' \in SUBSET [doc : Docs, owner : Teams \cup {NoTeam, Removed}]
      /\ \A s \in stray' : s \in stray \/ s.owner = team[p]
      /\ Written' \subseteq Written \cup {d}
      /\ \A e \in Docs \ {d} : owner'[e] = owner[e]
      /\ d \in Written' => owner'[d] = team[p]
  <2>1. CASE NoWrite(d, team[p])
    <3>1. d \notin Written
      BY <1>1, WrittenIs
    <3> QED
      BY <1>2, <1>3, <2>1, <3>1, NoWriteIs DEF TypeOK
  <2>2. CASE Write(d, team[p])
    BY <1>1, <1>2, <1>3, <2>2, NewDocument DEF TypeOK
  <2> QED
    BY <2>1, <2>2 DEF ProcessFinishFails
<1>6. excuse' \in {"none", "fault", "switch"} /\ excuse' # "none"
      /\ (excuse' = "switch" <=> excuse = "switch")
  BY <1>1, FaultIs
<1>7. TypeOK'
  <2>1. later' \in BOOLEAN /\ half' \in BOOLEAN /\ reg' \in Registries
    BY <1>1, <1>2 DEF TypeOK
  <2> QED
    BY <1>1, <1>2, <1>5, <1>6, <2>1 DEF TypeOK
<1>8. Apart(reg)' /\ MarksLeadHome' /\ ListIsRight'
  BY <1>1 DEF ZonesInv, Apart, MarksLeadHome, ListIsRight
<1>9. DocsExist'
  <2> SUFFICES ASSUME NEW z \in Numbers, reg.zone[z] # NoZone
               PROVE  owner'[reg.zone[z].doc] # Unwritten
    BY <1>1 DEF DocsExist
  <2>1. reg.zone[z].doc \in Docs /\ owner[reg.zone[z].doc] # Unwritten
    BY <1>2, EntriesAre DEF ZonesInv, DocsExist, TypeOK
  <2> QED
    BY <1>1, <1>5, <2>1
<1>10. Wizards'
  <2> SUFFICES ASSUME excuse # "switch"
               PROVE  /\ \A e \in Written' : owner'[e] \in Teams
                      /\ \A s \in stray' : s.owner \in Teams \cup {Removed}
                      /\ \A q \in Players : dlg[q] = "name" \/ step[q] # NoVar => team[q] \in Teams
    BY <1>1, <1>6 DEF Wizards
  <2>1. \A e \in Written : owner[e] \in Teams /\ e \in Docs
    BY WrittenIs DEF ZonesInv, Wizards
  <2>2. \A q \in Players : dlg[q] = "name" \/ step[q] # NoVar => team[q] \in Teams
    BY DEF ZonesInv, Wizards
  <2>3. team[p] \in Teams
    BY <1>4, <2>2
  <2>4. ASSUME NEW e \in Written' PROVE owner'[e] \in Teams
    <3>1. CASE e = d
      BY <1>5, <2>3, <2>4, <3>1
    <3>2. CASE e # d
      BY <1>5, <2>1, <2>4, <3>2
    <3> QED
      BY <3>1, <3>2
  <2>5. \A s \in stray' : s.owner \in Teams \cup {Removed}
    BY <1>5, <2>3 DEF ZonesInv, Wizards
  <2> QED
    BY <2>2, <2>4, <2>5
<1>11. TeamsThere' /\ EverythingLoaded'
  BY <1>6 DEF TeamsThere, EverythingLoaded
<1> QED
  BY <1>7, <1>8, <1>9, <1>10, <1>11 DEF ZonesInv

\* The wizard's last step.
LEMMA ProcessFinishInv ==
    ASSUME ZonesInv, NEW p \in Players, NEW d \in Docs, ProcessFinish(p, d)
    PROVE  ZonesInv'
<1>1. /\ UNCHANGED <<team, loaded, later, half, excuse, dlg, list>>
      /\ owner[d] = Unwritten /\ step[p] = Steps /\ FreeMarks(reg) # {}
      /\ Write(d, team[p])
  BY DEF ProcessFinish, history, Fresh
<1>2. TypeOK
  BY DEF ZonesInv
<1>3. team[p] \in Teams \cup {NoTeam}
  BY <1>2 DEF TypeOK
<1>4. step[p] # NoVar
  BY <1>1 DEF Steps, NoVar
<1>5. /\ owner' \in [Docs -> Teams \cup {NoTeam, Unwritten, Removed}]
      /\ stray' = stray /\ Written' = Written \cup {d}
      /\ owner'[d] = team[p] /\ team[p] # Unwritten
      /\ \A e \in Docs \ {d} : owner'[e] = owner[e]
  BY <1>1, <1>3, NewDocument
<1>6. \A z \in Numbers : reg.zone[z] # NoZone => reg.zone[z].doc \in Docs \ {d}
                           /\ owner'[reg.zone[z].doc] # Unwritten
  BY <1>1, <1>2, <1>5, EntriesAre DEF ZonesInv, DocsExist, TypeOK
<1>7. RegistryOK(reg)
  BY <1>2, HomeIs DEF ZonesInv, RegistryOK, TypeOK
<1>8. \/ /\ team[p] \in loaded /\ OneMore(reg, reg', d)
         /\ step' = [step EXCEPT ![p] = NoVar] /\ old' = Listing
      \/ team[p] \notin loaded /\ UNCHANGED <<reg, step, old>>
  <2>1. OneMore(reg, Construct(reg, d), d)
    BY <1>1, <1>6, <1>7, ConstructOK
  <2> QED
    BY <2>1 DEF ProcessFinish
<1>9. /\ step' \in [Players -> (SUBSET Steps) \cup {NoVar}] /\ old' \in SUBSET Players
      /\ \A q \in Players : step'[q] # NoVar => step[q] # NoVar
  BY <1>2, <1>8 DEF TypeOK, Listing
<1>10. RegistryOK(reg') /\ (Led(reg) => Led(reg'))
  BY <1>7, <1>8 DEF OneMore
<1>11. TypeOK'
  <2>1. later' \in BOOLEAN /\ half' \in BOOLEAN
    BY <1>1, <1>2 DEF TypeOK
  <2>2. reg' \in Registries
    BY <1>10 DEF RegistryOK
  <2> QED
    BY <1>1, <1>2, <1>5, <1>9, <2>1, <2>2 DEF TypeOK
<1>12. Apart(reg)'
  BY <1>10 DEF RegistryOK, Apart
<1>13. MarksLeadHome'
  <2>1. ~ half => Led(reg')
    BY <1>10, HomeIs DEF ZonesInv
  <2>2. Home(reg')
    BY <1>10 DEF RegistryOK
  <2> QED
    BY <1>1, <2>1, <2>2 DEF MarksLeadHome, Home, Led
<1>14. DocsExist'
  <2> SUFFICES ASSUME NEW z \in Numbers, reg'.zone[z] # NoZone
               PROVE  owner'[reg'.zone[z].doc] # Unwritten
    BY DEF DocsExist
  <2>1. reg'.zone[z].doc = d \/ (reg.zone[z] # NoZone /\ reg'.zone[z] = reg.zone[z])
    BY <1>8 DEF OneMore
  <2> QED
    BY <1>5, <1>6, <2>1
<1>15. ListIsRight'
  <2>1. CASE old' = Listing
    BY <1>1, <2>1 DEF ListIsRight, Listing
  <2>2. CASE UNCHANGED <<reg, step, old>>
    BY <1>1, <2>2 DEF ZonesInv, ListIsRight
  <2> QED
    BY <1>8, <2>1, <2>2
<1>16. ASSUME excuse # "switch" PROVE team[p] \in Teams
  BY <1>4, <1>16 DEF ZonesInv, Wizards
<1>17. Wizards'
  <2> SUFFICES ASSUME excuse # "switch"
               PROVE  /\ \A e \in Written' : owner'[e] \in Teams
                      /\ \A q \in Players : dlg[q] = "name" \/ step'[q] # NoVar => team[q] \in Teams
    BY <1>1, <1>5 DEF ZonesInv, Wizards
  <2>1. \A e \in Written : owner[e] \in Teams /\ e \in Docs
    BY WrittenIs DEF ZonesInv, Wizards
  <2>2. \A q \in Players : dlg[q] = "name" \/ step'[q] # NoVar => team[q] \in Teams
    BY <1>9 DEF ZonesInv, Wizards
  <2>3. \A e \in Written' : owner'[e] \in Teams
    BY <1>5, <1>16, <2>1
  <2> QED
    BY <2>2, <2>3
<1>18. TeamsThere'
  BY <1>1 DEF ZonesInv, TeamsThere
<1>19. EverythingLoaded'
  <2> SUFFICES ASSUME excuse = "none"
               PROVE  later' /\ \A e \in Written' : \E z \in Numbers : reg'.zone[z].doc = e
    BY <1>1 DEF EverythingLoaded
  <2>1. later'
    BY <1>1 DEF ZonesInv, EverythingLoaded
  <2>2. team[p] \in loaded
    BY <1>16 DEF ZonesInv, TeamsThere
  <2>3. OneMore(reg, reg', d)
    BY <1>8, <2>2
  <2>4. ASSUME NEW e \in Written PROVE \E z \in Numbers : reg'.zone[z].doc = e
    <3>1. PICK z \in Numbers : reg.zone[z].doc = e
      BY <2>4 DEF ZonesInv, EverythingLoaded
    <3>2. reg.zone[z] # NoZone
      BY <2>4, <3>1, WrittenIs, EntryIsNew
    <3>3. reg'.zone[z] = reg.zone[z]
      BY <2>3, <3>2 DEF OneMore
    <3> QED
      BY <3>1, <3>3
  <2>5. \E z \in Numbers : reg'.zone[z].doc = d
    BY <2>3 DEF OneMore
  <2> QED
    BY <1>5, <2>1, <2>4, <2>5
<1> QED
  BY <1>11, <1>12, <1>13, <1>14, <1>15, <1>17, <1>18, <1>19 DEF ZonesInv

\* A document that goes.
LEMMA GoneDocument ==
    ASSUME ZonesInv, NEW d \in Docs, Write(d, Removed)
    PROVE  /\ owner' \in [Docs -> Teams \cup {NoTeam, Unwritten, Removed}]
           /\ stray' = stray /\ Written' = Written \ {d}
           /\ owner'[d] = Removed /\ \A e \in Docs \ {d} : owner'[e] = owner[e]
<1>1. /\ owner' \in [Docs -> Teams \cup {NoTeam, Unwritten, Removed}]
      /\ owner'[d] = Removed /\ \A e \in Docs \ {d} : owner'[e] = owner[e]
      /\ stray' = stray
  BY DEF ZonesInv, TypeOK, Write
<1>2. Written' = Written \ {d}
  BY <1>1 DEF Written
<1> QED
  BY <1>1, <1>2

\* A removal by the dialog, whether the database fails or not.
LEMMA RemoveInv ==
    ASSUME ZonesInv, NEW p \in Players, NEW z \in Numbers,
           GangZoneRemove(p, z) \/ GangZoneRemoveFails(p, z)
    PROVE  ZonesInv'
<1>1. /\ UNCHANGED <<team, loaded, later, step, half>>
      /\ reg.zone[z] # NoZone /\ CloseDialog(p)
  BY DEF GangZoneRemove, GangZoneRemoveFails, Answered
<1>2. TypeOK /\ ListIsRight
  BY DEF ZonesInv
<1>3. RegistryOK(reg)
  BY <1>2, HomeIs DEF ZonesInv, RegistryOK, TypeOK
<1>4. PICK d \in Docs : d = reg.zone[z].doc
  BY <1>1, <1>3, EntriesAre DEF RegistryOK
<1>5. /\ \/ excuse' = excuse /\ Without(reg, reg', {z}) /\ Write(d, Removed)
         \/ excuse' = Fault(excuse)
      /\ Without(reg, reg', {z}) \/ reg' = reg
      /\ Write(d, Removed) \/ NoWrite(d, Removed)
  <2>1. Without(reg, Destruct(reg, {z}), {z})
    BY <1>3, DestructOK
  <2> QED
    BY <1>4, <2>1 DEF GangZoneRemove, GangZoneRemoveFails
<1>6. /\ RegistryOK(reg') /\ (Led(reg) => Led(reg'))
      /\ \A y \in Numbers : reg'.zone[y] # NoZone => reg'.zone[y] = reg.zone[y]
  BY <1>3, <1>5 DEF Without
<1>7. /\ owner' \in [Docs -> Teams \cup {NoTeam, Unwritten, Removed}]
      /\ stray' \in SUBSET [doc : Docs, owner : Teams \cup {NoTeam, Removed}]
      /\ \A s \in stray' : s \in stray \/ s.owner = Removed
      /\ Written' \subseteq Written
      /\ \A e \in Docs : owner[e] # Unwritten => owner'[e] # Unwritten
      /\ \A e \in Written' : owner'[e] = owner[e]
  <2>1. CASE NoWrite(d, Removed)
    BY <1>2, <2>1, NoWriteIs DEF TypeOK
  <2>2. CASE Write(d, Removed)
    BY <1>2, <2>2, GoneDocument, WrittenIs DEF TypeOK
  <2> QED
    BY <1>5, <2>1, <2>2
<1>8. /\ dlg' \in [Players -> {"none", "name", "remove"}]
      /\ list' \in [Players -> [Numbers -> Docs \cup {NoDoc}]]
      /\ old' \in SUBSET Players
      /\ dlg'[p] = "none" /\ (\A q \in Players \ {p} : dlg'[q] = dlg[q])
      /\ ListIsRight'
  BY <1>1, <1>2, <1>6, Closed
<1>9. /\ excuse' \in {"none", "fault", "switch"} /\ (excuse' = "switch" <=> excuse = "switch")
      /\ excuse' = "none" => excuse = "none" /\ Without(reg, reg', {z})
                             /\ Write(d, Removed)
  BY <1>2, <1>5, FaultIs DEF TypeOK
<1>10. TypeOK'
  <2>1. later' \in BOOLEAN /\ half' \in BOOLEAN
    BY <1>1, <1>2 DEF TypeOK
  <2>2. reg' \in Registries
    BY <1>6 DEF RegistryOK
  <2> QED
    BY <1>1, <1>2, <1>7, <1>8, <1>9, <2>1, <2>2 DEF TypeOK
<1>11. Apart(reg)'
  BY <1>6 DEF RegistryOK, Apart
<1>12. MarksLeadHome'
  <2>1. ~ half => Led(reg')
    BY <1>6, HomeIs DEF ZonesInv
  <2>2. Home(reg')
    BY <1>6 DEF RegistryOK
  <2> QED
    BY <1>1, <2>1, <2>2 DEF MarksLeadHome, Home, Led
<1>13. DocsExist'
  <2> SUFFICES ASSUME NEW y \in Numbers, reg'.zone[y] # NoZone
               PROVE  owner'[reg'.zone[y].doc] # Unwritten
    BY DEF DocsExist
  <2>1. reg'.zone[y] = reg.zone[y] /\ reg.zone[y].doc \in Docs
    BY <1>3, <1>6, EntriesAre DEF RegistryOK
  <2>2. owner[reg.zone[y].doc] # Unwritten
    BY <2>1 DEF ZonesInv, DocsExist
  <2> QED
    BY <1>7, <2>1, <2>2
<1>14. Wizards'
  <2> SUFFICES ASSUME excuse # "switch"
               PROVE  /\ \A e \in Written' : owner'[e] \in Teams
                      /\ \A s \in stray' : s.owner \in Teams \cup {Removed}
                      /\ \A q \in Players : dlg'[q] = "name" \/ step[q] # NoVar => team[q] \in Teams
    BY <1>1, <1>9 DEF Wizards
  <2>1. \A e \in Written' : owner'[e] \in Teams
    BY <1>7 DEF ZonesInv, Wizards
  <2>2. \A q \in Players : dlg'[q] = "name" => dlg[q] = "name"
    BY <1>8
  <2>3. \A s \in stray' : s.owner \in Teams \cup {Removed}
    BY <1>7 DEF ZonesInv, Wizards
  <2> QED
    BY <2>1, <2>2, <2>3 DEF ZonesInv, Wizards
<1>15. TeamsThere'
  BY <1>1, <1>9 DEF ZonesInv, TeamsThere
<1>16. EverythingLoaded'
  <2> SUFFICES ASSUME excuse' = "none"
               PROVE  later' /\ \A e \in Written' : \E y \in Numbers : reg'.zone[y].doc = e
    BY DEF EverythingLoaded
  <2>1. later'
    BY <1>1, <1>9 DEF ZonesInv, EverythingLoaded
  <2>2. ASSUME NEW e \in Written' PROVE \E y \in Numbers : reg'.zone[y].doc = e
    <3>1. e \in Written /\ e # d
      BY <1>1, <1>9, <2>2, GoneDocument
    <3>2. PICK y \in Numbers : reg.zone[y].doc = e
      BY <1>9, <3>1 DEF ZonesInv, EverythingLoaded
    <3>3. y # z
      BY <1>4, <3>1, <3>2
    <3>4. reg'.zone[y] = reg.zone[y]
      BY <1>9, <3>3 DEF Without
    <3> QED
      BY <3>2, <3>4
  <2> QED
    BY <2>1, <2>2
<1> QED
  BY <1>8, <1>10, <1>11, <1>12, <1>13, <1>14, <1>15, <1>16 DEF ZonesInv

\* A write that was given up takes effect after all.
LEMMA LateWriteInv ==
    ASSUME ZonesInv, LateWrite
    PROVE  ZonesInv'
<1>1. PICK s \in stray :
        /\ owner' = [owner EXCEPT ![s.doc] = s.owner] /\ stray' = {}
        /\ excuse' = Fault(excuse)
        /\ UNCHANGED <<team, loaded, reg, later, half, step, dlg, list, old>>
  BY DEF LateWrite, wizard
<1>2. TypeOK
  BY DEF ZonesInv
<1>3. PICK d \in Docs : d = s.doc
  BY <1>2 DEF TypeOK
<1>4. PICK t \in Teams \cup {NoTeam, Removed} : t = s.owner
  BY <1>2 DEF TypeOK
<1>5. /\ owner' \in [Docs -> Teams \cup {NoTeam, Unwritten, Removed}]
      /\ owner'[d] = t /\ \A e \in Docs \ {d} : owner'[e] = owner[e]
  BY <1>1, <1>2, <1>3, <1>4 DEF TypeOK
<1>6. excuse' \in {"none", "fault", "switch"} /\ excuse' # "none"
      /\ (excuse' = "switch" <=> excuse = "switch")
  BY <1>1, FaultIs
<1>7. TypeOK'
  <2>1. later' \in BOOLEAN /\ half' \in BOOLEAN /\ reg' \in Registries
    BY <1>1, <1>2 DEF TypeOK
  <2> QED
    BY <1>1, <1>2, <1>5, <1>6, <2>1 DEF TypeOK
<1>8. Apart(reg)' /\ MarksLeadHome' /\ ListIsRight'
  BY <1>1 DEF ZonesInv, Apart, MarksLeadHome, ListIsRight
<1>9. DocsExist'
  <2> SUFFICES ASSUME NEW z \in Numbers, reg.zone[z] # NoZone
               PROVE  owner'[reg.zone[z].doc] # Unwritten
    BY <1>1 DEF DocsExist
  <2>1. reg.zone[z].doc \in Docs /\ owner[reg.zone[z].doc] # Unwritten
    BY <1>2, EntriesAre DEF ZonesInv, DocsExist, TypeOK
  <2>2. t # Unwritten
    BY WrittenIs
  <2> QED
    BY <1>5, <2>1, <2>2
<1>10. Wizards'
  <2> SUFFICES ASSUME excuse # "switch"
               PROVE  /\ \A e \in Written' : owner'[e] \in Teams
                      /\ \A q \in Players : dlg[q] = "name" \/ step[q] # NoVar => team[q] \in Teams
    BY <1>1, <1>6 DEF Wizards
  <2>1. \A e \in Docs : owner[e] # Unwritten /\ owner[e] # Removed => owner[e] \in Teams
    BY WrittenIs DEF ZonesInv, Wizards
  <2>2. t \in Teams \cup {Removed}
    BY <1>4 DEF ZonesInv, Wizards
  <2>3. ASSUME NEW e \in Written' PROVE owner'[e] \in Teams
    <3>1. e \in Docs /\ owner'[e] # Unwritten /\ owner'[e] # Removed
      BY <2>3 DEF Written
    <3> QED
      BY <1>5, <2>1, <2>2, <3>1
  <2> QED
    BY <2>3 DEF ZonesInv, Wizards
<1>11. TeamsThere' /\ EverythingLoaded'
  BY <1>6 DEF TeamsThere, EverythingLoaded
<1> QED
  BY <1>7, <1>8, <1>9, <1>10, <1>11 DEF ZonesInv

\* What a load leaves is in order; documents and teams stay, lists are old.
LEMMA Loaded ==
    ASSUME ZonesInv, NEW r, Roomy(r, Written), NEW teams, NEW out \in Outcomes(r, teams),
           reg' = out.reg, owner' = owner,
           ~ half' => Led(r) /\ out.end # "bad"
    PROVE  /\ LoadOf(r, Written, teams, out) /\ RegistryOK(reg') /\ Apart(reg)'
           /\ MarksLeadHome' /\ DocsExist' /\ Written' = Written
<1>1. LoadOf(r, Written, teams, out)
  BY WrittenIs, OutcomeIs
<1>2. RegistryOK(reg') /\ (~ half' => Led(reg'))
  BY <1>1 DEF LoadOf
<1>3. Apart(reg)'
  BY <1>2 DEF RegistryOK, Apart
<1>4. MarksLeadHome'
  BY <1>2 DEF RegistryOK, MarksLeadHome, Home, Led
<1>5. Written' = Written
  BY DEF Written
<1>6. DocsExist'
  <2>1. \A z \in Numbers : reg'.zone[z] # NoZone => reg'.zone[z].doc \in Written
    BY <1>1 DEF LoadOf
  <2>2. \A e \in Written : owner'[e] # Unwritten
    BY WrittenIs
  <2> QED
    BY <2>1, <2>2 DEF DocsExist
<1> QED
  BY <1>1, <1>2, <1>3, <1>4, <1>5, <1>6

\* /reload of the zones.
LEMMA ReloadZonesInv ==
    ASSUME ZonesInv, ReloadZones
    PROVE  ZonesInv'
<1>1. /\ UNCHANGED <<team, loaded, owner, stray, later, step, dlg, list>>
      /\ old' = Listing
  BY DEF ReloadZones
<1>2. TypeOK
  BY DEF ZonesInv
<1>3. RegistryOK(reg) /\ (~ half => Led(reg))
  BY <1>2, HomeIs DEF ZonesInv, RegistryOK, TypeOK
<1>4. PICK r : r = Destruct(reg, Numbers)
  OBVIOUS
<1>5. Without(reg, r, Numbers)
  BY <1>3, <1>4, DestructOK
<1>6. Roomy(r, Written)
  <2>1. Cardinality(FreeMarks(r)) >= Cardinality(Written)
    BY <1>4 DEF ReloadZones
  <2> QED
    BY <1>5, <2>1 DEF Without, Roomy
<1>7. PICK out \in Outcomes(r, loaded) :
        /\ reg' = out.reg /\ half' = (half \/ out.end = "bad")
        /\ excuse' = IF out.end = "fault" THEN Fault(excuse) ELSE excuse
  BY <1>4 DEF ReloadZones
<1>8. half' \in BOOLEAN /\ (~ half' => ~ half /\ out.end # "bad")
  BY <1>7
<1>9. ~ half' => Led(r) /\ out.end # "bad"
  BY <1>3, <1>5, <1>8 DEF Without
<1>10. /\ LoadOf(r, Written, loaded, out) /\ RegistryOK(reg') /\ Apart(reg)'
       /\ MarksLeadHome' /\ DocsExist' /\ Written' = Written
  BY <1>1, <1>6, <1>7, <1>9, Loaded
<1>11. /\ excuse' \in {"none", "fault", "switch"} /\ (excuse' = "switch" <=> excuse = "switch")
       /\ excuse' = "none" => excuse = "none" /\ out.end # "fault"
  BY <1>2, <1>7, FaultIs DEF TypeOK
<1>12. TypeOK'
  <2>1. later' \in BOOLEAN
    BY <1>1, <1>2 DEF TypeOK
  <2>2. reg' \in Registries /\ old' \in SUBSET Players
    BY <1>1, <1>10 DEF RegistryOK, Listing
  <2> QED
    BY <1>1, <1>2, <1>8, <1>11, <2>1, <2>2 DEF TypeOK
<1>13. ListIsRight'
  BY <1>1 DEF ListIsRight, Listing
<1>14. Wizards' /\ TeamsThere'
  BY <1>1, <1>10, <1>11 DEF ZonesInv, Wizards, TeamsThere
<1>15. EverythingLoaded'
  <2> SUFFICES ASSUME excuse' = "none"
               PROVE  later' /\ \A d \in Written' : \E z \in Numbers : reg'.zone[z].doc = d
    BY DEF EverythingLoaded
  <2>1. later'
    BY <1>1, <1>11 DEF ZonesInv, EverythingLoaded
  <2>2. \A d \in Written : owner[d] \in loaded
    BY <1>11 DEF ZonesInv, Wizards, TeamsThere
  <2>3. out.end = "done"
    BY <1>10, <1>11, <2>2 DEF LoadOf
  <2> QED
    BY <1>7, <1>10, <2>1, <2>3 DEF LoadOf
<1> QED
  BY <1>10, <1>12, <1>13, <1>14, <1>15 DEF ZonesInv

\* The start of the process.
LEMMA OnGameModeInitInv ==
    ASSUME ZonesInv, OnGameModeInit
    PROVE  ZonesInv'
<1>1. /\ team' = [p \in Players |-> NoTeam] /\ step' = [p \in Players |-> NoVar]
      /\ dlg' = [p \in Players |-> "none"] /\ list' = [p \in Players |-> NoList]
      /\ old' = {} /\ UNCHANGED <<owner, stray>>
  BY DEF OnGameModeInit
<1>2. TypeOK
  BY DEF ZonesInv
<1>3. /\ ListIsRight' /\ old' \in SUBSET Players
      /\ \A p \in Players : ~ (dlg'[p] = "name" \/ step'[p] # NoVar)
  BY <1>1 DEF ListIsRight
<1>4. /\ team' \in [Players -> Teams \cup {NoTeam}]
      /\ step' \in [Players -> (SUBSET Steps) \cup {NoVar}]
      /\ dlg' \in [Players -> {"none", "name", "remove"}]
      /\ list' \in [Players -> [Numbers -> Docs \cup {NoDoc}]]
      /\ owner' \in [Docs -> Teams \cup {NoTeam, Unwritten, Removed}]
      /\ stray' \in SUBSET [doc : Docs, owner : Teams \cup {NoTeam, Removed}]
  BY <1>1, <1>2 DEF TypeOK, NoList
<1>5. Written' = Written
  BY <1>1 DEF Written
<1>6. ASSUME reg' \in Registries, loaded' \in SUBSET Teams, later' \in BOOLEAN,
             half' \in BOOLEAN, excuse' \in {"none", "fault", "switch"}
      PROVE  TypeOK'
  BY <1>3, <1>4, <1>6 DEF TypeOK
<1>7. CASE /\ loaded' \in SUBSET Teams
           /\ reg' = Empty /\ later' = FALSE /\ half' = FALSE
           /\ excuse' = Fault(excuse)
  <2>1. excuse' \in {"none", "fault", "switch"} /\ excuse' # "none"
        /\ (excuse' = "switch" <=> excuse = "switch")
    BY <1>7, FaultIs
  <2>2. reg' \in Registries /\ later' \in BOOLEAN /\ half' \in BOOLEAN
    BY <1>7, EmptyOK DEF RegistryOK
  <2>3. TypeOK'
    BY <1>6, <1>7, <2>1, <2>2
  <2>4. Apart(reg)' /\ MarksLeadHome'
    BY <1>7, EmptyOK DEF RegistryOK, Apart, MarksLeadHome, Home, Led
  <2>5. DocsExist'
    BY <1>7, EmptyOK DEF DocsExist
  <2>6. Wizards'
    BY <1>1, <1>3, <1>5, <2>1 DEF ZonesInv, Wizards
  <2>7. TeamsThere' /\ EverythingLoaded'
    BY <2>1 DEF TeamsThere, EverythingLoaded
  <2> QED
    BY <1>3, <2>3, <2>4, <2>5, <2>6, <2>7 DEF ZonesInv
<1>8. CASE /\ loaded' = Teams
           /\ \E out \in Outcomes(Empty, Teams) :
                 /\ reg' = out.reg
                 /\ later' = (out.end = "done")
                 /\ half' = (out.end = "bad")
                 /\ excuse' = IF out.end = "fault" THEN Fault(excuse)
                              ELSE IF excuse = "switch" THEN excuse ELSE "none"
  <2>1. PICK out \in Outcomes(Empty, Teams) :
          /\ reg' = out.reg
          /\ later' = (out.end = "done")
          /\ half' = (out.end = "bad")
          /\ excuse' = IF out.end = "fault" THEN Fault(excuse)
                       ELSE IF excuse = "switch" THEN excuse ELSE "none"
    BY <1>8
  <2>2. Roomy(Empty, Written)
    <3>1. Cardinality(Written) <= Cardinality(Docs) /\ Cardinality(Written) \in Nat
      BY WrittenIs, FS_Subset, FS_CardinalityType, ZonesAssumption
    <3> QED
      BY <3>1, EmptyOK, Sizes DEF Roomy
  <2>3. later' \in BOOLEAN /\ half' \in BOOLEAN /\ (~ half' => out.end # "bad")
    BY <2>1
  <2>4. ~ half' => Led(Empty) /\ out.end # "bad"
    BY <2>3, EmptyOK
  <2>5. /\ LoadOf(Empty, Written, Teams, out) /\ RegistryOK(reg') /\ Apart(reg)'
        /\ MarksLeadHome' /\ DocsExist'
    BY <1>1, <2>1, <2>2, <2>4, Loaded
  <2>6. /\ excuse' \in {"none", "fault", "switch"} /\ (excuse' # "switch" => excuse # "switch")
        /\ excuse' = "none" => out.end # "fault"
    BY <1>2, <2>1, FaultIs DEF TypeOK
  <2>7. TypeOK'
    <3>1. reg' \in Registries
      BY <2>5 DEF RegistryOK
    <3> QED
      BY <1>6, <1>8, <2>3, <2>6, <3>1
  <2>8. Wizards'
    BY <1>1, <1>3, <1>5, <2>6 DEF ZonesInv, Wizards
  <2>9. TeamsThere'
    BY <1>8 DEF TeamsThere
  <2>10. EverythingLoaded'
    <3> SUFFICES ASSUME excuse' = "none"
                 PROVE  later' /\ \A d \in Written' : \E z \in Numbers : reg'.zone[z].doc = d
      BY DEF EverythingLoaded
    <3>1. \A d \in Written : owner[d] \in Teams
      BY <2>6 DEF ZonesInv, Wizards
    <3>2. out.end = "done"
      BY <2>5, <2>6, <3>1 DEF LoadOf
    <3>3. later'
      BY <2>1, <3>2
    <3> QED
      BY <1>5, <2>1, <2>5, <3>2, <3>3 DEF LoadOf
  <2> QED
    BY <1>3, <2>5, <2>7, <2>8, <2>9, <2>10 DEF ZonesInv
<1> QED
  BY <1>7, <1>8 DEF OnGameModeInit

-----------------------------------------------------------------------------
(***************************************************************************)
(* The theorems.                                                           *)
(***************************************************************************)

\* The invariant, from the start on.
THEOREM ZonesInvariant == Spec => []ZonesInv
<1>1. Init => ZonesInv
  <2> SUFFICES ASSUME Init PROVE ZonesInv
    OBVIOUS
  <2>1. reg \in Registries /\ Apart(reg)
    BY EmptyOK DEF Init, RegistryOK
  <2>2. MarksLeadHome
    BY EmptyOK, HomeIs DEF Init, RegistryOK
  <2>3. TypeOK
    <3>1. later \in BOOLEAN /\ half \in BOOLEAN /\ excuse \in {"none", "fault", "switch"}
      BY DEF Init
    <3> QED
      BY <2>1, <3>1 DEF Init, TypeOK, NoList
  <2>4. Written = {}
    BY DEF Init, Written
  <2>5. DocsExist
    BY EmptyOK DEF Init, DocsExist
  <2>6. ListIsRight
    BY DEF Init, ListIsRight
  <2>7. Wizards
    BY <2>4 DEF Init, Wizards
  <2>8. TeamsThere
    BY DEF Init, TeamsThere
  <2>9. EverythingLoaded
    BY <2>4 DEF Init, EverythingLoaded
  <2> QED
    BY <2>1, <2>2, <2>3, <2>5, <2>6, <2>7, <2>8, <2>9 DEF ZonesInv
<1>2. ZonesInv /\ [Next]_vars => ZonesInv'
  <2> SUFFICES ASSUME ZonesInv, [Next]_vars PROVE ZonesInv'
    OBVIOUS
  <2>1. CASE UNCHANGED vars
    <3>1. UNCHANGED world /\ UNCHANGED half /\ excuse' = excuse
          /\ UNCHANGED <<team, step, dlg, list, old>> /\ reg' = reg
      BY <2>1 DEF vars, world, wizard, history
    <3>2. TypeOK'
      <4>1. /\ team' \in [Players -> Teams \cup {NoTeam}]
            /\ step' \in [Players -> (SUBSET Steps) \cup {NoVar}]
            /\ dlg' \in [Players -> {"none", "name", "remove"}]
            /\ list' \in [Players -> [Numbers -> Docs \cup {NoDoc}]]
            /\ old' \in SUBSET Players
        BY <3>1 DEF ZonesInv, TypeOK
      <4>2. TypeOK
        BY DEF ZonesInv
      <4> QED
        BY <3>1, <4>1, <4>2, TypeOfPlayers
    <3>3. ListIsRight'
      BY <3>1 DEF ZonesInv, ListIsRight
    <3>4. excuse' # "switch" => \A p \in Players :
              dlg'[p] = "name" \/ step'[p] # NoVar => team'[p] \in Teams
      BY <3>1 DEF ZonesInv, Wizards
    <3> QED
      BY <3>1, <3>2, <3>3, <3>4, WorldSame
  <2>2. CASE OnGameModeInit
    BY <2>2, OnGameModeInitInv
  <2>3. CASE ReloadTeams
    BY <2>3, ReloadTeamsInv
  <2>4. CASE ReloadZones
    BY <2>4, ReloadZonesInv
  <2>5. ASSUME NEW p \in Players, NEW t \in Teams, TeamSelect(p, t) PROVE ZonesInv'
    BY <2>5, TeamSelectInv
  <2>6. ASSUME NEW p \in Players, OnPlayerDisconnect(p) \/ Dismiss(p) PROVE ZonesInv'
    BY <2>6, CloseInv
  <2>7. ASSUME NEW p \in Players,
               MenuCreate(p) \/ CreateName(p) \/ OnPlayerClickMap(p) \/ ProcessPlaces(p)
                 \/ ProcessCancel(p)
        PROVE  ZonesInv'
    BY <2>7, WizardInv
  <2>8. ASSUME NEW p \in Players, MenuRemove(p) PROVE ZonesInv'
    BY <2>8, MenuRemoveInv
  <2>9. ASSUME NEW p \in Players, NEW d \in Docs, ProcessFinish(p, d) PROVE ZonesInv'
    BY <2>9, ProcessFinishInv
  <2>10. ASSUME NEW p \in Players, NEW d \in Docs, ProcessFinishFails(p, d) PROVE ZonesInv'
    BY <2>10, ProcessFinishFailsInv
  <2>11. ASSUME NEW p \in Players, NEW z \in Numbers,
                GangZoneRemove(p, z) \/ GangZoneRemoveFails(p, z)
         PROVE  ZonesInv'
    BY <2>11, RemoveInv
  <2>12. CASE LateWrite
    BY <2>12, LateWriteInv
  <2> QED
    BY <2>1, <2>2, <2>3, <2>4, <2>5, <2>6, <2>7, <2>8, <2>9, <2>10, <2>11, <2>12 DEF Next
<1> QED
  BY <1>1, <1>2, PTL DEF Spec

\* Every variable has its type: among other things, no constructor runs out of
\* numbers or of streamer ids.
THEOREM TypeCorrect == Spec => []TypeOK
<1>1. ZonesInv => TypeOK
  BY DEF ZonesInv
<1> QED
  BY <1>1, ZonesInvariant, PTL

\* A zone's area and trigger lead to it, and to nothing else unless some
\* constructor threw.
THEOREM MarksAlwaysLeadHome == Spec => []MarksLeadHome
<1>1. ZonesInv => MarksLeadHome
  BY DEF ZonesInv
<1> QED
  BY <1>1, ZonesInvariant, PTL

\* The remove dialog removes the zone it names, unless a zone was made since.
THEOREM ListsAreRight == Spec => []ListIsRight
<1>1. ZonesInv => ListIsRight
  BY DEF ZonesInv
<1> QED
  BY <1>1, ZonesInvariant, PTL

\* Without database failures and switches of team in the wizard, the start and
\* every reload load all zones, and the start what comes after them.
THEOREM AllIsLoaded == Spec => []EverythingLoaded
<1>1. ZonesInv => EverythingLoaded
  BY DEF ZonesInv
<1> QED
  BY <1>1, ZonesInvariant, PTL

=============================================================================
