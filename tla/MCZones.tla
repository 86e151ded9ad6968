------------------------------ MODULE MCZones -------------------------------
(* Two administrators; one leads both teams and makes zones, both remove.  *)
EXTENDS Zones, TLC

CONSTANT p1

MCLeader == [t \in Teams |-> p1]

\* Bounds: one who has a list open is not making a zone himself, and a write is
\* under way only while nobody has one open (lists show objects, not documents).
FewLists == \A p \in Listing : step[p] = NoVar /\ stray = {}

\* Documents are interchangeable, and so are teams with the same leader.
Symmetry == Permutations(Docs) \cup Permutations(Teams)

=============================================================================
