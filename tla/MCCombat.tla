------------------------------ MODULE MCCombat ------------------------------
(* Two players; a mechanic waits twice as long as the others.              *)
EXTENDS Combat, TLC

MCLimit == [k \in Kinds |-> IF k = "mechanic" THEN 2 ELSE 1]

\* Players are interchangeable.
Symmetry == Permutations(Players)

\* Bound: the kills counted for both profiles together.
FewKills == \A p, q \in Players : p # q => Len(gaps[p]) + Len(gaps[q]) <= MaxKills

=============================================================================
