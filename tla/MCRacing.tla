------------------------------ MODULE MCRacing ------------------------------
(* Races among two or three slots.                                          *)
EXTENDS Racing, TLC

\* Slots of the same level are interchangeable.
Symmetry == Permutations(Slots \ Admins)

=============================================================================
