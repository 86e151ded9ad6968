----------------------------- MODULE MCTurfWar ------------------------------
(* Wars between two teams of two players.  The runs differ in the number of *)
(* objects, the kills counted and the lengths of the two timers.            *)
EXTENDS TurfWar, TLC

\* Players and teams are interchangeable; not used for liveness.
Symmetry == Permutations(Players) \cup Permutations(Teams)

=============================================================================
