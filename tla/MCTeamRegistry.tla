--------------------------- MODULE MCTeamRegistry ---------------------------
(* TeamRegistry with three documents and an allocator of four numbers, so   *)
(* that two lost numbers already exhaust it.                                *)
EXTENDS TeamRegistry, TLC

CONSTANTS t1, t2, t3

MCTeams == {t1, t2, t3}

Symmetry == Permutations(MCTeams)

=============================================================================
