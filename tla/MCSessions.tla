----------------------------- MODULE MCSessions -----------------------------
(* Sessions of two players on one slot, and two teams.  The server          *)
(* starts on an empty collection, or on one that knows the first player,    *)
(* banned or not.                                                           *)
EXTENDS Sessions, TLC

CONSTANTS ann, bob

MCInitDocs ==
    {<< >>} \cup {<<[name |-> ann, banned |-> b, money |-> 0]>> : b \in BOOLEAN}

\* Teams are interchangeable.
Symmetry == Permutations(Teams)

=============================================================================
