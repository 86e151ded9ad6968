---------------------------- MODULE MCProperties ----------------------------
(* One property, two registered players and a guest.                        *)
EXTENDS Properties, TLC

\* Registered players are interchangeable.
Symmetry == Permutations(Players \ Guests)

=============================================================================
