---------------------------- MODULE MCDocuments -----------------------------
(* A main thread and a pool thread, one item, and a connection that may be *)
(* replaced once.                                                          *)
EXTENDS Documents, TLC

\* Sound for the refinement too: it is a safety property and treats all threads
\* and values alike.
Symmetry == Permutations(Threads) \cup Permutations(Values)

=============================================================================
