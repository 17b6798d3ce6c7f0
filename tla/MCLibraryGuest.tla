---------------------------- MODULE MCLibraryGuest ----------------------------
(* LibraryGuest with one visit: two tabs of a known guest and one file. *)
EXTENDS LibraryGuest, TLC

CONSTANTS b1, b2

MCTabs == {b1, b2}
MCVisits ==
  {[routes |-> {"library"}, files |-> {"f"}, known |-> TRUE, codes |-> 1, tokens |-> 1,
    times |-> 4, faults |-> 0]}
Symmetry == Permutations(MCTabs)
=============================================================================
