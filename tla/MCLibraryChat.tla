----------------------------- MODULE MCLibraryChat -----------------------------
(* LibraryChat on a small instance. *)
EXTENDS LibraryChat, TLC

CONSTANTS g1, g2

MCGuests == {g1, g2}
Symmetry == Permutations(MCGuests)
=============================================================================
