----------------------------- MODULE MCPresence -----------------------------
(***************************************************************************)
(* Two people over four moments: either may be silent, unknown at first,   *)
(* or known from the look back.                                            *)
(***************************************************************************)
EXTENDS Presence, TLC

CONSTANTS anna, ben

MCPeople == {anna, ben}

Symmetry == Permutations(MCPeople)
=============================================================================
