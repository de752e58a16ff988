---------------------------- MODULE MCWikiPages ----------------------------
(***************************************************************************)
(* Two pages at most, one path in two locales and a second path to move    *)
(* to, two calls, and two edits by people.                               *)
(***************************************************************************)
EXTENDS WikiPages, TLC

CONSTANTS p1, p2, here, elsewhere, bare, tagged, written, typed, c1, c2

MCReads == {[path |-> here, id |-> None], [path |-> None, id |-> p1], [path |-> here, id |-> p1]}
MCWrites == {[path |-> here, text |-> written]}

Symmetry == Permutations({c1, c2})
=============================================================================
