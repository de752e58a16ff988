-------------------------------- MODULE Cuts --------------------------------
(***************************************************************************)
(* How much of what it found a tool shows: no more than it was asked for,  *)
(* never more than MCP_QUERY_ROW_LIMIT, and whether that is all of it.     *)
(***************************************************************************)
EXTENDS Orders, SequencesExt, FiniteSetsExt

CONSTANTS
  RowLimit,  \* MCP_QUERY_ROW_LIMIT
  Limits     \* what is asked for; 0 stands for all that is refused

ASSUME CutsAssumption == RowLimit \in Nat \ {0} /\ Limits \subseteq Nat

Cap(limit) == Min({limit, RowLimit})

Cut(found, limit) == SubSeq(found, 1, Min({limit, Len(found)}))

Truncated(found, limit) == Len(found) > limit
=============================================================================
