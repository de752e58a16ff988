----------------------------- MODULE LedgerSeen -----------------------------
(***************************************************************************)
(* The ledger as one reader sees it: the refinement mapping from Ledger to *)
(* LedgerView hides the rows the reader may not read and the calls of      *)
(* everybody else.                                                         *)
(***************************************************************************)
EXTENDS Ledger

CONSTANT Reader   \* the caller whose view of the ledger is taken

ASSUME ReaderAssumption == Reader \in Callers

Seen(row) == IF row # None /\ MayRead(Reader, row) THEN row ELSE None
Mine(state) == IF state.pc # "idle" /\ state.who = Reader THEN state ELSE Idle

View == INSTANCE LedgerView WITH
  view <- [r \in RunIds |-> Seen(runs[r])],
  mine <- [c \in Calls |-> Mine(call[c])]

\* Whatever a caller learns from list_runs or set_verdict, and whatever happens
\* to the caller's own runs, is explained by the rows list_runs shows this
\* caller: "a verdict never confirms that another person's run exists"
\* (verdicts.py, module docstring).
SeesOnlyOwnAndMachines == View!Spec
=============================================================================
