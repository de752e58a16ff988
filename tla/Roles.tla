------------------------------- MODULE Roles -------------------------------
(***************************************************************************)
(* What a catalog channel is to its device (tools/roles.py).  A catalog    *)
(* name is a device and a datapoint; a datapoint is the sequence of its    *)
(* words, which the catalog writes with dashes between them: a datapoint   *)
(* with the suffix "-Status" ends in the word Status after at least one    *)
(* other word, and one that "starts with base and a dash" extends the      *)
(* words of base.                                                          *)
(***************************************************************************)
EXTENDS Naturals, Sequences

\* A name is a record [device, point].
EndsIn(point, word) == Len(point) > 1 /\ point[Len(point)] = word

IsStatus(name) == EndsIn(name.point, "Status")
IsAnomaly(name) == EndsIn(name.point, "Anomalie")

\* The words of `base`, or more words behind them.
Extends(point, base) ==
  /\ Len(base) <= Len(point)
  /\ SubSeq(point, 1, Len(base)) = base

\* Mutant of Bases: the suffix stays on, so that only a longer status is a base.
BasesWithSuffix(device, names) ==
  {n.point : n \in {m \in names : m.device = device /\ IsStatus(m)}}

\* What the -Status datapoints of a device report on.
Bases(device, names) ==
  {SubSeq(n.point, 1, Len(n.point) - 1) : n \in {m \in names : m.device = device /\ IsStatus(m)}}

\* classify: the role of a name, judged by the datapoints its device has among
\* the catalog names given.
RoleOf(name, names) ==
  CASE IsStatus(name)  -> "status"
    [] IsAnomaly(name) -> "reading"
    [] OTHER           -> IF \E base \in Bases(name.device, names) : Extends(name.point, base)
                          THEN "command"
                          ELSE "reading"
=============================================================================
