------------------------------- MODULE Orders -------------------------------
(***************************************************************************)
(* Lists in an order, as sorted and the servers make them.  An element's   *)
(* place is one more than the number of those before it, so that ties may  *)
(* be broken by whatever the order says.                                   *)
(***************************************************************************)
EXTENDS Naturals, Sequences, FiniteSets

\* The n-th element of S in a strict order, and all of them.
Nth(S, order, n) == CHOOSE x \in S : Cardinality({y \in S : <<y, x>> \in order}) + 1 = n
OrderedBy(S, order) == [n \in 1..Cardinality(S) |-> Nth(S, order, n)]

Ascending(S) == OrderedBy(S, {p \in S \X S : p[1] < p[2]})
Descending(S) == OrderedBy(S, {p \in S \X S : p[1] > p[2]})

\* The places of a list at which something of T is, and what is there.
PlacesOf(list, T) == Ascending({i \in DOMAIN list : list[i] \in T})
Kept(list, T) == [n \in DOMAIN PlacesOf(list, T) |-> list[PlacesOf(list, T)[n]]]

\* A list of [at] by their times, the newest first; those of one time in its order.
NewestFirst(list) ==
  LET all == DOMAIN list
      places == OrderedBy(all, {p \in all \X all :
                  \/ list[p[1]].at > list[p[2]].at
                  \/ list[p[1]].at = list[p[2]].at /\ p[1] < p[2]})
  IN [n \in DOMAIN places |-> list[places[n]]]
=============================================================================
