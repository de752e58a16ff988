----------------------------- MODULE MCListings -----------------------------
(***************************************************************************)
(* The catalog: two calls over a hypertable, into which rows come, and a   *)
(* continuous aggregate, which stays empty.  The object store: two buckets *)
(* of three keys on two levels, the newest object under neither the first  *)
(* nor the last key of its level.  The backup server: two datastores with  *)
(* a verify job each, snapshots of two groups that were made at the same   *)
(* moments, tasks at four moments.                                         *)
(***************************************************************************)
EXTENDS Listings

CONSTANTS c1, c2

MCCallers == {c1, c2}
MCHypertables == <<"knx">>
MCAggregates == <<"knx_1h">>

MCBuckets == <<"cold", "db">>
MCKeys == << <<"a", "/", "x">>, <<"a", "/", "y">>, <<"b", "/", "x">> >>
MCAge == <<2, 1, 3>>
MCAskedPrefixes == {<<>>, <<"a">>, <<"a", "/">>}

MCStores == <<"cold", "warm">>
MCVerifyJobs == {[id |-> "v1", store |-> "cold"], [id |-> "v2", store |-> "warm"]}
MCSnapshots == <<[group |-> 1, at |-> 1], [group |-> 1, at |-> 2],
                 [group |-> 2, at |-> 1], [group |-> 2, at |-> 2]>>

Symmetry == Permutations(MCCallers)
=============================================================================
