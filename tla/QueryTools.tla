----------------------------- MODULE QueryTools -----------------------------
(***************************************************************************)
(* The tools that read the database for one answer.  Each checks its       *)
(* arguments, looks up the names it was given, tables in the catalog of    *)
(* data sources and all else by a statement, and then reads: a bounded     *)
(* statement, whose overflow some tools refuse and others tell.  Between   *)
(* two of these the names may come and go.                                 *)
(*                                                                         *)
(* A request is a record; here is what a tool makes of it, and             *)
(* CallPipeline has the calls.  Widths are in quarters of an hour.  That   *)
(* arguments have their types, an aggregation included, is the             *)
(* framework's.                                                            *)
(***************************************************************************)
EXTENDS Integers, Cuts

CONSTANTS
  MaxRows,  \* bound: how many rows a statement finds
  TopN,     \* _CORRELATE_TOP_N
  None      \* not given; of a width, text that is no interval

ASSUME QueryAssumption ==
  /\ MaxRows \in Nat
  /\ TopN \in Nat \ {0}
  /\ None \notin Int

\* The tools whose overflow is an error: a part would be a wrong answer.
Aggregating == {"query_timeseries", "query_room_climate", "query_energy_flow",
                "query_heating_cycles", "get_forecast"}
\* The tools that show the first rows, the newest but for the back-test's, as many as
\* they are asked for.
Limited == {"query_knx_events", "query_unifi_events", "list_episodes", "backtest_fault"}

QueryingTools == Aggregating \cup Limited \cup {"correlate_events"}

\* The tools that name tables, and the ones that hand their width to time_bucket.
TableTools == {"query_timeseries", "correlate_events"}
BucketingTools == {"query_timeseries", "query_room_climate"}

-----------------------------------------------------------------------------
(* What is checked before anything is asked *)

\* Mutant of Lags: the lags counted as if the window were a bucket longer.
LagsRoundedUp(r) ==
  IF None \in {r.bucket, r.window} THEN "ValueError"
  ELSE IF r.bucket = 0 THEN "ZeroDivisionError"
  ELSE IF (r.window + r.bucket) \div r.bucket = 0 THEN "ValueError" ELSE "nothing"

\* correlate_events: a text that is no width, a division, too narrow a window.
Lags(r) ==
  IF None \in {r.bucket, r.window} THEN "ValueError"
  ELSE IF r.bucket = 0 THEN "ZeroDivisionError"
  ELSE IF r.window \div r.bucket = 0 THEN "ValueError" ELSE "nothing"

WholeHours(width) == width > 0 /\ width % 4 = 0

\* The arguments a tool refuses by itself.
Refused(r) ==
  CASE r.tool \in BucketingTools -> r.bucket = None
    [] r.tool = "query_energy_flow"    -> r.bucket = None \/ ~WholeHours(r.bucket)
    [] r.tool = "query_heating_cycles" -> r.number < 0
    [] r.tool = "query_unifi_events"   -> r.number # None /\ r.number \notin 0..100
    [] r.tool = "list_episodes"        -> ~r.fits \/ r.number <= 0
    [] r.tool = "backtest_fault"       -> r.limit <= 0
    [] OTHER                           -> FALSE

\* What the checks raise; a source without its column is a missing key.
Checks(r) ==
  IF r.tool = "correlate_events"
  THEN IF Lags(r) = "nothing" /\ ~r.fits THEN "KeyError" ELSE Lags(r)
  ELSE IF Refused(r) THEN "ValueError" ELSE "nothing"

-----------------------------------------------------------------------------
(* What is looked up, and what the statement finds *)

\* A look-up: resolve and get_schema look for their table in the catalog, a statement for
\* all its names at once.
Look(by, names) == [by |-> by, names |-> names]

\* query_timeseries resolves its table, finds it again for get_schema, and reads the
\* columns, of which a dropped table has none; of correlate_events' sources the tables
\* are looked up, not the columns.
LookUps(r) ==
  CASE r.tool = "query_timeseries" ->
         <<Look("resolve", {r.names[1]}), Look("get_schema", {r.names[1]}),
           Look("statement", IF Len(r.names) = 1 THEN {} ELSE ToSet(r.names))>>
    [] r.tool = "correlate_events" -> <<Look("resolve", {r.names[1]}), Look("resolve", {r.names[2]})>>
    [] OTHER -> IF r.names = <<>> THEN <<>> ELSE <<Look("statement", ToSet(r.names))>>

\* The names without which a statement does not run.
Identifiers(r) == IF r.tool \in TableTools THEN ToSet(r.names) ELSE {}

\* A statement runs if what it names is there.  time_bucket is computed of every row found,
\* and of none with a width of zero: the statement then runs only over a range without rows.
Runs(r, known, count) ==
  /\ Identifiers(r) \subseteq known
  /\ r.tool \in BucketingTools /\ r.bucket = 0 => count = 0

\* How many rows there may be: none of a room or a function that is gone.
Matching(r, known) == IF ToSet(r.names) \subseteq known THEN 0..MaxRows ELSE {0}

\* Mutant of Fetched: as many as will be shown.
FetchedOnly(limit) == limit

\* One row more than is shown, to know an overflow.
Fetched(limit) == limit + 1

\* The limit a tool reads with, 0 if it refuses it.
Effective(r) ==
  CASE r.tool \in Limited            -> Cap(r.limit)
    [] r.tool = "correlate_events"   -> Cap(TopN)
    [] OTHER                         -> RowLimit

\* The rows in their order, the first of them the newest or the best; what is raised.
Result(r, count) ==
  LET matching == [i \in 1..count |-> i]
      limit == Effective(r)
      rows == IF r.tool = "backtest_fault" THEN matching ELSE Cut(matching, Fetched(limit))
      truncated == Truncated(rows, limit)
  IN [raised |-> IF r.tool \in Aggregating /\ truncated THEN "ValueError" ELSE "nothing",
      count |-> count, rows |-> Cut(rows, limit), truncated |-> truncated]
=============================================================================
