---------------------------- MODULE CallPipeline ----------------------------
(***************************************************************************)
(* What happens to a request around its tool: GatewayAuth admits it and    *)
(* binds its caller, ToolTelemetry turns what the tool raised into a       *)
(* refusal or an error and counts it.  The tools here are the querying     *)
(* ones, whose names may come and go between two statements, and start_run *)
(* and append_memory, which ask the trigger for something it may do        *)
(* although its answer never comes.                                        *)
(*                                                                         *)
(* Tables are looked up in the catalog of data sources, which the calls    *)
(* share and which is up to a minute old.  Here a walk that makes it has   *)
(* two moments, when it lists the tables and when it looks for their time  *)
(* columns; SourcesCache has it statement by statement, with the clock.    *)
(*                                                                         *)
(* Calls run in tasks of their own, each with its context, as the server   *)
(* starts one per request.                                                 *)
(***************************************************************************)
EXTENDS QueryTools, FiniteSets

CONSTANTS
  Calls,     \* identities of requests
  Requests,  \* what is asked, with the arguments of every tool; see below
  Clients,   \* the routes the gateway names
  Names,     \* of tables, columns, rooms and functions
  Tables,    \* the names of tables
  Untimed,   \* the tables without a column of type timestamptz
  MaxChanges \* bound: how often a name comes or goes

Outcomes == {"ok", "refused", "error"}
\* What is not counted: an open path, a refused caller, a call cut off.
Uncounted == {"answered", "unauthorized", "cancelled"}
Widths == Nat \cup {None}
AskingTools == {"start_run", "append_memory"}

\* fits: the parts of the arguments go together; number: a score, a duration, days or
\* hours; names: what is looked up, tables before columns.
Request == [path : {"mcp", "probe"}, key : BOOLEAN, client : Clients \cup {None},
            tool : QueryingTools \cup AskingTools, lines : Nat,
            bucket : Widths, window : Widths, number : Int \cup {None}, limit : Limits,
            fits : BOOLEAN, names : Seq(Names)]

\* A catalog of data sources: the tables it has, and those of them it has with a time
\* column.  lost is history: the names that were no table at some time since its walk
\* began.
Catalog == [listed : SUBSET Names, timed : SUBSET Names, lost : SUBSET Names]

\* What a querying tool makes of its rows.
Found == [raised : {"nothing", "ValueError"}, count : Nat, rows : Seq(Nat), truncated : BOOLEAN]

\* Only a score may be left out; a table, and the two of a correlation, may not; who
\* asks the trigger names nothing in the database.
Complete(r) ==
  /\ r.number = None => r.tool = "query_unifi_events"
  /\ r.tool = "query_timeseries" => Len(r.names) >= 1
  /\ r.tool = "correlate_events" => Len(r.names) >= 2
  /\ r.tool \in AskingTools => r.names = <<>>

ASSUME PipelineAssumption ==
  /\ IsFiniteSet(Calls)
  /\ None \notin Clients \cup Outcomes \cup Uncounted /\ None \notin Found \cup Catalog
  /\ Requests \subseteq Request
  /\ \A r \in Requests : Complete(r)
  /\ Tables \subseteq Names /\ Untimed \subseteq Tables
  /\ MaxChanges \in Nat

VARIABLES
  calls,     \* [pc, request, outcome, left, catalog, found, ever, lost] of each call
  context,   \* the client_id bound in a call's context, or None
  counts,    \* the tool_calls counter, by client and outcome
  requests,  \* calls whose request is on its way to the trigger
  answers,   \* the trigger's answers on their way: [call, status]
  effects,   \* calls the trigger has done what they asked for
  known,     \* the names that are there
  cache,     \* the catalog of data sources kept, or None
  changes    \* how often a name came or went

vars == <<calls, context, counts, requests, answers, effects, known, cache, changes>>
trigger == <<requests, answers, effects>>
database == <<known, cache, changes>>

\* left: what it still has to look up.  catalog: the one its walk is making.  found: what
\* a querying tool read, or the catalog that lacked its table.  ever and lost are history:
\* the names of a call that were known, and that were unknown, at some time of it.
Idle == [pc |-> "idle", request |-> None, outcome |-> None, left |-> <<>>, catalog |-> None,
         found |-> None, ever |-> {}, lost |-> {}]

Open(c) == calls[c].pc \in {"running", "asking", "walking", "sent"}

Init ==
  /\ calls = [c \in Calls |-> Idle]
  /\ context = [c \in Calls |-> None]
  /\ counts = [route \in Clients \X Outcomes |-> 0]
  /\ requests = {}
  /\ answers = {}
  /\ effects = {}
  /\ known \in SUBSET Names
  /\ cache = None
  /\ changes = 0

-----------------------------------------------------------------------------
(* GatewayAuth *)

Admitted(r) == r.key /\ r.client # None

\* A probe passes without a caller; without the key or a route the answer is 401.
Arrive(c, r) ==
  /\ calls[c].pc = "idle"
  /\ IF r.path = "mcp" /\ Admitted(r)
     THEN /\ calls' = [calls EXCEPT ![c] = [Idle EXCEPT
                         !.pc = "running", !.request = r,
                         !.ever = ToSet(r.names) \cap known, !.lost = ToSet(r.names) \ known]]
          /\ context' = [context EXCEPT ![c] = r.client]
     ELSE /\ calls' = [calls EXCEPT ![c] = [Idle EXCEPT !.pc = "done", !.request = r,
                         !.outcome = IF r.path = "probe" THEN "answered" ELSE "unauthorized"]]
          /\ UNCHANGED context
  /\ UNCHANGED <<counts, trigger, database>>

\* Mutant of Leave: the caller is unbound before the outcome is counted.
LeaveUnnamed(c, outcome, found) ==
  /\ calls' = [calls EXCEPT ![c].pc = "done", ![c].outcome = outcome, ![c].found = found]
  /\ context' = [context EXCEPT ![c] = None]
  /\ UNCHANGED counts

\* The outcome is counted under the bound caller, which is then unbound.
Leave(c, outcome, found) ==
  /\ calls' = [calls EXCEPT ![c].pc = "done", ![c].outcome = outcome, ![c].found = found]
  /\ context' = [context EXCEPT ![c] = None]
  /\ counts' = [counts EXCEPT ![<<context[c], outcome>>] = @ + 1]

\* ToolTelemetry: a ValueError is a refusal, whatever else is raised an error.
FinishWith(c, raised, found) ==
  Leave(c, CASE raised = "nothing"    -> "ok"
             [] raised = "ValueError" -> "refused"
             [] OTHER                 -> "error", found)

Finish(c, raised) == FinishWith(c, raised, None)

\* Mutant of Cancel: the middleware binds without a finally.
CancelBound(c) ==
  /\ Open(c)
  /\ calls' = [calls EXCEPT ![c].pc = "done", ![c].outcome = "cancelled"]
  /\ UNCHANGED <<context, counts, trigger, database>>

\* A cancelled call is no Exception and is not counted; the middleware unbinds.
Cancel(c) ==
  /\ Open(c)
  /\ calls' = [calls EXCEPT ![c].pc = "done", ![c].outcome = "cancelled"]
  /\ context' = [context EXCEPT ![c] = None]
  /\ UNCHANGED <<counts, trigger, database>>

-----------------------------------------------------------------------------
(* The querying tools *)

\* The checks, and what remains to be looked up.
Begin(c) ==
  /\ calls[c].pc = "running"
  /\ calls[c].request.tool \in QueryingTools
  /\ LET raised == Checks(calls[c].request)
     IN IF raised = "nothing"
        THEN /\ calls' = [calls EXCEPT ![c].pc = "asking", ![c].left = LookUps(calls[c].request)]
             /\ UNCHANGED <<context, counts>>
        ELSE Finish(c, raised)
  /\ UNCHANGED <<trigger, database>>

Seeking(c) == calls[c].pc = "asking" /\ calls[c].left # <<>>
Sought(c) == Head(calls[c].left)

\* A catalog has the table sought, for resolve with its time column, or the call is refused.
\* Nothing is awaited in between.
SeekIn(c, catalog) ==
  IF Sought(c).names \subseteq (IF Sought(c).by = "resolve" THEN catalog.timed ELSE catalog.listed)
  THEN /\ calls' = [calls EXCEPT ![c].pc = "asking", ![c].left = Tail(@), ![c].catalog = None]
       /\ UNCHANGED <<context, counts>>
  ELSE FinishWith(c, "ValueError", catalog)

\* resolve and get_schema, from the cache.
Hit(c) ==
  /\ Seeking(c)
  /\ Sought(c).by # "statement"
  /\ cache # None
  /\ SeekIn(c, cache)
  /\ UNCHANGED <<trigger, database>>

\* Mutant of Walk: the cache is filled before the time columns are found.
WalkCachingEarly(c) ==
  /\ Seeking(c)
  /\ Sought(c).by # "statement"
  /\ cache = None
  /\ cache' = [listed |-> known \cap Tables, timed |-> {}, lost |-> Names \ (known \cap Tables)]
  /\ calls' = [calls EXCEPT ![c].pc = "walking", ![c].catalog = cache']
  /\ UNCHANGED <<context, counts, trigger, known, changes>>

\* No catalog is kept: the tables there are get listed.
Walk(c) ==
  /\ Seeking(c)
  /\ Sought(c).by # "statement"
  /\ cache = None
  /\ calls' = [calls EXCEPT ![c].pc = "walking", ![c].catalog =
       [listed |-> known \cap Tables, timed |-> {}, lost |-> Names \ (known \cap Tables)]]
  /\ UNCHANGED <<context, counts, trigger, database>>

\* Their time columns are found, where the table is still there and has one; the catalog is
\* kept, over whatever another walk has kept since, and looked into.
WalkEnds(c) ==
  /\ calls[c].pc = "walking"
  /\ cache' = [calls[c].catalog EXCEPT !.timed = (calls[c].catalog.listed \cap known) \ Untimed]
  /\ SeekIn(c, cache')
  /\ UNCHANGED <<trigger, known, changes>>

\* The minute is over.  (A superset: it may be over at any moment.)
Expire ==
  /\ cache # None
  /\ cache' = None
  /\ UNCHANGED <<calls, context, counts, trigger, known, changes>>

\* A statement that looks for columns, a room or functions.
LookUp(c) ==
  /\ Seeking(c)
  /\ Sought(c).by = "statement"
  /\ IF Sought(c).names \subseteq known
     THEN calls' = [calls EXCEPT ![c].left = Tail(@)] /\ UNCHANGED <<context, counts>>
     ELSE Finish(c, "ValueError")
  /\ UNCHANGED <<trigger, database>>

\* read: the limit is looked at first, an overflow last.  A candidate the back-test
\* cannot measure is refused in its thread.
Read(c) ==
  /\ calls[c].pc = "asking"
  /\ calls[c].left = <<>>
  /\ LET r == calls[c].request
     IN IF Effective(r) = 0 \/ (r.tool = "backtest_fault" /\ ~r.fits)
        THEN Finish(c, "ValueError")
        ELSE \E count \in Matching(r, known) :
               /\ Runs(r, known, count)
               /\ LET found == Result(r, count) IN FinishWith(c, found.raised, found)
  /\ UNCHANGED <<trigger, database>>

\* A statement fails, of a look-up, of a walk or of the read; the read always does without
\* a table or a column it names, and where a row is put into a bucket of no width.
StatementFails(c) ==
  /\ calls[c].pc \in {"asking", "walking"}
  /\ Finish(c, "OperationalError")
  /\ UNCHANGED <<trigger, database>>

\* What a catalog's history notes of names that have gone.
Noting(catalog, gone) == IF catalog = None THEN None ELSE [catalog EXCEPT !.lost = @ \cup gone]

\* A name comes or goes; every open call that gave it takes note, and so does every
\* catalog.
Change(n) ==
  /\ changes < MaxChanges
  /\ changes' = changes + 1
  /\ known' = IF n \in known THEN known \ {n} ELSE known \cup {n}
  /\ cache' = Noting(cache, {n} \ known')
  /\ calls' = [c \in Calls |->
       IF Open(c)
       THEN LET its == {n} \cap ToSet(calls[c].request.names)
            IN [calls[c] EXCEPT !.ever = @ \cup (its \cap known'), !.lost = @ \cup (its \ known'),
                                !.catalog = Noting(@, {n} \ known')]
       ELSE calls[c]]
  /\ UNCHANGED <<context, counts, trigger>>

-----------------------------------------------------------------------------
(* start_run, append_memory and the trigger *)

\* More than one line is refused before anything is asked.
Carry(c) ==
  /\ calls[c].pc = "running"
  /\ calls[c].request.tool \in AskingTools
  /\ IF calls[c].request.tool = "append_memory" /\ calls[c].request.lines > 1
     THEN Finish(c, "ValueError") /\ UNCHANGED trigger
     ELSE /\ calls' = [calls EXCEPT ![c].pc = "sent"]
          /\ requests' = requests \cup {c}
          /\ UNCHANGED <<context, counts, answers, effects>>
  /\ UNCHANGED database

\* The trigger does it, says no, or fails with or without having done it.  It
\* handles a request also when nobody waits for the answer any more.
Handle(c) ==
  /\ c \in requests
  /\ requests' = requests \ {c}
  /\ \E status \in {202, 409, 503}, done \in BOOLEAN :
       /\ status = 202 => done
       /\ status = 409 => ~done
       /\ answers' = answers \cup {[call |-> c, status |-> status]}
       /\ effects' = IF done THEN effects \cup {c} ELSE effects
  /\ UNCHANGED <<calls, context, counts, database>>

\* Mutant of Post: every answer but a 2xx is a refusal.
PostRefusing(status) == IF status >= 400 THEN "ValueError" ELSE "nothing"

\* post: what a status raises; a 2xx of the trigger carries JSON.
Post(status) ==
  IF status >= 500 THEN "RuntimeError" ELSE IF status >= 400 THEN "ValueError" ELSE "nothing"

Hear(c) ==
  /\ calls[c].pc = "sent"
  /\ \E a \in answers :
       /\ a.call = c
       /\ Finish(c, Post(a.status))
       /\ answers' = answers \ {a}
  /\ UNCHANGED <<requests, effects, database>>

\* No connection, a timeout, an answer cut off: the request may have got through.
NoAnswer(c) ==
  /\ calls[c].pc = "sent"
  /\ Finish(c, "RuntimeError")
  /\ requests' \in {requests, requests \ {c}}
  /\ UNCHANGED <<answers, effects, database>>

-----------------------------------------------------------------------------
Next ==
  \/ \E c \in Calls :
    \/ \E r \in Requests : Arrive(c, r)
    \/ Begin(c) \/ Hit(c) \/ Walk(c) \/ WalkEnds(c) \/ LookUp(c)
    \/ Read(c) \/ StatementFails(c)
    \/ Carry(c) \/ Hear(c) \/ NoAnswer(c) \/ Cancel(c)
    \/ Handle(c)
  \/ \E n \in Names : Change(n)
  \/ Expire

Spec == Init /\ [][Next]_vars

-----------------------------------------------------------------------------
(* Properties *)

\* A caller is bound while its call is open and only then, and it is the one the
\* gateway named.
TypeOK ==
  /\ \A c \in Calls : /\ calls[c].pc \in {"idle", "running", "asking", "walking", "sent", "done"}
                      /\ calls[c].request \in Requests \cup {None}
                      /\ calls[c].pc = "done" <=> calls[c].outcome # None
                      /\ context[c] = IF Open(c) THEN calls[c].request.client ELSE None
  /\ counts \in [Clients \X Outcomes -> 0..Cardinality(Calls)]
  /\ requests \subseteq Calls
  /\ \A a \in answers : a.call \in Calls \ requests
  /\ effects \subseteq Calls \ requests

\* Every call that came to an end by itself is counted once, as what its caller was
\* told and under its caller's route; nothing else is.
CountedOnce ==
  \A client \in Clients, outcome \in Outcomes :
    counts[client, outcome] =
      Cardinality({c \in Calls : /\ calls[c].outcome = outcome
                                 /\ calls[c].request.client = client})

\* What the caller is told is so: after "ok" the trigger has done it, after
\* "refused" it has not, and will not when a late request arrives.
ToldTruly ==
  \A c \in Calls :
    calls[c].outcome \in {"ok", "refused"} /\ calls[c].request.tool \notin QueryingTools =>
      /\ c \notin requests
      /\ c \in effects <=> calls[c].outcome = "ok"

\* The mistakes of a caller, whatever is in the database.
Mistaken(r) ==
  \/ r.tool = "append_memory" /\ r.lines > 1
  \/ r.tool = "correlate_events" /\ (None \in {r.bucket, r.window} \/ r.bucket = 0
                                     \/ r.window < r.bucket)
  \/ r.tool \in BucketingTools /\ r.bucket \in {None, 0}
  \/ r.tool = "query_energy_flow" /\ (r.bucket \in {None, 0} \/ \E n \in 1..3 : r.bucket % 4 = n)
  \/ r.tool = "query_heating_cycles" /\ r.number < 0
  \/ r.tool = "query_unifi_events" /\ r.number # None /\ (r.number < 0 \/ r.number > 100)
  \/ r.tool = "list_episodes" /\ r.number < 1
  \/ r.tool \in {"correlate_events", "list_episodes", "backtest_fault"} /\ ~r.fits
  \/ r.tool \in Limited /\ r.limit = 0

\* A mistake never yields data: the one a tool answers at all, a bucket of no width, it
\* answers only over a range without rows.  And nothing a mistaken or an unadmitted call
\* asks for reaches the trigger.
MistakesGoNowhere ==
  \A c \in Calls :
    LET r == calls[c].request
    IN /\ calls[c].outcome = "ok" /\ Mistaken(r) =>
            /\ r.tool \in BucketingTools /\ r.bucket = 0
            /\ calls[c].found.count = 0
       /\ c \in requests \cup effects => r.client # None /\ r.key /\ ~Mistaken(r)

\* "A refusal is the tool rejecting its arguments ... an invalid bucket ... The
\* bridge's own failures stay errors" (server.py, ToolTelemetry): an error, which
\* counts against the server, is never the answer to a caller's mistake.
MistakeIsNoError ==
  \A c \in Calls : calls[c].outcome = "error" => ~Mistaken(calls[c].request)

\* What a call was refused for when it sought a name: columns, a room or a function that
\* was not there at some moment of the call; a table that was not there at some moment since
\* the walk of the catalog it was sought in, which may have begun before the call, or that
\* has no time column.
Missed(call) ==
  /\ call.left # <<>>
  /\ Head(call.left).names \cap
       (CASE Head(call.left).by = "statement"  -> call.lost
          [] Head(call.left).by = "resolve"    -> call.found.lost \cup Untimed
          [] Head(call.left).by = "get_schema" -> call.found.lost) # {}

\* "A refusal is the tool rejecting its arguments ... an unknown table, column or room
\* ... a result over the row cap" (server.py, ToolTelemetry): a querying tool refuses
\* for no other cause, although the names are looked up at several moments and the tables
\* in a catalog that calls share; and it answers only for names that existed while it was
\* asked: an empty answer is of something.
RefusedForCause ==
  \A c \in Calls :
    LET r == calls[c].request
    IN /\ calls[c].outcome = "refused" /\ r.tool \in QueryingTools =>
            \/ Mistaken(r)
            \/ Missed(calls[c])
            \/ /\ r.tool \in Aggregating /\ calls[c].left = <<>>
               /\ calls[c].found # None /\ calls[c].found.count > RowLimit
       /\ calls[c].outcome = "ok" => ToSet(r.names) \subseteq calls[c].ever

\* "Unlike the aggregation tools, which error instead of computing on partial data"
\* (domain.py, query_knx_events): what aggregates is of all rows there were; what lists
\* shows the first of them, as many as asked for and allowed, and says whether more.
WholeOrTold ==
  \A c \in Calls :
    LET r == calls[c].request
        found == calls[c].found
        shown == Len(found.rows)
    IN calls[c].outcome = "ok" /\ r.tool \in QueryingTools =>
         /\ found.rows = [i \in 1..shown |-> i]
         /\ CASE r.tool \in Aggregating -> shown = found.count
              [] r.tool \in Limited     -> /\ shown = Min({r.limit, RowLimit, found.count})
                                          /\ found.truncated <=> shown < found.count
              [] OTHER                  -> shown = Min({TopN, RowLimit, found.count})
=============================================================================
