---------------------------- MODULE SourcesCache ----------------------------
(***************************************************************************)
(* Every query tool finds its table in the catalog list_data_sources       *)
(* returns: a walk of small statements over the database, kept for a       *)
(* minute.  The cache is looked up before the walk and filled after it,    *)
(* with nothing held in between, while tables are created and dropped,     *)
(* rows arrive and retention takes the oldest.                             *)
(*                                                                         *)
(* What resolve makes of a catalog is an operator, Chosen.  A chunk is the *)
(* moment of its rows.                                                     *)
(***************************************************************************)
EXTENDS Orders, SequencesExt, FiniteSetsExt

CONSTANTS
  Callers,      \* identities of calls
  Hypertables,  \* in the order of their names
  Aggregates,   \* the continuous aggregates, in the order of theirs
  Filled,       \* sources into which rows come; the others stay empty
  TTL,          \* _SOURCES_CACHE_TTL_SECONDS
  MaxNow,       \* bound: the last moment
  MaxChanges,   \* bound: how often the database changes
  None          \* nothing cached, no value, no outcome

Sources == ToSet(Hypertables) \cup ToSet(Aggregates)

ASSUME SourcesAssumption ==
  /\ {Hypertables, Aggregates} \subseteq Seq(STRING)
  /\ IsInjective(Hypertables \o Aggregates)
  /\ Filled \subseteq Sources
  /\ {TTL, MaxNow, MaxChanges} \subseteq Nat
  /\ None \notin Nat \cup {"served"}

VARIABLES
  now,     \* the time
  born,    \* when a source was created, or None; it comes and goes once
  dropped, \* when it was dropped, or None
  rows,    \* the moments a source has rows of
  cache,   \* [catalog, walk, ended], or None
  changes, \* how often the database has changed
  calls    \* [pc, asked, catalog, left, span, walk, ended, outcome] of each call

vars == <<now, born, dropped, rows, changes, cache, calls>>
database == <<born, dropped, rows, changes>>

tables == {s \in Sources : born[s] # None /\ dropped[s] = None}

\* History: what of the database a walk may have met.  ever, always: the sources
\* that existed at some time of it, and all through; first: their newest rows when
\* it began; empty: sources that had no rows at some time of it.
Newest(s) == IF rows[s] = {} THEN None ELSE Max(rows[s])

Walk == [ever |-> tables, always |-> tables, first |-> [s \in Sources |-> Newest(s)],
         empty |-> {s \in Sources : rows[s] = {}}, began |-> now]

Idle == [pc |-> "idle", asked |-> None, catalog |-> <<>>, left |-> <<>>, span |-> None,
         walk |-> None, ended |-> None, outcome |-> None]

Init ==
  /\ now = 0
  /\ born \in [Sources -> {0, None}]
  /\ dropped = [s \in Sources |-> None]
  /\ rows = [s \in Sources |-> IF s \in tables \cap Filled THEN {0} ELSE {}]
  /\ changes = 0
  /\ cache = None
  /\ calls = [c \in Callers |-> Idle]

-----------------------------------------------------------------------------
(* Time and the database *)

Tick ==
  /\ now < MaxNow
  /\ now' = now + 1
  /\ UNCHANGED <<database, cache, calls>>

Walking(c) == calls[c].pc \in {"hypertables", "aggregates", "column", "span", "newest"}

\* Every walk under way takes note of a change.
Note(update(_)) ==
  calls' = [c \in Callers |-> IF Walking(c) THEN [calls[c] EXCEPT !.walk = update(@)] ELSE calls[c]]

Change ==
  /\ changes < MaxChanges
  /\ changes' = changes + 1

Create(s) ==
  /\ Change
  /\ born[s] = None
  /\ born' = [born EXCEPT ![s] = now]
  /\ Note(LAMBDA w : [w EXCEPT !.ever = @ \cup {s}])
  /\ UNCHANGED <<now, dropped, rows, cache>>

Drop(s) ==
  /\ Change
  /\ s \in tables
  /\ dropped' = [dropped EXCEPT ![s] = now]
  /\ rows' = [rows EXCEPT ![s] = {}]
  /\ Note(LAMBDA w : [w EXCEPT !.always = @ \ {s}, !.empty = @ \cup {s}])
  /\ UNCHANGED <<now, born, cache>>

Insert(s) ==
  /\ Change
  /\ s \in tables \cap Filled
  /\ rows' = [rows EXCEPT ![s] = @ \cup {now}]
  /\ UNCHANGED <<now, born, dropped, cache, calls>>

\* Retention drops the oldest chunk.
Retain(s) ==
  /\ Change
  /\ rows[s] # {}
  /\ rows' = [rows EXCEPT ![s] = @ \ {Min(@)}]
  /\ Note(LAMBDA w : [w EXCEPT !.empty = IF rows'[s] = {} THEN @ \cup {s} ELSE @])
  /\ UNCHANGED <<now, born, dropped, cache>>

-----------------------------------------------------------------------------
(* resolve and list_data_sources *)

\* resolve: the named source of a catalog, if it has a time column.
Chosen(catalog, table) ==
  IF \A i \in DOMAIN catalog : catalog[i].source # table THEN "unknown_table"
  ELSE IF \E i \in DOMAIN catalog : catalog[i].source = table /\ catalog[i].column THEN "known"
  ELSE "no_time_column"

Serve(call, catalog, walk, ended) ==
  [call EXCEPT !.pc = "done", !.catalog = catalog, !.walk = walk, !.ended = ended,
               !.outcome = "served"]

\* Mutant of Valid: what is cached stays.
ValidForEver == cache # None

Valid == cache # None /\ now < cache.ended + TTL

Ask(c) ==
  /\ calls[c].pc = "idle"
  /\ LET call == [calls[c] EXCEPT !.asked = now]
     IN calls' = [calls EXCEPT ![c] =
          IF Valid THEN Serve(call, cache.catalog, cache.walk, cache.ended)
                   ELSE [call EXCEPT !.pc = "hypertables", !.walk = Walk]]
  /\ UNCHANGED <<now, database, cache>>

Existing(names) == Kept(names, tables)

ListHypertables(c) ==
  /\ calls[c].pc = "hypertables"
  /\ calls' = [calls EXCEPT ![c].pc = "aggregates", ![c].left = Existing(Hypertables)]
  /\ UNCHANGED <<now, database, cache>>

\* The walk's next source, and after the last one the cache is filled.
Proceed(c, call) ==
  IF call.left # <<>>
  THEN calls' = [calls EXCEPT ![c] = [call EXCEPT !.pc = "column"]] /\ UNCHANGED cache
  ELSE /\ calls' = [calls EXCEPT ![c] = Serve(call, call.catalog, call.walk, now)]
       /\ cache' = [catalog |-> call.catalog, walk |-> call.walk, ended |-> now]

ListAggregates(c) ==
  /\ calls[c].pc = "aggregates"
  /\ Proceed(c, [calls[c] EXCEPT !.left = @ \o Existing(Aggregates)])
  /\ UNCHANGED <<now, database>>

\* The entry of the source at hand; the walk goes on with the next.
Described(call, column, min, max) ==
  [call EXCEPT !.left = Tail(@), !.span = None, !.catalog =
     Append(@, [source |-> Head(call.left), column |-> column, min |-> min, max |-> max])]

\* _detect_time_column: a source dropped meanwhile has none, and no range.
DetectColumn(c) ==
  /\ calls[c].pc = "column"
  /\ IF Head(calls[c].left) \in tables
     THEN calls' = [calls EXCEPT ![c].pc = "span"] /\ UNCHANGED cache
     ELSE Proceed(c, Described(calls[c], FALSE, None, None))
  /\ UNCHANGED <<now, database>>

\* The chunks' metadata; without a chunk there is no range.
ReadSpan(c) ==
  /\ calls[c].pc = "span"
  /\ LET chunks == rows[Head(calls[c].left)]
     IN IF chunks # {}
        THEN /\ calls' = [calls EXCEPT ![c].pc = "newest",
                                       ![c].span = [oldest |-> Min(chunks), newest |-> Max(chunks)]]
             /\ UNCHANGED cache
        ELSE Proceed(c, Described(calls[c], TRUE, None, None))
  /\ UNCHANGED <<now, database>>

\* Mutant of NewestFrom: the newest chunk alone.
NewestFromChunk(s, chunk) == IF chunk \in rows[s] THEN chunk ELSE None

\* The newest value from the newest chunk on.  A chunk stands for its rows: chunks without
\* rows, and rows of a real-time aggregate that are in no chunk yet, are left out.
NewestFrom(s, chunk) ==
  LET recent == {t \in rows[s] : t >= chunk}
  IN IF recent = {} THEN None ELSE Max(recent)

ReadNewest(c) ==
  /\ calls[c].pc = "newest"
  /\ LET s == Head(calls[c].left)
     IN /\ s \in tables
        /\ Proceed(c, Described(calls[c], TRUE, calls[c].span.oldest,
                                NewestFrom(s, calls[c].span.newest)))
  /\ UNCHANGED <<now, database>>

\* A statement fails; one that reads a dropped table always does.
Fail(c) ==
  /\ Walking(c)
  /\ calls' = [calls EXCEPT ![c] = [Idle EXCEPT !.pc = "done", !.outcome = "failed"]]
  /\ UNCHANGED <<now, database, cache>>

Return(c) ==
  /\ calls[c].pc = "done"
  /\ calls' = [calls EXCEPT ![c] = Idle]
  /\ UNCHANGED <<now, database, cache>>

-----------------------------------------------------------------------------
Next ==
  \/ Tick
  \/ \E s \in Sources : Create(s) \/ Drop(s) \/ Insert(s) \/ Retain(s)
  \/ \E c \in Callers :
       \/ Ask(c) \/ ListHypertables(c) \/ ListAggregates(c)
       \/ DetectColumn(c) \/ ReadSpan(c) \/ ReadNewest(c)
       \/ Fail(c) \/ Return(c)

Spec == Init /\ [][Next]_vars

-----------------------------------------------------------------------------
(* Properties *)

Answered(c) == calls[c].outcome = "served"
Listed(catalog) == {catalog[i].source : i \in DOMAIN catalog}

\* A catalog is of its walk, whoever made the walk: it lists nothing that did not
\* exist at some time of it, and everything that existed all through, with its
\* time column.  The range of a source is one it had: the newest value is no older
\* than the newest row when the walk began, and there is none only if the source was
\* empty for a moment.
CatalogOfItsWalk ==
  \A c \in Callers : Answered(c) =>
    /\ Listed(calls[c].catalog) \subseteq calls[c].walk.ever
    /\ \A s \in calls[c].walk.always : Chosen(calls[c].catalog, s) = "known"
    /\ \A i \in DOMAIN calls[c].catalog :
         LET entry == calls[c].catalog[i]
             first == calls[c].walk.first[entry.source]
         IN IF entry.max = None
            THEN entry.source \in calls[c].walk.empty \/ entry.source \notin calls[c].walk.always
            ELSE entry.min <= entry.max /\ (first # None => first <= entry.max)

\* What a call is told trails the database by the time to live and the walk, never
\* by more: a table dropped earlier is not known to it, and one that was created
\* earlier and is still there is not unknown.
CatalogTrails ==
  \A c \in Callers, s \in Sources : Answered(c) =>
    LET call == calls[c]
        lag == TTL + (call.ended - call.walk.began)
        told == Chosen(call.catalog, s)
    IN /\ told = "known" /\ dropped[s] # None => call.asked <= dropped[s] + lag
       /\ told = "unknown_table" /\ s \in tables => call.asked <= born[s] + lag

=============================================================================
