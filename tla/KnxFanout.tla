----------------------------- MODULE KnxFanout -----------------------------
(***************************************************************************)
(* get_current_knx answers "what is on right now": the catalog gives the   *)
(* group addresses of a filter and the datapoints of their devices, in two *)
(* statements, then the last retained message of every address is read     *)
(* from JetStream, concurrently but a bounded number at a time.  Meanwhile *)
(* the bus goes on publishing and the catalog may be imported again.  A    *)
(* call has its own semaphore, so one call is every call.                  *)
(***************************************************************************)
EXTENDS Roles, Integers, FiniteSets

CONSTANTS
  Gas,          \* group addresses: numbers, in the order of the catalog's ga
  Catalogs,     \* the catalogs an import installs: [name, room] by address, or None
  Rooms,        \* rooms a client filters by; None for no filter
  Limits,       \* limits a client gives
  RowLimit,     \* the configured row limit
  Concurrency,  \* _LAST_VALUE_CONCURRENCY
  MaxPublished, \* bound: messages published
  MaxCatalogs,  \* bound: catalogs that stand during one call
  None          \* no entry, no retained message, no filter, no outcome yet

ASSUME FanoutAssumption ==
  /\ Gas \subseteq Nat /\ IsFiniteSet(Gas)
  /\ {RowLimit, Concurrency} \subseteq Nat \ {0}
  /\ Limits \subseteq Int
  /\ {MaxPublished, MaxCatalogs} \subseteq Nat
  /\ None # "ok"

VARIABLES
  catalog,    \* ga_catalog
  retained,   \* the last value the stream holds for an address, or None
  published,  \* how many messages were published
  call,       \* [pc, room, onlyActive, rows, roles, states, outcome]
  reads,      \* the read task of each address, [at, value]
  permits,    \* what the semaphore has left
  held,       \* history: what the stream held for an address since the call began
  first,      \* history: the catalog the call read its rows from
  stood       \* history: the catalogs that stood since the call began

vars == <<catalog, retained, published, call, reads, permits, held, first, stood>>
platform == <<catalog, retained, published, held, first, stood>>

\* What a payload says of its datapoint: true or a number above 0, false or 0, or
\* nothing (it has no value, or is no JSON object).
Values == {"on", "off", "void"}

Idle == [at |-> "none", value |-> None]

Init ==
  /\ catalog \in Catalogs
  /\ retained \in [Gas -> {"on", None}]
  /\ published = 0
  /\ call = [pc |-> "asked", room |-> None, onlyActive |-> FALSE, rows |-> {}, roles |-> {},
             states |-> {}, outcome |-> None]
  /\ reads = [g \in Gas |-> Idle]
  /\ permits = Concurrency
  /\ held = [g \in Gas |-> {retained[g]}]
  /\ first = catalog
  /\ stood = {catalog}

-----------------------------------------------------------------------------
(* The platform *)

Publish(g, value) ==
  /\ published < MaxPublished
  /\ published' = published + 1
  /\ retained' = [retained EXCEPT ![g] = value]
  /\ held' = [held EXCEPT ![g] = @ \cup {value}]
  /\ UNCHANGED <<catalog, call, reads, permits, first, stood>>

Import ==
  /\ catalog' \in Catalogs \ {catalog}
  /\ stood' = stood \cup {catalog'}
  /\ Cardinality(stood') <= MaxCatalogs
  /\ UNCHANGED <<retained, published, call, reads, permits, held, first>>

-----------------------------------------------------------------------------
(* The call *)

Matching(room) == {g \in Gas : catalog[g] # None /\ room \in {None, catalog[g].room}}

\* The names of a whole catalog.
NamesOf(c) == {c[g].name : g \in {h \in Gas : c[h] # None}}

\* The first `limit` of them, by address.
FirstOf(gas, limit) == {g \in gas : Cardinality({h \in gas : h <= g}) <= limit}

Effective(limit) == IF limit < RowLimit THEN limit ELSE RowLimit

\* The addresses of the filter, cut to the limit; that there were more is dropped.
ReadCatalog(room, onlyActive, limit) ==
  /\ call.pc = "asked"
  /\ LET found == FirstOf(Matching(room), Effective(limit))
     IN call' = IF limit <= 0 THEN [call EXCEPT !.pc = "done", !.outcome = "refused"]
                ELSE [call EXCEPT !.pc = IF found = {} THEN "done" ELSE "roles",
                                  !.outcome = IF found = {} THEN "ok" ELSE None,
                                  !.room = room, !.onlyActive = onlyActive,
                                  !.rows = {[ga |-> g, name |-> catalog[g].name] : g \in found}]
  /\ held' = [g \in Gas |-> {retained[g]}]
  /\ first' = catalog
  /\ stood' = {catalog}
  /\ UNCHANGED <<catalog, retained, published, reads, permits>>

\* Mutant of ReadRoles: judged among the names the filter found.
ReadRolesOfFound ==
  /\ call.pc = "roles"
  /\ LET found == {r.name : r \in call.rows} IN
       call' = [call EXCEPT !.pc = "reading",
                            !.roles = {[name |-> n, role |-> RoleOf(n, found)] : n \in found}]
  /\ reads' = [g \in Gas |-> IF \E r \in call.rows : r.ga = g THEN [Idle EXCEPT !.at = "queued"]
                                                             ELSE Idle]
  /\ UNCHANGED <<platform, permits>>

\* The devices' datapoints, from the whole catalog as it is now: the rows are judged by
\* these alone, whatever the first statement found; then one task per address.
ReadRoles ==
  /\ call.pc = "roles"
  /\ call' = [call EXCEPT !.pc = "reading",
                          !.roles = {[name |-> r.name, role |-> RoleOf(r.name, NamesOf(catalog))] :
                                     r \in call.rows}]
  /\ reads' = [g \in Gas |-> IF \E r \in call.rows : r.ga = g THEN [Idle EXCEPT !.at = "queued"]
                                                             ELSE Idle]
  /\ UNCHANGED <<platform, permits>>

\* A statement fails, and with it the call.
StatementFails ==
  /\ call.pc \in {"asked", "roles"}
  /\ call' = [call EXCEPT !.pc = "done", !.outcome = "error"]
  /\ UNCHANGED <<platform, reads, permits>>

\* A task gets the semaphore and asks the server.
Acquire(g) ==
  /\ reads[g].at = "queued"
  /\ permits > 0
  /\ permits' = permits - 1
  /\ reads' = [reads EXCEPT ![g].at = "asking"]
  /\ UNCHANGED <<platform, call>>

\* The server answers, with the last message or with NotFound.
Answer(g) ==
  /\ reads[g].at = "asking"
  /\ reads' = [reads EXCEPT ![g] = [at |-> "answered", value |-> retained[g]]]
  /\ permits' = permits + 1
  /\ UNCHANGED <<platform, call>>

\* Mutant of Fail: every failure is taken for "never retained".
FailAsMissing(g) ==
  /\ reads[g].at = "asking"
  /\ reads' = [reads EXCEPT ![g] = [at |-> "answered", value |-> None]]
  /\ permits' = permits + 1
  /\ UNCHANGED <<platform, call>>

\* Mutant of Fail: acquire and release without a with.
FailKeepingPermit(g) ==
  /\ reads[g].at = "asking"
  /\ reads' = [reads EXCEPT ![g].at = "failed"]
  /\ call' = IF call.pc = "reading" THEN [call EXCEPT !.pc = "done", !.outcome = "error"] ELSE call
  /\ UNCHANGED <<platform, permits>>

\* Mutant of Fail: a failed request is asked again, as often as it takes.
FailAndRetry(g) ==
  /\ reads[g].at = "asking"
  /\ reads' = [reads EXCEPT ![g].at = "queued"]
  /\ permits' = permits + 1
  /\ UNCHANGED <<platform, call>>

\* The request times out or the connection is closed.  The first failure ends the
\* gather and the call; its other tasks go on.
Fail(g) ==
  /\ reads[g].at = "asking"
  /\ reads' = [reads EXCEPT ![g].at = "failed"]
  /\ permits' = permits + 1
  /\ call' = IF call.pc = "reading" THEN [call EXCEPT !.pc = "done", !.outcome = "error"] ELSE call
  /\ UNCHANGED platform

\* A cancel of the call cancels every task of the gather.
Cancel ==
  /\ call.pc = "reading"
  /\ call' = [call EXCEPT !.pc = "done", !.outcome = "cancelled"]
  /\ reads' = [g \in Gas |-> IF reads[g].at \in {"queued", "asking"}
                             THEN [Idle EXCEPT !.at = "cancelled"] ELSE reads[g]]
  /\ permits' = Concurrency
  /\ UNCHANGED platform

IsOn(value) == value = "on"

RoleFound(name) == (CHOOSE r \in call.roles : r.name = name).role

\* All tasks answered: a state for every address that has a message.
Collect ==
  /\ call.pc = "reading"
  /\ \A r \in call.rows : reads[r.ga].at = "answered"
  /\ LET found == {[ga |-> r.ga, role |-> RoleFound(r.name), value |-> reads[r.ga].value] :
                   r \in {row \in call.rows : reads[row.ga].value # None}}
     IN call' = [call EXCEPT !.pc = "done", !.outcome = "ok",
                   !.states = {s \in found : call.onlyActive => s.role # "command" /\ IsOn(s.value)}]
  /\ UNCHANGED <<platform, reads, permits>>

-----------------------------------------------------------------------------
Ask == \E room \in Rooms \cup {None}, onlyActive \in BOOLEAN, limit \in Limits :
         ReadCatalog(room, onlyActive, limit)

Next ==
  \/ \E g \in Gas, v \in Values : Publish(g, v)
  \/ Import
  \/ Ask \/ ReadRoles \/ StatementFails
  \/ \E g \in Gas : Acquire(g) \/ Answer(g) \/ Fail(g)
  \/ Cancel
  \/ Collect

\* A task that can run does, and a request is answered or times out.
Fairness ==
  /\ WF_vars(Collect)
  /\ \A g \in Gas : WF_vars(Acquire(g)) /\ WF_vars(Answer(g) \/ Fail(g))

Spec == Init /\ [][Next]_vars /\ Fairness

-----------------------------------------------------------------------------
(* Properties *)

Asking == {g \in Gas : reads[g].at = "asking"}
Answered == call.outcome = "ok"
Listed == {r.ga : r \in call.rows}
Shown == {s.ga : s \in call.states}

\* Never more requests than the semaphore allows, and every task that ended gave
\* its permit back: by an answer, a failure or a cancel.
TypeOK ==
  /\ catalog \in Catalogs
  /\ retained \in [Gas -> Values \cup {None}]
  /\ published \in 0..MaxPublished
  /\ call.pc \in {"asked", "roles", "reading", "done"}
  /\ call.outcome \in {"ok", "refused", "error", "cancelled", None}
  /\ Listed \subseteq Gas
  /\ Cardinality(Listed) <= RowLimit
  /\ Shown \subseteq Listed
  /\ reads \in [Gas -> [at: {"none", "queued", "asking", "answered", "failed", "cancelled"},
                        value: Values \cup {None}]]
  /\ permits \in 0..Concurrency
  /\ permits + Cardinality(Asking) = Concurrency

\* An answer tells of every address it lists what the stream held during the call,
\* and leaves out none that had a message throughout: an address is missing
\* because it never spoke, not because its request failed.
AnswerIsComplete ==
  Answered =>
    /\ \A s \in call.states : s.value \in held[s.ga]
    /\ \A g \in Listed \ Shown :
         \/ None \in held[g]
         \/ call.onlyActive /\ (held[g] # {"on"} \/ RoleFound((CHOOSE r \in call.rows : r.ga = g).name) = "command")

\* only_active tells no order as a state, however narrow the filter: what is told was no
\* order, under the name the call read for it, among the names of some catalog that stood
\* during the call.  So an order that has its status in every one of them is left out; one
\* whose -Status an import takes away, or whose device it renames, between the two statements
\* may be told as a reading: its name is of the first, the datapoints are of the second.
NoOrderForAState ==
  Answered /\ call.onlyActive =>
    \A g \in Shown :
      /\ first[g] # None
      /\ \E later \in stood : RoleOf(first[g].name, NamesOf(later)) # "command"

\* A fan-out ends with its call answered, failed or cancelled, and no task of it
\* waits on for a permit or an answer.
FanoutEnds ==
  (call.pc = "reading") ~>
    (call.pc = "done" /\ \A g \in Gas : reads[g].at \notin {"queued", "asking"})

\* "GAs with no retained NATS message are omitted" (live.py, get_current_knx): so
\* are the others of the filter, once the limit is reached.
OmittedHaveNone ==
  Answered /\ ~call.onlyActive /\ stood = {first} =>
    \A g \in Matching(call.room) \ Shown : None \in held[g]
=============================================================================
