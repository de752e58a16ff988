----------------------------- MODULE LedgerRows -----------------------------
(***************************************************************************)
(* The rows of the platform's ledger (agent_runs) as the bridge's          *)
(* statements see them, what the tool arguments of list_runs and           *)
(* set_verdict may be, and the conditions the statements put on a row.     *)
(* No state: the specifications Ledger and LedgerView share these          *)
(* definitions.                                                            *)
(***************************************************************************)
EXTENDS Naturals, FiniteSets

CONSTANTS
  Persons,      \* the people the gateway names in X-Enduser-Id
  NoPerson,     \* a caller, or a run, without a person: a machine
  RunIds,       \* agent_runs.id
  EpisodeIds,   \* episodes.id
  Keys,         \* subject keys: a subject, or a subject and an event kind
  SubjectOf,    \* SubjectOf[k]: what stands before the ':' of key k
  SubjectKinds, \* the kinds agent_runs.subject_kind may have
  Times,        \* created_at values
  Requests,     \* the set_verdict arguments callers send
  Filters,      \* the list_runs arguments callers send
  Rows,         \* the rows the trigger service writes
  None          \* SQL NULL, and an argument that was left out

VerdictsOn == [episode |-> {"real", "nonsense"}, run |-> {"helpful", "useless"}]
Words == {"real", "nonsense", "helpful", "useless"}

Callers == Persons \cup {NoPerson}

Row == [person: Callers, kind: SubjectKinds, key: Keys, born: Times,
        verdict: VerdictsOn.run \cup {None}]

\* The kind argument is a plain string on the wire, so it may be no kind at all.
Request == [target: {"episode", "run"}, verdict: Words,
            episode: EpisodeIds \cup {None}, run: RunIds \cup {None},
            kind: SubjectKinds \cup {"no_such_kind", None}, key: Keys \cup {None}]

\* `limit` is the row limit as db.row_cap clamps it; a zero stays a zero.  proper: status
\* is one of RunStatus or left out, and days is positive; a status or a use case given
\* selects fewer rows, and is left out.
Filter == [run: RunIds \cup {None}, kind: SubjectKinds \cup {"no_such_kind", None},
           key: Keys \cup {None}, since: Times, unjudged: BOOLEAN, limit: Nat,
           proper: BOOLEAN]

ASSUME LedgerAssumption ==
  /\ NoPerson \notin Persons
  /\ None \notin Callers \cup RunIds \cup EpisodeIds \cup Keys \cup SubjectKinds \cup Words
  /\ RunIds \cap EpisodeIds = {}
  /\ None \notin Row
  /\ SubjectOf \in [Keys -> Keys]
  /\ "chat" \in SubjectKinds
  /\ "no_such_kind" \notin SubjectKinds
  /\ Times \subseteq Nat
  /\ Requests \subseteq Request
  /\ Filters \subseteq Filter
  /\ Rows \subseteq {row \in Row : row.verdict = None}

\* A call that was not made yet.
Idle == [pc |-> "idle", who |-> NoPerson, req |-> None, found |-> None,
         wrote |-> FALSE, outcome |-> None, shown |-> {}]

-----------------------------------------------------------------------------
\* visible_to: a person reads their own rows and the machines', a caller
\* without a person the machines' alone.
MayRead(who, row) == row.person \in {who, NoPerson}

\* SUBJECT_KEY_MATCH: the key itself, or the subject in front of the event kind.
KeyMatches(row, key) == key \in {row.key, SubjectOf[row.key]}

\* The checks set_verdict and _resolve_run make before they touch the database.
WellFormed(q) ==
  /\ q.verdict \in VerdictsOn[q.target]
  /\ q.target = "episode" =>
       /\ <<q.run, q.kind, q.key>> = <<None, None, None>>
       /\ q.episode # None
  /\ q.target = "run" =>
       /\ q.episode = None
       /\ q.run # None => <<q.kind, q.key>> = <<None, None>>
       /\ (q.kind = None) <=> (q.key = None)
       /\ q.kind \in SubjectKinds \cup {None}

\* The checks list_runs and db.read make before the statement.
Listable(f) ==
  /\ f.kind \in SubjectKinds \cup {None}
  /\ f.proper
  /\ f.limit > 0

\* The WHERE clause a run's address stands for, without its visibility part.
Addresses(q, who, id, row) ==
  CASE q.run # None  -> id = q.run
    [] q.kind # None -> row.kind = q.kind /\ KeyMatches(row, q.key)
    [] OTHER         -> row.kind = "chat" /\ row.person = who

\* ORDER BY created_at DESC LIMIT 1 over the rows `ids` of `table`: rows with
\* the same created_at come in any order.
Newest(table, ids) ==
  {r \in ids : \A s \in ids : table[s].born <= table[r].born}

\* The WHERE clause of list_runs, without its visibility part: a run named by
\* its id is shown however old it is, and the key is compared whole.
Passes(f, id, row) ==
  /\ IF f.run # None THEN id = f.run ELSE row.born >= f.since
  /\ f.kind # None => row.kind = f.kind
  /\ f.key # None => row.key = f.key
  /\ f.unjudged => row.verdict = None

\* ORDER BY created_at DESC LIMIT limit: the newest `limit` of `ids`.
IsNewestFirst(table, ids, limit, shown) ==
  /\ Cardinality(shown) = IF Cardinality(ids) < limit THEN Cardinality(ids) ELSE limit
  /\ \A r \in shown, s \in ids \ shown : table[s].born <= table[r].born
=============================================================================
