------------------------------- MODULE Ledger -------------------------------
(***************************************************************************)
(* list_runs and set_verdict over the ledger: concurrent callers, the      *)
(* trigger service claiming rows meanwhile, and the two pools a verdict    *)
(* goes through.  A verdict is two statements of two connections: the      *)
(* subject is resolved on the read pool, and only then written on the      *)
(* write pool, by id.  Either can fail, and the write can commit without   *)
(* its answer reaching the bridge.                                         *)
(***************************************************************************)
EXTENDS LedgerRows

CONSTANTS
  Calls,         \* the tool calls of a behaviour; each is made once
  WriteEnabled   \* MCP_DB_WRITE_USERNAME and its password are configured

ASSUME CallsAssumption == WriteEnabled \in BOOLEAN

VARIABLES
  runs,     \* agent_runs: a row, or None where the id was not handed out yet
  episodes, \* episode_verdicts by episode: a word, "unjudged", or None: no episode
  call,     \* the calls and where each stands
  newest    \* history: the runs each open call's address has led to so far

vars == <<runs, episodes, call, newest>>

Visible(who) == {r \in RunIds : runs[r] # None /\ MayRead(who, runs[r])}

\* Mutant of Named: the statements leave out {visible}.
NamedUnfiltered(table, who, q) ==
  {r \in RunIds : table[r] # None /\ Addresses(q, who, r, table[r])}

\* The runs a statement of _resolve_run finds for request q of caller who; the
\* newest chat run is looked for among the caller's own rows.
Named(table, who, q) ==
  {r \in RunIds : /\ table[r] # None
                  /\ MayRead(who, table[r])
                  /\ Addresses(q, who, r, table[r])}

Init ==
  /\ runs = [r \in RunIds |-> None]
  /\ episodes = [e \in EpisodeIds |-> None]
  /\ call = [c \in Calls |-> Idle]
  /\ newest = [c \in Calls |-> {}]

-----------------------------------------------------------------------------
(* The platform around the bridge. *)

\* What the open run verdicts of `calls` lead to in `table`, added to what they
\* led to before: a run the caller named by subject or by nothing.
Remember(table, calls) ==
  newest' = [c \in Calls |->
    IF calls[c].pc = "resolving" /\ calls[c].req.target = "run"
    THEN newest[c] \cup Newest(table, Named(table, calls[c].who, calls[c].req))
    ELSE newest[c]]

\* The trigger service claims a run; created_at is the start of its transaction,
\* so a row may become visible after a younger one.
ClaimRun(r, row) ==
  /\ runs[r] = None
  /\ runs' = [runs EXCEPT ![r] = row]
  /\ Remember(runs', call)
  /\ UNCHANGED <<episodes, call>>

\* The detection chain opens an episode.
OpenEpisode(e) ==
  /\ episodes[e] = None
  /\ episodes' = [episodes EXCEPT ![e] = "unjudged"]
  /\ UNCHANGED <<runs, call, newest>>

-----------------------------------------------------------------------------
(* set_verdict *)

\* Mutant of AskVerdict: the word is not checked against the target.
AskVerdictUnchecked(c, who, q) ==
  /\ call[c].pc = "idle"
  /\ call' = [call EXCEPT ![c] = [Idle EXCEPT !.pc = "resolving", !.who = who, !.req = q]]
  /\ Remember(runs, call')
  /\ UNCHANGED <<runs, episodes>>

\* The arguments are checked before the first await; a bad one is refused.
AskVerdict(c, who, q) ==
  /\ call[c].pc = "idle"
  /\ call' = [call EXCEPT ![c] =
       IF WellFormed(q)
       THEN [Idle EXCEPT !.pc = "resolving", !.who = who, !.req = q]
       ELSE [Idle EXCEPT !.pc = "done", !.who = who, !.outcome = "refused"]]
  /\ Remember(runs, call')
  /\ UNCHANGED <<runs, episodes>>

Found(c, x) ==
  call' = [call EXCEPT ![c].pc = "writing", ![c].found = x]

Answered(c, outcome) ==
  call' = [call EXCEPT ![c].pc = "done", ![c].outcome = outcome]

\* _judge_episode's lookup on the read pool.
ResolveEpisode(c) ==
  /\ call[c].pc = "resolving" /\ call[c].req.target = "episode"
  /\ LET e == call[c].req.episode IN
       IF episodes[e] # None THEN Found(c, e) ELSE Answered(c, "refused")
  /\ UNCHANGED <<runs, episodes, newest>>

\* Mutant of ResolveRun: no ORDER BY.
ResolveRunUnordered(c) ==
  /\ call[c].pc = "resolving" /\ call[c].req.target = "run"
  /\ LET named == Named(runs, call[c].who, call[c].req) IN
       \/ \E r \in named : Found(c, r)
       \/ named = {} /\ Answered(c, "refused")
  /\ UNCHANGED <<runs, episodes, newest>>

\* Mutant of ResolveRun: a run that exists but is another person's is passed over
\* in silence, which tells it apart from one that does not exist.
ResolveRunTelling(c) ==
  /\ call[c].pc = "resolving" /\ call[c].req.target = "run"
  /\ LET named == Named(runs, call[c].who, call[c].req)
         id    == call[c].req.run
     IN \/ \E r \in Newest(runs, named) : Found(c, r)
        \/ named = {} /\ Answered(c, IF id # None /\ runs[id] # None THEN "ok" ELSE "refused")
  /\ UNCHANGED <<runs, episodes, newest>>

\* _resolve_run: one statement on the read pool, LIMIT 1.
ResolveRun(c) ==
  /\ call[c].pc = "resolving" /\ call[c].req.target = "run"
  /\ LET named == Named(runs, call[c].who, call[c].req) IN
       \/ \E r \in Newest(runs, named) : Found(c, r)
       \/ named = {} /\ Answered(c, "refused")
  /\ UNCHANGED <<runs, episodes, newest>>

\* Mutant of Write: the UPDATE names the subject instead of the id.
WriteBySubject(c) ==
  LET x == call[c].found
      v == call[c].req.verdict
  IN IF call[c].req.target = "run"
     THEN /\ runs' = [r \in RunIds |->
                IF runs[r] # None /\ runs[r].key = runs[x].key
                THEN [runs[r] EXCEPT !.verdict = v] ELSE runs[r]]
          /\ UNCHANGED episodes
     ELSE /\ episodes' = [episodes EXCEPT ![x] = v]
          /\ UNCHANGED runs

\* The upsert of episode_verdicts and the UPDATE of agent_runs by id.
Write(c) ==
  LET x == call[c].found
      v == call[c].req.verdict
  IN IF call[c].req.target = "run"
     THEN /\ runs' = [runs EXCEPT ![x].verdict = v]
          /\ UNCHANGED episodes
     ELSE /\ episodes' = [episodes EXCEPT ![x] = v]
          /\ UNCHANGED runs

\* The write commits, and its RETURNING row is the tool's answer, or the
\* connection is lost before the row arrives and the call fails.
Record(c) ==
  /\ call[c].pc = "writing"
  /\ WriteEnabled
  /\ Write(c)
  /\ \E outcome \in {"ok", "error"} :
       call' = [call EXCEPT ![c].pc = "done", ![c].outcome = outcome, ![c].wrote = TRUE]
  /\ UNCHANGED newest

-----------------------------------------------------------------------------
(* list_runs, and the failures every call shares *)

AskList(c, who, f) ==
  /\ call[c].pc = "idle"
  /\ call' = [call EXCEPT ![c] =
       IF Listable(f)
       THEN [Idle EXCEPT !.pc = "listing", !.who = who, !.req = f]
       ELSE [Idle EXCEPT !.pc = "done", !.who = who, !.outcome = "refused"]]
  /\ UNCHANGED <<runs, episodes, newest>>

\* One statement on the read pool; the rows over the limit are cut.
List(c) ==
  /\ call[c].pc = "listing"
  /\ LET f  == call[c].req
         in == {r \in Visible(call[c].who) : Passes(f, r, runs[r])}
     IN \E shown \in SUBSET in :
          /\ IsNewestFirst(runs, in, f.limit, shown)
          /\ call' = [call EXCEPT ![c].pc = "done", ![c].outcome = "ok", ![c].shown = shown]
  /\ UNCHANGED <<runs, episodes, newest>>

\* No connection from the pool in time, the statement cancelled, the connection
\* lost before it commits, or no write pool at all: nothing is written.
Fail(c) ==
  /\ call[c].pc \in {"resolving", "writing", "listing"}
  /\ Answered(c, "error")
  /\ UNCHANGED <<runs, episodes, newest>>

-----------------------------------------------------------------------------
Ask(c) ==
  \E who \in Callers : \/ \E q \in Requests : AskVerdict(c, who, q)
                       \/ \E f \in Filters : AskList(c, who, f)

Proceed(c) == ResolveEpisode(c) \/ ResolveRun(c) \/ Record(c) \/ List(c) \/ Fail(c)

Platform ==
  \/ \E r \in RunIds, row \in Rows : ClaimRun(r, row)
  \/ \E e \in EpisodeIds : OpenEpisode(e)

Next == Platform \/ \E c \in Calls : Ask(c) \/ Proceed(c)

Spec == Init /\ [][Next]_vars

-----------------------------------------------------------------------------
(* Properties *)

CallRecord ==
  [pc: {"idle", "resolving", "writing", "listing", "done"}, who: Callers,
   req: Requests \cup Filters \cup {None}, found: RunIds \cup EpisodeIds \cup {None},
   wrote: BOOLEAN, outcome: {"ok", "refused", "error", None}, shown: SUBSET RunIds]

\* Every variable keeps the shape the tables and the two tools give it.
TypeOK ==
  /\ runs \in [RunIds -> Row \cup {None}]
  /\ episodes \in [EpisodeIds -> VerdictsOn.episode \cup {"unjudged", None}]
  /\ call \in [Calls -> CallRecord]
  /\ newest \in [Calls -> SUBSET RunIds]

JudgedRun(c) == call[c].wrote /\ call[c].found \in RunIds

\* "A run is judged only where the caller may read it": whatever happens between
\* the lookup and the UPDATE by id, the run a call has written is the caller's
\* own or a machine's (verdicts.py, _judge_run and _resolve_run).
JudgedIsReadable ==
  \A c \in Calls : JudgedRun(c) => call[c].found \in Visible(call[c].who)

\* The run written is one the request names: the id it gave, a run on the
\* subject it gave, or the caller's own chat run.
JudgedIsNamed ==
  \A c \in Calls :
    JudgedRun(c) => Addresses(call[c].req, call[c].who, call[c].found, runs[call[c].found])

\* "The newest run on that subject": rows may be claimed between the lookup and
\* the write, so the run judged need not be the newest when the answer arrives,
\* but it was the newest at some moment while the call was open.
JudgedWasNewest ==
  \A c \in Calls : JudgedRun(c) => call[c].found \in newest[c]

\* A verdict in the ledger or on an episode is the word of a call that wrote it
\* there: no call that was refused, and no failure without a write, leaves one.
VerdictHasAuthor ==
  LET Wrote(x, v) == \E c \in Calls : /\ call[c].wrote
                                      /\ call[c].found = x
                                      /\ call[c].req.verdict = v
  IN /\ \A r \in RunIds : runs[r] # None /\ runs[r].verdict # None => Wrote(r, runs[r].verdict)
     /\ \A e \in EpisodeIds : episodes[e] \in Words => Wrote(e, episodes[e])

\* list_runs shows a caller no other person's run.
ShownIsReadable ==
  \A c \in Calls : call[c].shown \subseteq Visible(call[c].who)
=============================================================================
