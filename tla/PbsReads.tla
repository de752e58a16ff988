------------------------------ MODULE PbsReads ------------------------------
(***************************************************************************)
(* The backup server's tools.  list_pbs_datastores asks three things at    *)
(* once, the usage, the garbage collection and the verify jobs, each       *)
(* answered at a moment of its own, and joins them by the datastore's name *)
(* while datastores and jobs come, run and go.  The first request that     *)
(* fails fails the call, and the others run on for nobody.                 *)
(*                                                                         *)
(* list_pbs_snapshots and list_pbs_tasks are one request each; what it     *)
(* finds is chosen when it is answered.  Calls only read, so one call      *)
(* against the moving server is every call.                                *)
(***************************************************************************)
EXTENDS Cuts, Functions

CONSTANTS
  Stores,       \* the datastores, in the order the server lists them
  VerifyJobs,   \* [id, store]
  Snapshots,    \* [group, at]: what a datastore may hold, in the order the server lists them
  TaskTimes,    \* when tasks of the log may have started
  DaysAgo,      \* the moments a span of days may go back to; 0 stands for no span
  MaxPbsEvents  \* bound: how often the server changes

ASSUME PbsAssumption ==
  /\ Stores \in Seq(STRING) /\ IsInjective(Stores)
  /\ VerifyJobs \subseteq [id : STRING, store : Range(Stores)]
  /\ Snapshots \in Seq([group : Nat, at : Nat])
  /\ TaskTimes \subseteq Nat /\ IsFiniteSet(TaskTimes) /\ DaysAgo \subseteq Nat
  /\ MaxPbsEvents \in Nat

Runs == {"never", "ok", "failed"}  \* last-run-state of a job
Verifications == {"ok", "failed", "unverified"}
Requests == {"usage", "gc", "verify"}

VARIABLES
  gc,         \* the last garbage collection of a datastore, or "none": it is not there
  jobs,       \* the last run of a verify job, or "none": it is not there
  pbsEvents,  \* how often the server has changed
  report      \* the call: [pc, limit, since, open, got, answer, met, ever]

pbsVars == <<gc, jobs, pbsEvents, report>>

\* History of a call: what the datastores and the jobs were at some time of it.
NoReport == [pc |-> "idle", limit |-> 0, since |-> 0, open |-> {}, got |-> <<>>, answer |-> <<>>,
             metGc |-> {}, metJobs |-> {}]

PbsInit ==
  /\ gc \in [Range(Stores) -> {"none", "never"}]
  /\ jobs = [j \in VerifyJobs |-> IF gc[j.store] = "none" THEN "none" ELSE "never"]
  /\ pbsEvents = 0
  /\ report = NoReport

-----------------------------------------------------------------------------
(* The backup server *)

Happens ==
  /\ pbsEvents < MaxPbsEvents
  /\ pbsEvents' = pbsEvents + 1

\* A call under way takes note of what is.
Noted ==
  report' = IF report.pc = "reading"
            THEN [report EXCEPT !.metGc = @ \cup {gc'}, !.metJobs = @ \cup {jobs'}]
            ELSE report

AddStore(s) ==
  /\ Happens
  /\ gc[s] = "none"
  /\ gc' = [gc EXCEPT ![s] = "never"]
  /\ UNCHANGED jobs
  /\ Noted

\* A datastore's jobs go with it.
RemoveStore(s) ==
  /\ Happens
  /\ gc[s] # "none"
  /\ gc' = [gc EXCEPT ![s] = "none"]
  /\ jobs' = [j \in VerifyJobs |-> IF j.store = s THEN "none" ELSE jobs[j]]
  /\ Noted

CollectGarbage(s) ==
  /\ Happens
  /\ gc[s] # "none"
  /\ \E end \in {"ok", "failed"} : gc' = [gc EXCEPT ![s] = end]
  /\ UNCHANGED jobs
  /\ Noted

\* A job is made, runs or is removed.
ChangeJob(j) ==
  /\ Happens
  /\ gc[j.store] # "none"
  /\ \E state \in Runs \cup {"none"} : jobs' = [jobs EXCEPT ![j] = state]
  /\ UNCHANGED gc
  /\ Noted

-----------------------------------------------------------------------------
(* list_pbs_datastores *)

There == Kept(Stores, {s \in Range(Stores) : gc[s] # "none"})

\* What a request is answered; a list of jobs is a set, no two of one name.
Found(r) ==
  CASE r = "usage"  -> There
    [] r = "gc"     -> [i \in DOMAIN There |-> [store |-> There[i], run |-> gc[There[i]]]]
    [] r = "verify" -> {[job |-> j, run |-> jobs[j]] : j \in {k \in VerifyJobs : jobs[k] # "none"}}

\* Mutant of GcOf: the answers are taken to list the same datastores.
GcAtPlace(usage, listed, i) == IF i \in DOMAIN listed THEN listed[i].run ELSE "none"

\* gc_by_store: the garbage collection of the i-th datastore, if there is one of its name.
GcOf(usage, listed, i) ==
  LET named == {n \in DOMAIN listed : listed[n].store = usage[i]}
  IN IF named = {} THEN "none" ELSE listed[Max(named)].run

Joined(got) ==
  [i \in DOMAIN got["usage"] |->
     [name |-> got["usage"][i],
      gc |-> GcOf(got["usage"], got["gc"], i),
      verify |-> {v \in got["verify"] : v.job.store = got["usage"][i]}]]

AskDatastores ==
  /\ report.pc = "idle"
  /\ report' = [report EXCEPT !.pc = "reading", !.open = Requests,
                              !.metGc = {gc}, !.metJobs = {jobs}]
  /\ UNCHANGED <<gc, jobs, pbsEvents>>

\* gather: the last of the answers makes the report.
AnswerRequest(r) ==
  /\ report.pc = "reading"
  /\ r \in report.open
  /\ LET got == [q \in DOMAIN report.got \cup {r} |-> IF q = r THEN Found(r) ELSE report.got[q]]
     IN report' = IF report.open = {r}
                  THEN [report EXCEPT !.pc = "datastores", !.open = {}, !.got = <<>>,
                                      !.answer = Joined(got)]
                  ELSE [report EXCEPT !.open = @ \ {r}, !.got = got]
  /\ UNCHANGED <<gc, jobs, pbsEvents>>

\* A refusal, an error, no answer: gather raises the first and leaves the others be.
RequestRefused(r) ==
  /\ report.pc = "reading"
  /\ r \in report.open
  /\ report' = [report EXCEPT !.pc = "failed", !.open = @ \ {r}, !.got = <<>>]
  /\ UNCHANGED <<gc, jobs, pbsEvents>>

RunsOn(r) ==
  /\ report.pc = "failed"
  /\ r \in report.open
  /\ report' = [report EXCEPT !.open = @ \ {r}]
  /\ UNCHANGED <<gc, jobs, pbsEvents>>

-----------------------------------------------------------------------------
(* list_pbs_snapshots, list_pbs_tasks *)

\* The snapshots come in the server's order and are sorted here; the counts are of all of them.
SnapshotsAnswer(listed, limit) ==
  [counts |-> [v \in Verifications |-> Cardinality({i \in DOMAIN listed : listed[i].verified = v})],
   count |-> Len(listed),
   truncated |-> Truncated(listed, limit),
   shown |-> Cut(NewestFirst(listed), limit)]

Refuse == report' = [report EXCEPT !.pc = "refused"]

ListSnapshots(limit) ==
  /\ report.pc = "idle"
  /\ IF limit = 0 THEN Refuse
     ELSE \E held \in SUBSET Range(Snapshots) : \E verified \in [held -> Verifications] :
            LET there == Kept(Snapshots, held)
                listed == [i \in DOMAIN there |-> [group |-> there[i].group, at |-> there[i].at,
                                                   verified |-> verified[there[i]]]]
            IN report' = [report EXCEPT !.pc = "snapshots", !.limit = Cap(limit), !.got = listed,
                                        !.answer = SnapshotsAnswer(listed, Cap(limit))]
  /\ UNCHANGED <<gc, jobs, pbsEvents>>

\* Mutant of Wanted: as many as will be shown.
WantedOnly(limit) == limit

\* One more than asked, so a cut list says so.
Wanted(limit) == limit + 1

\* The server's log is newest first, cut where the request says.
ListTasks(since, limit) ==
  /\ report.pc = "idle"
  /\ IF since = 0 \/ limit = 0 THEN Refuse
     ELSE \E log \in SUBSET TaskTimes :
            LET entries == Descending({t \in log : t >= since})
                sent == Cut(entries, Wanted(Cap(limit)))
            IN report' = [report EXCEPT
                 !.pc = "tasks", !.limit = Cap(limit), !.since = since, !.got = log,
                 !.answer = [truncated |-> Truncated(sent, Cap(limit)),
                             shown |-> Cut(sent, Cap(limit))]]
  /\ UNCHANGED <<gc, jobs, pbsEvents>>

-----------------------------------------------------------------------------
PbsNext ==
  \/ \E s \in Range(Stores) : AddStore(s) \/ RemoveStore(s) \/ CollectGarbage(s)
  \/ \E j \in VerifyJobs : ChangeJob(j)
  \/ AskDatastores
  \/ \E r \in Requests : AnswerRequest(r) \/ RequestRefused(r) \/ RunsOn(r)
  \/ \E limit \in Limits : ListSnapshots(limit)
  \/ \E since \in DaysAgo, limit \in Limits : ListTasks(since, limit)

PbsSpec == PbsInit /\ [][PbsNext]_pbsVars

-----------------------------------------------------------------------------
(* Properties *)

\* "A job that never ran has no last state" (pbs.py): what a report says of a datastore
\* was true of that datastore at some time of the call, "no job" too, although the
\* three answers are of different moments.  Nothing that was there all through is
\* missing, and no request that failed passes for a datastore without jobs.
JobsAreTheirs ==
  report.pc = "datastores" =>
    LET told == report.answer
        named(s) == {i \in DOMAIN told : told[i].name = s}
        throughout(s) == \A m \in report.metGc : m[s] # "none"
    IN /\ \A s \in Range(Stores) : Cardinality(named(s)) <= 1 /\ (throughout(s) => named(s) # {})
       /\ \A i \in DOMAIN told :
            /\ \E m \in report.metGc : m[told[i].name] # "none"
            /\ \E m \in report.metGc : m[told[i].name] = told[i].gc
            /\ \A j \in VerifyJobs :
                 LET said == {v \in told[i].verify : v.job = j}
                 IN IF j.store = told[i].name
                    THEN \E m \in report.metJobs :
                           said = IF m[j] = "none" THEN {} ELSE {[job |-> j, run |-> m[j]]}
                    ELSE said = {}

\* "So a cut list says so" (pbs.py): a list shows the newest there are, the numbers
\* beside it are of all of them, and it says that something is missing when, and only
\* when, something is.
PbsCutsTold ==
  /\ report.pc = "snapshots" =>
       LET a == report.answer
       IN /\ Len(a.shown) = Min({report.limit, a.count})
          /\ a.truncated <=> Len(a.shown) < Len(report.got)
          /\ a.counts["ok"] + a.counts["failed"] + a.counts["unverified"] = a.count
          /\ \A e \in Range(report.got) \ Range(a.shown), f \in Range(a.shown) : e.at <= f.at
  /\ report.pc = "tasks" =>
       LET a == report.answer
           missing == {t \in report.got : t >= report.since} \ Range(a.shown)
       IN /\ a.truncated <=> missing # {}
          /\ \A t \in missing, u \in Range(a.shown) : t < u
          /\ Len(a.shown) <= RowLimit
=============================================================================
