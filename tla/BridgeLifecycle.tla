-------------------------- MODULE BridgeLifecycle --------------------------
(***************************************************************************)
(* A bridge process from its start to its end, and the next one after it:  *)
(* the lifespan opens pools and clients one by one, serves, and closes     *)
(* them one by one, while the database and NATS come and go and a mounted  *)
(* key may be empty.  Its calls and its readiness probe share the pools    *)
(* and the threads of DbPool; readiness is what /healthz said last.        *)
(***************************************************************************)
EXTENDS DbPool

CONSTANTS
  Calls,    \* identities of tool calls
  Probe,    \* the readiness probe
  Enabled,  \* the resources the settings ask for
  Programs  \* what tools use, one after the other: resources, and "thread"

\* In the order the lifespan opens them.
OpenOrder == <<"tracing", "read pool", "write pool", "nats", "wiki", "writer", "pbs", "s3",
               "trigger", "metrics">>

\* What each step of the shutdown closes, one after the other.
CloseOrder ==
  <<<<"metrics">>, <<"wiki", "writer">>, <<"pbs">>, <<"s3">>, <<"trigger">>, <<"nats">>,
    <<"read pool", "write pool">>, <<"tracing">>>>

Resources == ToSet(OpenOrder)
WithKeyFile == {"wiki", "writer", "pbs", "s3", "trigger"}

ASSUME LifecycleAssumption ==
  /\ {"read pool", "metrics"} \subseteq Enabled /\ Enabled \subseteq Resources
  /\ Pools = {"read pool", "write pool"} /\ PoolMin["read pool"] > 0
  /\ Users = Calls \cup {Probe} /\ Probe \notin Calls
  /\ None \notin {"settings", "outage", "stopped", "close"}
  /\ Programs \subseteq Seq((Enabled \ {"tracing", "metrics"}) \cup {"thread"}) \ {<<>>}

VARIABLES
  phase,   \* of the process: "starting", "serving", "stopping", "exited"
  step,    \* the step of OpenOrder or CloseOrder that is next
  open,    \* the resources that are open
  calls,   \* what a running call has still to use, or <<>>
  nats,    \* whether the NATS server is up
  empty,   \* the key files that are mounted but empty
  ready,   \* the last answer of /healthz, or None
  cause    \* history: why the process ended

vars == <<dbVars, phase, step, open, calls, nats, empty, ready, cause>>
process == <<phase, step, open, cause>>
others == <<nats, empty>>

KeyFiles == {{}} \cup {{r} : r \in WithKeyFile \cap Enabled}

NoCalls == [c \in Calls |-> <<>>]

Init ==
  /\ PoolInit
  /\ phase = "starting"
  /\ step = 1
  /\ open = {}
  /\ calls = NoCalls
  /\ nats \in BOOLEAN
  /\ empty \in KeyFiles
  /\ ready = None
  /\ cause = None

-----------------------------------------------------------------------------
(* The services around it *)

DatabaseTurns ==
  /\ DbDown \/ DbUp
  /\ UNCHANGED <<process, calls, others, ready>>

NatsTurns ==
  /\ nats' = ~nats
  /\ UNCHANGED <<dbVars, process, calls, empty, ready>>

\* A process that ended is started again, with the key files of that time: what its
\* threads still did is over, or was killed.
Restart ==
  /\ phase = "exited"
  /\ phase' = "starting"
  /\ step' = 1
  /\ open' = {}
  /\ cause' = None
  /\ idle' = Empty
  /\ threads' = [w \in Workers |-> None]
  /\ ready' = None
  /\ empty' \in KeyFiles
  /\ UNCHANGED <<db, waiting, held, backlog, calls, nats>>

-----------------------------------------------------------------------------
(* The lifespan *)

Exit(why) ==
  /\ phase' = "exited"
  /\ cause' = why

\* Opening r does not fail: the pool waits for its connections, NATS for its server.
\* The write pool has none to wait for.
CanOpen(r) ==
  /\ r = "read pool" => db
  /\ r = "nats" => nats
  /\ r \notin empty

Filled(r) == IF r = "read pool" THEN [idle EXCEPT ![r] = [i \in 1..PoolMin[r] |-> "good"]] ELSE idle

\* Mutant of Open: what the settings do not ask for is opened as well.
OpenAll ==
  /\ phase = "starting"
  /\ LET r == OpenOrder[step]
     IN /\ CanOpen(r)
        /\ open' = open \cup {r}
        /\ idle' = Filled(r)
        /\ phase' = IF step = Len(OpenOrder) THEN "serving" ELSE "starting"
        /\ step' = IF step = Len(OpenOrder) THEN 1 ELSE step + 1
  /\ UNCHANGED <<db, waiting, held, jobs, calls, others, ready, cause>>

\* One step of the start: a resource the settings do not ask for is passed over.
OpenNext ==
  /\ phase = "starting"
  /\ LET r == OpenOrder[step]
     IN /\ r \in Enabled => CanOpen(r)
        /\ open' = IF r \in Enabled THEN open \cup {r} ELSE open
        /\ idle' = Filled(r)
        /\ phase' = IF step = Len(OpenOrder) THEN "serving" ELSE "starting"
        /\ step' = IF step = Len(OpenOrder) THEN 1 ELSE step + 1
  /\ UNCHANGED <<db, waiting, held, jobs, calls, others, ready, cause>>

\* The pool gives up after 10 s, a key file is empty: what was opened before stays open,
\* and the process ends with it.  A NATS server that is away is tried again without end
\* (max_reconnect_attempts=-1), and the start waits for it.
OpenFails ==
  /\ phase = "starting"
  /\ OpenOrder[step] # "nats"
  /\ OpenOrder[step] \in Enabled /\ ~CanOpen(OpenOrder[step])
  /\ Exit(IF OpenOrder[step] \in empty THEN "settings" ELSE "outage")
  /\ UNCHANGED <<dbVars, step, open, calls, others, ready>>

\* Mutant of Stop: the clients close under the calls.
StopUnderCalls ==
  /\ phase = "serving"
  /\ phase' = "stopping"
  /\ step' = 1
  /\ UNCHANGED <<dbVars, open, calls, others, ready, cause>>

\* The server stops: the MCP application's own lifespan ends first, and with it
\* every call.
Stop ==
  /\ phase = "serving"
  /\ phase' = "stopping"
  /\ step' = 1
  /\ calls' = NoCalls
  /\ AbandonAll
  /\ UNCHANGED <<db, idle, open, others, ready, cause>>

CloseStep(closed) ==
  /\ open' = open \ closed
  /\ idle' = [p \in Pools |-> IF p \in closed THEN <<>> ELSE idle[p]]
  /\ IF step = Len(CloseOrder) THEN Exit("stopped") /\ UNCHANGED step
                               ELSE step' = step + 1 /\ UNCHANGED <<phase, cause>>
  /\ UNCHANGED <<db, waiting, held, jobs, calls, others, ready>>

\* Mutant of Close: the metrics thread is joined before its server is shut down.
CloseJoined == phase = "stopping" /\ step # 1 /\ CloseStep(ToSet(CloseOrder[step]))

Close == phase = "stopping" /\ CloseStep(ToSet(CloseOrder[step]))

\* A close that raises is the last.  What the drain of NATS raises is suppressed.
CloseFails ==
  /\ phase = "stopping"
  /\ \E i \in DOMAIN CloseOrder[step] :
       /\ CloseOrder[step][i] \in open \ {"nats"}
       /\ open' = open \ {CloseOrder[step][j] : j \in 1..(i - 1)}
  /\ Exit("close")
  /\ UNCHANGED <<dbVars, step, calls, others, ready>>

-----------------------------------------------------------------------------
(* Serving: the calls *)

Begin(c) ==
  /\ phase = "serving"
  /\ calls[c] = <<>>
  /\ \E program \in Programs : calls' = [calls EXCEPT ![c] = program]
  /\ UNCHANGED <<dbVars, process, others, ready>>

Uses(c, kinds) == calls[c] # <<>> /\ Head(calls[c]) \in kinds

\* A call goes on with what comes next, or ends with what was raised.
Passes(c) == calls' = [calls EXCEPT ![c] = Tail(@)]
Raises(c) == calls' = [calls EXCEPT ![c] = <<>>]

\* A connection for one statement.
Request(c) ==
  /\ Uses(c, Pools)
  /\ Take(c, Head(calls[c]))
  /\ UNCHANGED <<db, jobs, process, calls, others, ready>>

\* Mutant of Statement: only a statement that succeeds gives its connection back.
StatementLeaking(c) ==
  /\ Uses(c, Pools) /\ held[c] # None
  /\ \/ held[c].conn = "good" /\ GiveBack(c) /\ Passes(c)
     \/ held[c].conn = "good" /\ UNCHANGED connections /\ Raises(c)
     \/ held[c].conn = "broken" /\ Discard(c) /\ Raises(c)
  /\ UNCHANGED <<db, jobs, process, others, ready>>

\* _execute: whether it succeeds or raises, the connection goes back.
Statement(c) ==
  /\ Uses(c, Pools) /\ held[c] # None
  /\ \/ held[c].conn = "good" /\ GiveBack(c) /\ (Passes(c) \/ Raises(c))
     \/ held[c].conn = "broken" /\ Discard(c) /\ Raises(c)
  /\ UNCHANGED <<db, jobs, process, others, ready>>

NoConnection(c) ==
  /\ TimesOut(c)
  /\ Raises(c)
  /\ UNCHANGED <<db, jobs, process, others, ready>>

\* A request over a client.
UseClient(c) ==
  /\ Uses(c, Enabled \ Pools)
  /\ Passes(c) \/ Raises(c)
  /\ UNCHANGED <<dbVars, process, others, ready>>

\* blocking_read, and boto3: a job in a thread.
HandOver(c) ==
  /\ Uses(c, {"thread"})
  /\ Submit(c)
  /\ UNCHANGED <<db, connections, process, calls, others, ready>>

StartJob(w) ==
  /\ Start(w)
  /\ UNCHANGED <<db, connections, process, calls, others, ready>>

\* A job of a call that was cancelled ends for nobody.
EndJob(w) ==
  /\ threads[w] # None
  /\ Finished(w)
  /\ IF threads[w] = "gone" THEN UNCHANGED calls ELSE Passes(threads[w]) \/ Raises(threads[w])
  /\ UNCHANGED <<db, connections, process, others, ready>>

Cancel(c) ==
  /\ calls[c] # <<>>
  /\ Abandon(c)
  /\ Raises(c)
  /\ UNCHANGED <<db, process, others, ready>>

-----------------------------------------------------------------------------
(* Serving: the probe *)

\* healthcheck takes a connection like everybody else.
Ask ==
  /\ phase = "serving"
  /\ Take(Probe, "read pool")
  /\ UNCHANGED <<db, jobs, process, calls, others, ready>>

\* Mutant of Answer: a connection goes back to the pool whatever became of it.
AnswerKeeping ==
  /\ held[Probe] # None
  /\ ready' = (held[Probe].conn = "good")
  /\ GiveBack(Probe)
  /\ UNCHANGED <<db, jobs, process, calls, others>>

\* SELECT 1: a broken connection fails the probe and is discarded.
Answer ==
  /\ held[Probe] # None
  /\ ready' = (held[Probe].conn = "good")
  /\ IF held[Probe].conn = "good" THEN GiveBack(Probe) ELSE Discard(Probe)
  /\ UNCHANGED <<db, jobs, process, calls, others>>

\* No connection comes free in time.
AskFails ==
  /\ TimesOut(Probe)
  /\ ready' = FALSE
  /\ UNCHANGED <<db, jobs, process, calls, others>>

\* A pool that is open keeps its minimum, and grows for those in line.
Refill(p) ==
  /\ p \in open
  /\ Connect(p)
  /\ UNCHANGED <<process, calls, others, ready>>

-----------------------------------------------------------------------------
Next ==
  \/ DatabaseTurns \/ NatsTurns \/ Restart
  \/ OpenNext \/ OpenFails \/ Stop \/ Close \/ CloseFails
  \/ \E c \in Calls : \/ Begin(c) \/ Request(c) \/ Statement(c) \/ NoConnection(c)
                      \/ UseClient(c) \/ HandOver(c) \/ Cancel(c)
  \/ \E w \in Workers : StartJob(w) \/ EndJob(w)
  \/ Ask \/ Answer \/ AskFails
  \/ \E p \in Pools : Refill(p)

Spec == Init /\ [][Next]_vars

\* The process goes on when it can, is started again and probed; a call goes on when
\* it can, a statement ends, and a pool connects for those in line.  Nothing is
\* assumed of timeouts, of cancels, or of jobs in threads, which may never end.
Fairness ==
  /\ WF_vars(OpenNext) /\ WF_vars(Close) /\ WF_vars(Restart)
  /\ WF_vars(Ask) /\ WF_vars(Answer)
  /\ \A p \in Pools : WF_vars(waiting[p] # <<>> /\ Refill(p))
  /\ \A c \in Calls : WF_vars(Request(c)) /\ WF_vars(Statement(c)) /\ WF_vars(UseClient(c))

FairSpec == Spec /\ Fairness

-----------------------------------------------------------------------------
(* Properties *)

\* A pool never has more connections than it may, and none is idle while somebody is
\* in line; who holds one is at a statement of that pool, and is not in line.
TypeOK ==
  /\ phase \in {"starting", "serving", "stopping", "exited"}
  /\ step \in 1..Len(IF phase = "starting" THEN OpenOrder ELSE CloseOrder) \/ phase = "exited"
  /\ open \subseteq Enabled
  /\ ready \in BOOLEAN \cup {None}
  /\ phase = "exited" <=> cause # None
  /\ \A p \in Pools : Open(p) <= PoolMax[p] /\ (waiting[p] = <<>> \/ idle[p] = <<>>)
  /\ \A u \in Users : held[u] # None => ~Waits(u)
  /\ \A c \in Calls : held[c] # None => Uses(c, {held[c].pool})

\* A call is traced and finds its pool or client open, from its beginning to its end,
\* also while the bridge starts and stops: "before the pools and clients open, so
\* their queries and calls are traced" (build_app), and tracing ends last.
CallsFindTheirs ==
  /\ open # {} /\ "tracing" \in Enabled => "tracing" \in open
  /\ \A c \in Calls : ToSet(calls[c]) \subseteq open \cup {"thread"}

\* With the database and NATS back for good and its key files in order, the bridge
\* serves again and again, whatever ended the processes before.
ServesAgain == <>[](db /\ nats /\ empty = {}) => []<>(phase = "serving")

\* A bridge whose database is back for good becomes ready without a restart, and
\* stays so, unless calls come to hold every connection: each connection an outage
\* broke fails one probe at most, and threads that hang do not matter.
ReadinessReturns ==
  <>[](phase = "serving" /\ db
       /\ Cardinality({c \in Calls : held[c] # None /\ held[c].pool = "read pool"})
            < PoolMax["read pool"])
    => <>[](ready = TRUE)

\* With the database up no call on the pools or a client waits for ever, without a
\* timeout and however many come: nobody holds a connection while waiting for
\* another, and what is given back goes to those in line.
CallsEnd ==
  \A c \in Calls : <>[]db => []<>(calls[c] = <<>> \/ "thread" \in ToSet(calls[c]))

=============================================================================
