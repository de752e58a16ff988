------------------------------- MODULE DbPool -------------------------------
(***************************************************************************)
(* How db.py shares the database: two bounded pools, whose connections are *)
(* taken for one statement each and given back before the next, and worker *)
(* threads for the jobs that block, each on a connection of its own that   *)
(* no pool counts.                                                         *)
(*                                                                         *)
(* The pools and the threads are libraries', modelled from their use: a    *)
(* pool hands out the connection that has been idle the longest, serves    *)
(* those in line in their order, and grows while somebody waits.           *)
(***************************************************************************)
EXTENDS Naturals, Sequences, SequencesExt, FiniteSets

CONSTANTS
  Users,    \* who takes connections: the tool calls and the readiness probe
  Pools,    \* the read pool and the write pool
  PoolMin,  \* [Pools -> Nat]: db_pool_min, and 0
  PoolMax,  \* [Pools -> Nat]: db_pool_max, and _WRITE_POOL_MAX
  Workers,  \* the threads of the default executor
  None      \* no connection, no job

\* What somebody holds: a connection of a pool, and whether an outage broke it.
Connections == [pool : Pools, conn : {"good", "broken"}]

ASSUME PoolAssumption ==
  /\ PoolMin \in [Pools -> Nat] /\ PoolMax \in [Pools -> Nat \ {0}]
  /\ \A p \in Pools : PoolMin[p] <= PoolMax[p]
  /\ IsFiniteSet(Users) /\ "gone" \notin Users
  /\ None \notin Users \cup {"gone"} \cup Connections

VARIABLES
  db,       \* whether the database is up
  idle,     \* the connections a pool can give at once: sequences of "good" and "broken"
  waiting,  \* the users in line for a connection of a pool
  held,     \* the [pool, conn] a user has taken, or None
  backlog,  \* the users whose job waits for a thread
  threads   \* the user a thread works for, "gone" if that one no longer waits, or None

dbVars == <<db, idle, waiting, held, backlog, threads>>
connections == <<idle, waiting, held>>
jobs == <<backlog, threads>>

Empty == [p \in Pools |-> <<>>]
NobodyHolds == [u \in Users |-> None]

PoolInit ==
  /\ db \in BOOLEAN
  /\ idle = Empty
  /\ waiting = Empty
  /\ held = NobodyHolds
  /\ backlog = <<>>
  /\ threads = [w \in Workers |-> None]

Waits(u) == \E p \in Pools : u \in ToSet(waiting[p])
Taken(p) == Cardinality({u \in Users : held[u] # None /\ held[u].pool = p})
Open(p) == Len(idle[p]) + Taken(p)

-----------------------------------------------------------------------------
(* Connections *)

\* pool.connection(): an idle one at once, or a place in the line.
Take(u, p) ==
  /\ held[u] = None
  /\ ~Waits(u)
  /\ IF idle[p] # <<>>
     THEN /\ held' = [held EXCEPT ![u] = [pool |-> p, conn |-> Head(idle[p])]]
          /\ idle' = [idle EXCEPT ![p] = Tail(@)]
          /\ UNCHANGED waiting
     ELSE /\ waiting' = [waiting EXCEPT ![p] = Append(@, u)]
          /\ UNCHANGED <<idle, held>>

\* The end of its block: the connection goes to the first in line, or is idle.
GiveBack(u) ==
  LET p == held[u].pool
  IN IF waiting[p] # <<>>
     THEN /\ held' = [held EXCEPT ![u] = None, ![Head(waiting[p])] = held[u]]
          /\ waiting' = [waiting EXCEPT ![p] = Tail(@)]
          /\ UNCHANGED idle
     ELSE /\ held' = [held EXCEPT ![u] = None]
          /\ idle' = [idle EXCEPT ![p] = Append(@, held[u].conn)]
          /\ UNCHANGED waiting

\* A connection that broke is not given back.
Discard(u) ==
  /\ held' = [held EXCEPT ![u] = None]
  /\ UNCHANGED <<idle, waiting>>

\* A new connection, for the minimum or for somebody in line.
Connect(p) ==
  /\ db
  /\ Open(p) < PoolMax[p]
  /\ IF waiting[p] # <<>>
     THEN /\ held' = [held EXCEPT ![Head(waiting[p])] = [pool |-> p, conn |-> "good"]]
          /\ waiting' = [waiting EXCEPT ![p] = Tail(@)]
          /\ UNCHANGED idle
     ELSE /\ Open(p) < PoolMin[p]
          /\ idle' = [idle EXCEPT ![p] = Append(@, "good")]
          /\ UNCHANGED <<waiting, held>>
  /\ UNCHANGED <<db, jobs>>

\* The pool's timeout is longer than a connection takes to open: it passes while the
\* database is away, or while others hold every connection.
TimesOut(u) ==
  \E p \in Pools :
    /\ u \in ToSet(waiting[p])
    /\ ~db \/ Taken(p) = PoolMax[p]
    /\ waiting' = [waiting EXCEPT ![p] = RemoveFirst(@, u)]
    /\ UNCHANGED <<idle, held>>

\* An outage breaks every connection there is.
DbDown ==
  /\ db
  /\ db' = FALSE
  /\ idle' = [p \in Pools |-> [i \in DOMAIN idle[p] |-> "broken"]]
  /\ held' = [u \in Users |-> IF held[u] = None THEN None ELSE [held[u] EXCEPT !.conn = "broken"]]
  /\ UNCHANGED <<waiting, jobs>>

DbUp ==
  /\ ~db
  /\ db' = TRUE
  /\ UNCHANGED <<connections, jobs>>

-----------------------------------------------------------------------------
(* Jobs in threads *)

Submit(u) ==
  /\ u \notin ToSet(backlog) \cup {threads[w] : w \in Workers}
  /\ backlog' = Append(backlog, u)
  /\ UNCHANGED threads

Start(w) ==
  /\ threads[w] = None
  /\ backlog # <<>>
  /\ threads' = [threads EXCEPT ![w] = Head(backlog)]
  /\ backlog' = Tail(backlog)

Finished(w) ==
  /\ threads' = [threads EXCEPT ![w] = None]
  /\ UNCHANGED backlog

-----------------------------------------------------------------------------
(* Users who are cancelled *)

\* In line, in the middle of a statement, or waiting for a job: a thread at work goes
\* on for nobody; a connection is given back, or discarded if it cannot be.
Abandon(u) ==
  /\ IF held[u] = None
     THEN /\ waiting' = [p \in Pools |-> RemoveFirst(waiting[p], u)]
          /\ UNCHANGED <<idle, held>>
     ELSE (held[u].conn = "good" /\ GiveBack(u)) \/ Discard(u)
  /\ backlog' = RemoveFirst(backlog, u)
  /\ threads' = [w \in Workers |-> IF threads[w] = u THEN "gone" ELSE threads[w]]

\* Everybody at once, when the server stops.
AbandonAll ==
  /\ waiting' = Empty
  /\ held' = NobodyHolds
  /\ backlog' = <<>>
  /\ threads' = [w \in Workers |-> IF threads[w] = None THEN None ELSE "gone"]

=============================================================================
