# lares-mcp-bridge in TLA+

The bridge is a Python server that gives language models a fixed set of tools
over a home's database, its message bus and a few services. Each tool is a
short `async` function. What is hard about it is not any one function but what
happens *between* its awaits: other callers, the agent platform, the detection
chain, people and the bus all move on while a tool holds something it has read.
The modules here model those gaps. TLC checks them on small instances, and TLAPS
proves what TLC checks, liveness aside, for every instance.

## The system and its parts

| Part | Source (`src/src/lares_mcp_bridge/`) | State it keeps | Operations |
| --- | --- | --- | --- |
| Gateway admission | `auth.py` | none; binds `client_id`, `enduser.id` in the request's context | admit, refuse |
| Call pipeline | `server.py` `ToolTelemetry`, `CallerOnSpan` | counters, span | run a tool, turn `ValueError` into a result, pass errors on |
| Lifecycle, health | `server.py` `build_app`, `_livez`, `_healthz` | the process's clients | open in order, serve, close in order |
| Ledger tools | `tools/runs.py`, `tools/verdicts.py` | none; tables `agent_runs`, `episode_verdicts` | `list_runs`, `set_verdict` |
| Episode tools | `tools/episodes.py`, `tools/roles.py` | none; reads `episodes` and its tables | `list_episodes`, `get_episode` |
| Live tools | `tools/live.py`, `nats.py` | one NATS connection | `get_current_state`, `get_current_knx`, `subscribe_nats` |
| Wiki tools | `tools/wiki.py` | two HTTP clients | `search_wiki`, `list_wiki_pages`, `get_wiki_page`, `update_wiki_page` |
| Runs and memory | `tools/trigger.py`, `tools/memory.py` | one HTTP client | `start_run`, `get_memory`, `append_memory` |
| Database access | `db.py` | read pool, write pool, row limit, zone | `read`, `lookup`, `write`, `blocking_read`, `healthcheck` |
| Table catalog | `tools/sources.py` | a 60 s cache | `list_data_sources`, `get_schema`, `resolve` |
| Query tools | `tools/timeseries.py`, `domain.py`, `forecasts.py`, `presence.py`, `interval.py` | none | one or two statements and arithmetic each |
| Back-test | `tools/backtest.py` | none | the detection library in a worker thread |
| Backups, objects | `tools/pbs.py`, `tools/s3.py` | one client each | listings |
| Observability, settings | `metrics.py`, `tracing.py`, `logging_setup.py`, `config.py` | counters, exporter, settings | count, trace, log, validate |

Around the bridge, and external to it: the MCP gateway that names the caller,
the agent trigger (the only writer of `agent_runs` rows and of memory), the
detection chain (episodes, events, observations), the catalog import, the KNX
bus and its JetStream retention, Wiki.js with the people who edit it, and the
Proxmox and S3 services.

How they interact. A request passes `GatewayAuth`, which binds the caller to
the context; `ToolTelemetry` runs the tool and turns a `ValueError` into a
`refused` result. A tool reads through `db.read` (bounded, one row past the
limit to see an overflow) or `db.lookup` (whole), each a statement in
autocommit on a connection the pool hands out, so **two statements of one tool
are two snapshots**. Writes go through a second pool. Live tools share one NATS
connection, whose callbacks run in the same event loop as the calls. Nothing is
locked across an await, and the bridge keeps no data of its own besides the
catalog cache: all shared state is in the systems around it.

What is hard, and what correctness means there:

* **Lookup, then write by id** (`set_verdict`): the row is found with a
  visibility condition and written without one, on another pool. The write must
  still land only where the caller may read, and on the run the words named.
* **Six snapshots, one answer** (`get_episode`): what the parts tell must not
  contradict the row in the direction that matters.
* **List, then act** (`update_wiki_page`, `get_wiki_page`): people edit
  between the two requests; the write has no version to check against.
* **A callback, a queue, a deadline** (`subscribe_nats`): no message lost or
  swapped, no subscription left behind, and an end in any case.
* **A bounded fan-out** (`get_current_knx`): a failed request must not look
  like an address that never spoke; permits and tasks must not be lost.
* **Lost answers**: a statement may commit, or a mutation be done, while the
  call reports an error.
* **Reads in turn, one age** (`get_current_state`): a domain's subjects are
  read one after the other and judged by the newest of them.
* **Folding at the edges** (`query_presence`): changes at the window's start, two
  at one instant, people of whom nothing is known.
* **What the caller is told** (`GatewayAuth`, `ToolTelemetry`, the trigger): a
  refusal and a failure are told apart by the type of an exception, calls get
  cancelled, and an answer may be lost after its effect.
* **A cache filled by several callers** (`list_data_sources`): looked up before
  a walk of many awaits and filled after it.
* **Start, stop and outages** (`lifespan`, the probes): ten things open one by
  one and close in another order, and any step may fail.
* **A pool at its limit, worker threads that outlive their call** (`db.py`): a call
  takes up to six connections in a row from a pool that others share, waits for one
  up to the pool's timeout, and leaves its thread behind when it is cancelled.
* **One listing from several answers** (`list_s3_objects`, `list_s3_buckets`,
  `list_pbs_datastores`): pages and joined answers are of different moments.
* **Names looked up at one moment and used at another, overflows told in two ways**
  (the query tools): a table, a column, a room or a function may come or go between
  two statements; what is more than the row limit is refused by some tools and cut
  by others, and a width of no minutes is a division by zero.

`PROJECT.json` lists every hazard at its line, with the properties that would
catch it, or the reason why none does.

## The modules

### The ledger: `LedgerRows`, `Ledger`, `LedgerView`, `LedgerSeen`

`LedgerRows` has no state: the shape of an `agent_runs` row, what the tools'
arguments may be, and the conditions the statements put on a row
(`visible_to` = `MayRead`, `SUBJECT_KEY_MATCH` = `KeyMatches`, the argument
checks, the `WHERE` and `ORDER BY` clauses).

`Ledger` is the state machine. Variables: the two tables `runs` and `episodes`,
the calls, and a history of what each open call's address led to. Actions of
`set_verdict`: `AskVerdict` (argument checks), `ResolveRun` / `ResolveEpisode`
(the lookup on the read pool), `Record` (the write by id on the write pool; it
may commit and the answer still be lost). Actions of `list_runs`: `AskList`,
`List`. `Fail` is any statement that fails. The platform is `ClaimRun` and
`OpenEpisode`; a claimed row may be *older* than rows already visible, since
`created_at` is the start of the claiming transaction.

`LedgerView` is the abstract specification: the ledger as it is for one caller,
`Reader`, if other people's rows did not exist at all. It has no visibility
condition, because nothing in its state would have to be hidden. `LedgerSeen`
gives the refinement mapping, which drops the rows the reader may not read and the
calls of everybody else, and states `SeesOnlyOwnAndMachines`: the ledger implements
the view. This is the code's "a verdict never confirms that another person's run
exists" as one property over whole behaviours: a refusal, a found row, a listing
and the effects of others must all be explicable without the hidden rows.

### The episode bundle: `Roles`, `EpisodeBundle`

`Roles` is `tools/roles.py`: which datapoint of a device is a status, a command
or a reading. A catalog name is a device and the sequence of its datapoint's
words, so that suffix and prefix tests keep their meaning without strings.

`EpisodeBundle` runs one `get_episode`: `ReadRow`, `ReadEvents`,
`ReadObservations`, `ReadChannel`, `ReadSiblings`, `ReadExplanation`, one action per statement,
against `Appear`, `Evaluate`, `End`, `Explain` and `Import` of the platform.
Calls only read, so one call against the moving tables is every call.

### Wiki pages: `WikiPages`

Two calls, each a list followed by a source read, a create or an update by id,
with people creating, retagging, moving and deleting pages in between, and
answers that get lost after the mutation was done. `Remember` keeps how pages
stood while a call was open.

### The live watch: `NatsTail`

`subscribe_nats` with `nats.tail`: `Subscribe` (validation and subscription),
`OnMessage` (the callback), `Check` / `Receive` / `Timeout` (the loop),
`Cancel`, `Unsubscribe` (the `finally`). Around it `Publish`, `Register` (the
server takes note), `LinkDown`, `LinkUp` and `Close`. Messages are their
position in the order of publication; a subject is the sequence of its tokens,
and `Matches` is the server's wildcard rule. Time is a flag: the deadline may
pass at any point of the loop.

### KNX now: `KnxFanout`

`get_current_knx`: `ReadCatalog`, `ReadRoles` (two statements), then a read task
per address (`Acquire`, `Answer`, `Fail`) under the semaphore, `Cancel`, and
`Collect`, against `Publish` and `Import`. The first failure ends the call and
leaves its other tasks running, as `asyncio.gather` does. The names a row is judged
against are those of the *second* statement alone (`NamesOf`), while the row's own name is
of the first; `first` and `stood` are history: the catalog the call read its rows from, and
every catalog that stood while it was open.

### Live state: `LiveState`

`get_current_state`: `Refuse`, `Ask`, one `Read` (`last_msg`) per subject of
the question while `Publish` and `Tick` go on, then `Merge`, or `FallBack` to the
database where nothing was heard, or `Fail`. A message is the time the stream
stored it; `began` remembers the stream of the call's beginning.

### Presence: `Presence`

`query_presence` is one statement (`Points`: the last row of the look back,
`Opening`, and those of the window, `Inside`) and two loops: `Folded` applies `Fold` to
the changes of a person and `Spans` closes the last span; `Emptied` goes over the cuts
and joins the stretches with `Extend`, for `HouseEmpty`. They are kept as operators in
the order of the code and compared, by the properties, with `Truth`: what the table
tells of a person at a moment. Nothing keeps two rows of one datapoint from having one
time stamp, so `Record` allows it.

### The query tools: `QueryTools`

What a tool that reads the database makes of its arguments, in the order of the code
and without state: what it checks (`Checks`, `Refused`, `Lags`), which names it looks
up, how and in which order (`LookUps`: tables by `resolve` and `get_schema`, all else by a
statement), without which of them a statement does not run (`Identifiers`, `Runs`; PostgreSQL
computes `time_bucket` of every row it finds, so that a bucket of no width fails over any
row and over none is an empty answer), with which limit it reads (`Effective`: `cap`), and what it
makes of the rows (`Result`: `Fetched` rows are asked for, which is one more than is
shown; an overflow is a `ValueError` for the tools that aggregate and a flag for those
that list). Widths are numbers of quarters of an hour.

### The call pipeline: `CallPipeline`

A request from `GatewayAuth` to its counted outcome. `Arrive` admits it and binds
the caller. A querying tool is `Begin` (its checks), its look-ups, `Read` (the bounded
statement) and `StatementFails`, while `Change` lets names come and go. Columns, rooms and
functions are looked up by a statement of their own (`LookUp`); a table is looked up in the
catalog the calls share (`SeekIn`), which is in the `cache` (`Hit`), or which the call walks
itself (`Walk`, `WalkEnds`) and leaves there. A walk has two moments here, when it lists
the tables and when it finds their time columns, of which those in `Untimed` have none and
those dropped in between no longer any; `SourcesCache` has it statement by statement and with the
clock. `Expire` may empty the cache at any moment, not only after a minute: a superset. A
catalog carries its history, the names that were no table at some moment since its walk
began, and a call that is refused keeps the catalog that lacked its table. `Carry`, `Handle` (the trigger), `Hear` and `NoAnswer` are
`start_run` and `append_memory`. `FinishWith` and `Leave` are `ToolTelemetry` turning
what was raised into an outcome and counting it, and `GatewayAuth` unbinding the
caller; `Cancel` is a call cut off at an await, which the telemetry's `except
Exception` does not see and does not count. That every request runs in a context of
its own is the server's doing and assumed; so is that a 2xx of the trigger carries
JSON (one that does not would be told as a refusal, since `JSONDecodeError` is a
`ValueError`), and that arguments have their types when a tool begins, which the
framework validates.

### The table catalog: `SourcesCache`

`list_data_sources` statement by statement (`ListHypertables`, `ListAggregates`,
then `DetectColumn`, `ReadSpan`, `ReadNewest` for each source), the lookup of the
cache in `Ask` and its filling in `Proceed`, while `Create`, `Drop`, `Insert` and
`Retain` change the database. `Chosen` is `resolve`. A chunk stands for its rows, and every
source has a time column as long as it is there (`CallPipeline` has ones without). Each walk carries a history of
what it may have met, and takes it into the cache.

### The listings: `Cuts`, `S3Listing`, `PbsReads`, `Listings`

`Orders` puts a finite set on a list in an order (`Ascending`, `NewestFirst`), keeps
part of a list (`Kept`), and is used by all of these and by `Presence`. `Cuts` is the row
limit: how much a tool shows of what it found, and whether that is all. `S3Listing` is `tools/s3.py` over the store's pages: `AskObjects`, `AskBuckets`,
`ListBuckets`, `Page` and `RequestFails`, against `Put`, `Delete` and `DeleteBucket`;
a page starts after the last key of the one before. A key is a sequence of tokens,
so that `Child`, the fold into levels, splits it as the code does. `PbsReads` is
`tools/pbs.py`: the three requests of `list_pbs_datastores` (`AnswerRequest`,
`RequestRefused`, and `RunsOn` for those a failed `gather` leaves behind) while
datastores and jobs come, run and go, joined by name in `Joined`; `ListSnapshots` and
`ListTasks` are one request each, and what the server holds is chosen when it answers.

`Listings` puts them beside the catalog in one specification. They share no state,
so which of them a behaviour is about, `subject`, is chosen at its start and the
others rest; a product would add states and no new case.

### The process: `DbPool`, `BridgeLifecycle`

`DbPool` is what the tools share of the database: `Take` gives an idle connection or
a place in the line, `GiveBack` hands it to the first in line, `Discard` drops a
broken one, `Connect` makes a new one, `TimesOut` is the pool's timeout; `Submit`,
`Start` and `Finished` are jobs in worker threads, whose connections no pool counts;
`Abandon` is a cancelled call, whose thread works on for nobody.

`BridgeLifecycle` is the process around it. `OpenNext` / `OpenFails` step through
`OpenOrder` (`Filled`: an opened read pool has its minimum), `Stop` ends the calls
with the MCP application's lifespan, `Close` / `CloseFails` step through
`CloseOrder`, and `Restart` begins the next process. A call (`Begin`) is what it uses,
one after the other: `Request`, `Statement`, `NoConnection` over a pool, `UseClient`
over a client, `HandOver`, `StartJob`, `EndJob` in a thread; `Cancel` ends it anywhere.
`Ask`, `Answer`, `AskFails` are `/healthz`, which takes a connection of the read pool
like everybody else. `DatabaseTurns` and `NatsTurns` are the outages, `Refill` is the
pool replacing what it lost.

### MC modules

`MCLedger`, `MCEpisodeBundle`, `MCWikiPages`, `MCNatsTail`,
`MCKnxFanout`, `MCLiveState`, `MCPresence`, `MCCallPipeline`, `MCListings` and
`MCBridgeLifecycle` give the constants their values. An operator marked "Mutant of" in
a module is a plausible bug in the code of the definition it names, used to test
that a property can fail; no specification refers to it.

## The runs

| Run | Checks | Distinct states |
| --- | --- | --- |
| `ledger` | `Ledger` against `LedgerView`, and its invariants | 775,278 |
| `bundle` | `EpisodeBundle` | 326,866 |
| `wiki` | `WikiPages` | 721,476 |
| `tail` | `NatsTail`, with liveness | 126,905 |
| `fanout` | `KnxFanout`, with liveness | 528,535 |
| `fanout_cut` | *violated*: an address is omitted only for want of a message | |
| `live` | `LiveState` | 166,328 |
| `presence` | `Presence` against the pointwise truth | 219,450 |
| `pipeline` | `CallPipeline` over `QueryTools` | 962,663 |
| `pipeline_zero` | *violated*: a caller's mistake is no error of the bridge | |
| `sources` | `Listings`: `SourcesCache`, `S3Listing`, `PbsReads` | 2,693,128 |
| `lifecycle` | `BridgeLifecycle` over `DbPool`, with liveness | 89,934 |

Deadlock checking is off but for `presence`, which can always be asked: the other
models have bounded calls, and a finished call on a platform at its bound has nothing
left to do.

**ledger.** Two people and a machine, two runs, one episode, two calls, six
kinds of row, every way to name a run and one request of each argument error.
Two calls are what the hazards need (one writes what the other resolved), two
runs what "the newest" and "another person's" need. The calls are symmetric;
people are not, as the reader is one of them. The view is taken for `alice`. What holds: the
judged run is readable by the caller (`JudgedIsReadable`), and was the newest
of those the request names *at some moment while the call
was open* (`JudgedWasNewest`; not when the answer arrives, since rows are
claimed meanwhile); every verdict in the tables was written there by a call
(`VerdictHasAuthor`); and one reader's view explains everything.

**bundle.** Three evaluations, two explanations, three catalogs, an observation
limit of 2 and a sibling limit of 1, so that both cuts happen. Because the row
is read first, evidence may be ahead of it but never behind
(`EvidenceReachesRow`): a row that says "ended" comes with its "ended" event.
The trajectory has no hole and says when it was cut; the neighbours are the room's,
the channel's own device first, and none is a command to a device whose state the
room reports (claimed only where no import came between the statements: after one, two
catalogs are mixed, and nothing in the code prevents it).

**wiki.** Two calls, two pages, two paths, two locales, two edits by people. A
read answers with the row as it was and a source that stood at that row's place
at some time during the call (`ReadStoodThere`); a write lands on the page it
found, or creates at the path named (`WroteWhereNamed`); the tags an update
sends were the page's own during the call (`MetaCarriedOver`).

**tail.** Three messages on four subjects, six requested subjects (one refused
for each rule, one wildcard that is allowed), an answer of at most two, every
order of link loss, drain, cancel and deadline. `Gapless` says a message is
missing *between* two answered ones only where the link was down;
`OneAfterDeadline` that a full queue cannot keep the loop going past its time;
`NoSubscriptionLeft` that every way out unsubscribes; `WatchEnds` that the call ends
whatever the subject and the link do.

**fanout.** Three addresses, two permits, so that one read has to wait; three
catalogs: a dimmer with its status, the same without the status, and one in which the
dimmer is renamed and the sensor is in another room, of which two may stand in turn while
the call is open (`MaxCatalogs`); limits below, at and above the number of matches; one publication
during the call; failures and a cancel anywhere. `AnswerIsComplete` is the
important one: with `held`, the history of what the stream held during the call,
an answer that leaves out an address with a message is a bug. `NoOrderForAState` says
what is told under `only_active`: nothing that each catalog of the call makes an order,
under the name the call read for it. It does not say more: an order whose `-Status` an
import takes away between the two statements is told as a reading, and so is one whose
device it renames, though that one is an order in both catalogs.

**live.** Domains of one and of two subjects that share one, cyclic and not;
four moments and a threshold of one. An answer is at least as new as the stream
was when asked, "unknown" is never told of a domain of which something was held
(`AsNewAsAsked`), and `stale` raises no false alarm (`StaleMeansQuiet`).

**presence.** Every table of up to three rows for each of two interchangeable
people over four moments, every window up to the longest allowed and one past
it; the look back is one moment, so that a row can be too old. Three rows are
what a change, its undoing at the same instant and a later one need. The spans
tile the window and say at each moment what the table says
(`SpansTellTheTable`); the house is told empty exactly where every listed
person is known to be away (`EmptyIsProven`), in stretches that are not split. That last
branch of the code, continuing a stretch, runs only where two rows of one instant leave
a span without length.

**pipeline.** Two calls on two routes with every tool, every mistake, a probe,
a request without the key and one without a route. Whatever happens to the
answer, "ok" means the trigger has done it and "refused" that it has not and will not
(`ToldTruly`); an error says neither, and a caller who asks again may start a run twice.
Every call that ends by itself is counted once under its own route (`CountedOnce`).
A row limit of 2 and statements that find 0 to 3 rows (`MaxRows`) are below, at and
above every limit. One change of a name (`MaxChanges`) falls before, between or after
any two statements of a call, and of the walk of a catalog that another call finds later;
one is enough since a call is refused at the first name it does not find. A refusal has its
cause (`RefusedForCause`): an argument that is wrong, an overflow, a column, a room or a
function that was unknown at some time of the call, or a table that was not there at some
time since the walk of the catalog it was sought in, or that has no time column. That walk
may have begun before the call, so a table made since is refused although it was there all
through the call; a catalog that another call is only just walking is never looked into. An
answer is whole or says that it is cut, of the rows as they were (`WholeOrTold`). A
mistaken argument never yields data (`MistakesGoNowhere`): the one mistake that can be
answered at all, a bucket of no width, is answered only where there was no row.

**sources.** Three listings, each folded from several answers of a thing that moves.
*The catalog*: two calls are what a race for the cache needs, two sources are a
walk with a next one; two changes of the database (`MaxChanges`) are what a walk
can be caught between: a table made or dropped, a row in and the oldest out. A catalog
is of its walk, whoever made it, with ranges its tables had (`CatalogOfItsWalk`); it trails the database by the
time to live *and the length of the walk* (`CatalogTrails`). *The object store*: two
buckets, three keys on two levels and a page of one key, so that every object can
come or go between two pages; two writes (`MaxWrites`). The summaries of a prefix, a
level and a bucket count what stood throughout and nothing that never stood, and no
newest object looks staler than it was (`SummariesHold`). *The backup server*: two
datastores with a verify job each and three events (`MaxPbsEvents`), one between each
two of the three answers; what is told of a datastore was true of that datastore at
some time of the call (`JobsAreTheirs`). Snapshots of two groups made at the same
moments are the ties of the sort. In both, a list that is cut says so, and what it
leaves out is older than what it shows (`CutsAreTold`).

**lifecycle.** Everything but the object store is enabled, so that one
resource is passed over; one key file at most is empty. Two calls and the probe share
a read pool of one to two connections, a write pool of at most one and one worker
thread: three users of two connections have one in line. A call finds what it uses open and is
traced from beginning to end (`CallsFindTheirs`). Three claims are of liveness: with
the upstreams back, the bridge serves again whatever ended the processes before
(`ServesAgain`); one that kept running becomes ready again without a restart, unless
calls come to hold every connection (`ReadinessReturns`); and no call waits for a
connection for ever (`CallsEnd`), since none holds one while it waits for another. A
job in a thread may hang, and the calls behind it then wait with no timeout: that is
excepted from `CallsEnd`, and it is what the code does.

**Fairness.** Only `NatsTail`, `KnxFanout` and `BridgeLifecycle` have any. The last
assumes that a start or stop goes on where it can, that an ended process is
started again and probed (what the cluster does), that a call asks for what is
next, that a request over a client ends (each client has a timeout), that a statement
ends while the database is up (the bridge sets no limit on one, so this is asked of
the database), and that a pool connects for those in line while the database is up (what the
pool library does); it assumes nothing of the pool's timeout, of cancels, of jobs in
threads, of outages, stops and key files. For the other two it is only the
bridge's own steps: the event loop runs a call that can go on, time passes, and
a request to the server is answered *or* times out (`get_last_msg` has a request
timeout). Nothing is assumed of publishers, the link, the server's interest, or
people. Weak fairness is enough since none of these steps is disabled by another
actor for ever.

**Bounds.** Counts of publications, evaluations, explanations, edits and changes
(`MaxPublished`, `MaxTick`, `MaxRuns`, `MaxEdits`, `MaxChanges`, `MaxWrites`, `MaxCatalogs`,
`MaxPbsEvents`), the last moment (`MaxNow`, `Horizon`) and the rows a statement finds
(`MaxRows`) are the only bounds on the environment; each is large enough for an event before, between and after the
steps it can disturb, and each property's mutant shows that the bad case is
within reach.

## What the violated runs say

Each checks one sentence of the repository that the code does not keep.

* `OmittedHaveNone` (`fanout_cut`): "GAs with no retained NATS message are
  omitted". So are those past the limit, and the answer does not carry the
  truncated flag `db.read` returned.
* `MistakeIsNoError` (`pipeline_zero`): a refusal is "the tool rejecting its
  arguments ... an invalid bucket", and an error is a strike against the server. A
  bucket of "0 minutes" parses, is divided by, and is an error. The model holds more
  of the kind, which the same sentence refutes: in `query_timeseries` and
  `query_room_climate` that bucket fails in the statement where there are rows, a source of
  `correlate_events` without its column is a `KeyError`, and a column of it that does
  not exist fails in the statement.

Other sentences promise more than the models allow. No run is spent on them; what
does hold in their place is checked.

* "By nothing at all for ... the answer just given in this chat" (`set_verdict`'s
  description): the statement takes the person's newest chat run in *any* chat.
  What holds is `JudgedWasNewest`.
* `only_active` "keeps only GAs whose current value is "on" ... and that report a state,
  never a command" (`get_current_knx`): the rows are of one statement and the datapoints
  they are judged against of a second; when an import in between renames a device, its
  order finds no status under the old name and is told as a reading. What holds is
  `NoOrderForAState`.
* "One call, so the bundle is consistent with itself" (README of the repository):
  events and trajectory may be newer than the row. What holds is
  `EvidenceReachesRow`.
* "An update keeps the page's description, tags and publish flag": it keeps those
  of the list it read, and an edit in between is undone. What holds is
  `MetaCarriedOver`.
* "Cyclic sensors carry a stale flag once they go quiet past the stale threshold":
  the newest of the domain's subjects is judged, so a quiet storage sensor hides
  behind the boiler. What holds is `StaleMeansQuiet`.
* "New tables show up after one TTL period": the period starts when a walk ends, and
  an older walk may be the last to fill the cache. What holds is `CatalogTrails`.
* "An upstream outage never restarts the pod" (`_livez`): a bridge that is starting
  ends when the database does not answer within 10 s. What holds is `ServesAgain`.

## What is proved

Eight modules of theorems, most named for the module they are about. What a theorem says
it says for every value of the constants: any number of calls, people, pages, subjects
or addresses, any limit and any length of a behaviour, as far as the named assumption
of the module goes. The assumptions say that distinct kinds of things are distinct
(`None` is no id, no page, no connection), that arguments have the shape the tools
declare, and that calls, addresses and users of a pool are finitely many where something
is counted or put on a list. The bounds of the runs (`MaxRuns`, `MaxEdits`, ...) are constants like any
other: a proof uses only that they are numbers.

The argument is the same everywhere. The invariant a run checks speaks of a call that is
over; it is not inductive, since it says nothing of a call that is under way. What has to
be added is what a call *carries from one await to the next, and what of it stays true
whatever the others do meanwhile*. That is each module's inductive invariant. TLC found no
counterexample to it on the run's instance; one lemma per action shows that the action
keeps it, and the theorems follow from it.

**`LedgerProofs`** (`LedgerAssumption`, `ReaderAssumption`). `TypeOK` alone is not
inductive: `Record` writes the word of the *request* onto what was *found*, so
`LedgerTypeOK` needs that a call past its checks carries a checked request and that what
it found is of the table the request is about (`CarriesRequest`, `FoundTyped`).
`VerdictOnlyWhereReadable` and `VerdictOnNewestNamed` add `FoundHolds` and
`NewestRemembered`. `FoundHolds` is the reason the unconditional `UPDATE ... WHERE id` is
safe: everything the lookup asked of a row (readable, named, newest once) stays true
until the write, because rows never change but for their verdict (`RowsKept`) and the
conditions never look at it (`ConditionsIgnoreVerdict`). If the platform ever re-assigned
a run to a person, or if a condition looked at the verdict, this is the step that fails.
`VerdictsAreAuthored`: every verdict has a call that wrote it, and no listing shows another
person's run. `LedgerShowsOnlyOwnAndMachines` is the refinement, for every reader: one
lemma per action of `Ledger` shows it to be a step of the view or a stutter; the key
lemma, `NamedView`, is that what a reader's request names is the same in the ledger and
in the view.

**`CallPipelineProofs`** (`PipelineAssumption`, `QueryAssumption`, `CutsAssumption`; calls
are finitely many, so that they can be counted). `PipelineInv` says of each call where its
request puts it (`Placed`), that its history holds what its names are now, and who names
no table has all its names to look up or has found them (`Noted`), what it was told when it ended (`Told`), that its request to the trigger is in
one place, on its way, done or answered (`Carried`), and whose it is (`BoundTo`).
`CountedOnce` is part of it: `Leave` and `Cancel` move one call from one set to another,
and `CountsOneMore` adds it to its counter. `WholeOrTold` rests on the lemma
`ResultIsWholeOrTold`, that asking for one row more than is shown tells an overflow from an
exact fit at every limit. `RefusedForCause` rests on `LookUpsOfItsNames`, what a tool looks up
is what it was given, and on what a catalog's history holds: every table it does not list or
that is gone (`Trails`, also while its walk is under way), and once it is in the cache every
table listed without a time column, but for those that have none (`Finished`, `Cached`).
`CatalogMisses` reads the cause of a refusal off these; a cache that is filled before its
walk has ended breaks `Finished`. Also `PipelineTypes`, `CallersToldTruly`, `MistakesStopped`.

**`NatsProofs`**, the live watch (`TailAssumption`). What the call has taken, what waits in its queue
and what the client library still holds are *one* sequence, `Delivered`. `TailInv` says
that it is in the order of publication, without a gap but for a lost link, and up to date
while there is a subscription; the callback adds to its end, the loop only moves its
parts, and it is cut only when the call is over. `AnswersAreGapless` reads it off its first
part; `OneMessageAfterDeadline` and `NothingLeftBehind` come from `Placed`, which ties the
subscription and the count of messages after the deadline to where the call is. How a
subject matches a pattern is never used.

The live state (`LiveAssumption`), in the same module. A subject's time only grows (`NeverBack`), so what
was read of it is no older than what the stream held when the call began (`ReadInTurn`);
that is enough for `AnswersAreAsNewAsAsked` and `StaleIsNoFalseAlarm` although the subjects
are read at different moments. `MaxIsNewest`, that bounded times have a newest, is by
well-founded induction.

**`KnxFanoutProofs`** (`FanoutAssumption`). `PermitsComeBack` is conservation: requests
under way and permits left are together as many as the semaphore was given, since each
way a request ends gives its permit back. `AnswersAreComplete` needs that what a task was
told is among what the stream held of its address during the call (`Told`), and
`OrdersAreLeftOut` that the rows are those of the first statement and that every row's role
is of *some* catalog that stood during the call, judged by all its names (`OfTheCatalog`):
the one that stood at the second statement, and neither the filter nor the limit takes a name
from it. `CutToLimit` bounds the fan-out.

**`EpisodeBundleProofs`** (`BundleAssumption`). The engine only goes on, so the row that was
read first is behind it (`RowBehind`) and the events and observations read later reach that
row (`EventsReachRow`, `ObservationsReachRow`): `RowsAreBorneOut`. Read in another order
these steps fail. `TrajectoriesAreWhole` rests on `NewestHaveNoHole`, about the newest of n
ticks at a limit; `SiblingsAreOfTheRoom` on what the parts say of the catalog as long as
none was imported (`RowOfCatalog`, `SiblingsOfCatalog`).

**`WikiPagesProofs`** (`WikiAssumption`). An open call has seen every page as it stands now,
and an update has in hand a row that stood where the request names it (`OpenInv`). This is
kept by every edit of people because history is only added to (`SeenMore`), and gives
`ReadsStoodThere`, `WritesLandWhereNamed` and the action property `UpdatesCarryOver`.

**`BridgeLifecycleProofs`** (`LifecycleAssumption`, `PoolAssumption`; users of pools are
finitely many). `LifeInv` says where everybody is. Who holds a connection or stands in
line is at a statement of that pool, once and in one place (`Placed`, `OnceInLine`); a
thread or the backlog serves a call once, which waits for it (`JobInv`); outside serving
nobody is anywhere (`Deserted`); and what is open is what the steps of `OpenOrder` so far
have opened or those of `CloseOrder` have not yet closed (`Staged`). `PoolsAreKept` needs
more than counting: when a call gives a connection back it goes to the first in line
(`HandedOver`), and without `OnceInLine` that one could hold one already.
`NothingClosesUnderACall` then has two halves: while the bridge serves everything enabled
is open, and before anything closes nobody is left.

**`ReadsProofs`** (`SourcesAssumption`, `PbsAssumption`, `S3Assumption`, `CutsAssumption`,
`PresenceAssumption`): the listings and presence. The listings' assumptions type what is
listed, and say that names which are joined or looked up are distinct.
`ListingsAreThree` is a refinement: a behaviour of `Listings` is one of each of the three,
so that what is proved of one holds of it.

*The catalog.* `SourcesInv` says of a walk under way that what it has noted of the database
is so (`Sees`) and no older than the walk (`Trails`), that what it has listed holds of it
(`EntryHolds`), and that nothing that was there all through is neither listed nor to come
(`NoneMissed`). A walk that ends keeps of this what no later step takes away (`Finished`),
and gives it to its caller and to the cache: that is why it does not matter which caller
fills the cache last. `CatalogHolds` and `CatalogIsFresh` follow.

*The backup server.* While a report is under way each of its answers was so at some time of
the call (`Gathered`), and the changes in between only add to what may have been met.
Joining by name then gives each datastore its own (`ReportsHold`); a join by place would not.

*The object store.* Up to the last key it has read a listing holds only what stood at some
time of the call, and all that stood all through (`ReadTo`); a page goes on after that key, and a
write can only add to what was met or to what was lost. `StoreIsTold` has two more halves. Of a
whole listing: its count lies between what stood and what was met, its newest time is one
that was met, and no object that stood throughout is newer or older than it tells but by what
was written meanwhile. Of a level: what is kept of the listing for it is at growing
places of the listing, so that the same holds of it, none has nothing, and as no place is
of two levels their counts add up to no more than the whole.

*The cuts.* `CutsHold` needs that the newest of a list are the first of it sorted, ties kept
in the order they came (`NewestFirst`), and that the tasks are asked for one more than shown.

*Presence.* `FoldHolds` says what the loop over a person's changes has made of the first n:
spans that follow each other from the window's start, each unlike the one before, and that
every moment up to them is told as the last change up to it says (`TellsAt`). `PointsTell`
says that the statement's rows tell of the window what the whole table does (`Truth`).
`EmptyHolds` says what the loop over the cuts has made of those before the n-th: stretches that do
not touch and cover exactly the moments at which everybody is away; from one cut to the next
nothing changes (`NothingChanges`), because a cut is made wherever anybody's span starts. Hence
`SpansAreTold` and `EmptyHouseIsProven`, for any number of people, ties and repeats, any
look back and any window.

*Induction.* The rule of induction in the library takes an operator as its parameter, which
the provers cannot instantiate. What is proved of the loops, and of lists in order,
goes without it: the numbers at which the claim fails are a finite set, and its least, if there
is one, has a number before it at which the claim holds (`CountingUp`). The loops are
recursive functions of that number, and that the defining equation is met (`FoldedSteps`,
`EmptiedSteps`) is proved the same way.

### What is only model-checked

Every invariant and every action property of the runs is proved. Liveness is out of
the prover's reach: `WatchEnds`, `FanoutEnds`, `ServesAgain`, `ReadinessReturns`, `CallsEnd`
are checked on the runs' instances only.

## What is abstracted, and what is not modelled

SQL text, JSON, formatting, the ages of single values, metrics and log lines are left out; a row, a
page or a value keeps only what some property tells apart. Words of a datapoint
name are kept as sequences, since roles depend on them. What a statement computes is
the database's: a query tool is what it checks, looks up, asks for and makes of an
overflow. Left out of it, and of other parts that are otherwise modelled:

* The text of an interval and of a time stamp: a width is its length, or no width.
* `get_forecast`'s pivot by hour and its note on an empty answer; the samples of JSON
  keys of `get_schema`; sizes of objects and of datastores; the rendering of answers.
* The status and use-case filters of `list_runs` on the rows (its refusal of an unknown
  status or of bad days is modelled), and the clamping of `get_forecast`'s horizon.
* Of two sources with one name `resolve` would take the last and `get_schema` the
  first; the model's names are distinct.
* `search_wiki`, `list_wiki_pages` and `get_memory` are one request or one statement
  each, with no check and no state of their own.
* The metrics server's port being taken is left out of the start's failures.

The back-test's engine is a library that is not in the repository: modelled are its
limit, its refusal and the thread it runs in. Metrics, tracing and logging observe and
change no answer, and the settings are the models' constants: these are the parts not
modelled.

## Plan

The system's parts are modelled and proved about. What could be added:

1. The samples of JSON keys of `get_schema` and `get_forecast`'s pivot, if a property of
   theirs is worth a run.
2. Liveness by hand: the measures by which a watch, a fan-out or a start ends, as lemmas
   beside the properties TLC checks.
