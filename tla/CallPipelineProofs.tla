------------------------- MODULE CallPipelineProofs -------------------------
(***************************************************************************)
(* Theorems about the call pipeline, for every finite set of calls, every  *)
(* set of requests, routes and names, and every limit.  The inductive      *)
(* invariant says of each call what it carries from one statement to the   *)
(* next, and of each request to the trigger where it is.                   *)
(***************************************************************************)
EXTENDS CallPipeline, FiniteSetTheorems, SequenceTheorems, TLAPS

-----------------------------------------------------------------------------
(* Lemmas about the limits and the cuts *)

\* The smaller of two, and of three.
LEMMA MinOfTwo ==
  ASSUME NEW a \in Nat, NEW b \in Nat
  PROVE  Min({a, b}) = IF a <= b THEN a ELSE b
<1> DEFINE m == IF a <= b THEN a ELSE b
<1>1. m \in {a, b} /\ \A y \in {a, b} : m <= y
  OBVIOUS
<1>2. \A x \in {a, b} : (\A y \in {a, b} : x <= y) => x = m
  OBVIOUS
<1> QED BY <1>1, <1>2 DEF Min

\* The smallest of three is one of them.
LEMMA MinOfThree ==
  ASSUME NEW a \in Nat, NEW b \in Nat, NEW d \in Nat
  PROVE  /\ Min({a, b, d}) \in {a, b, d}
         /\ Min({a, b, d}) <= a /\ Min({a, b, d}) <= b /\ Min({a, b, d}) <= d
<1> DEFINE m == IF a <= b /\ a <= d THEN a ELSE IF b <= d THEN b ELSE d
<1>1. m \in {a, b, d} /\ \A y \in {a, b, d} : m <= y
  OBVIOUS
<1>2. \A x \in {a, b, d} : (\A y \in {a, b, d} : x <= y) => x = m
  OBVIOUS
<1> QED BY <1>1, <1>2 DEF Min

\* cap: no more than was asked for, no more than the row limit, and nothing only for
\* what is refused.
LEMMA CapBounds ==
  ASSUME NEW limit \in Nat
  PROVE  /\ Cap(limit) \in Nat
         /\ Cap(limit) = IF limit <= RowLimit THEN limit ELSE RowLimit
         /\ Cap(limit) = 0 <=> limit = 0
<1>1. RowLimit \in Nat /\ RowLimit > 0
  BY CutsAssumption
<1> QED BY <1>1, MinOfTwo DEF Cap

\* A cut of the first so many whole numbers is the first so many whole numbers.
LEMMA CutOfCounted ==
  ASSUME NEW count \in Nat, NEW limit \in Nat
  PROVE  LET n == IF limit <= count THEN limit ELSE count
         IN Cut([i \in 1..count |-> i], limit) = [i \in 1..n |-> i]
<1> DEFINE s == [i \in 1..count |-> i]
           n == IF limit <= count THEN limit ELSE count
<1>1. s \in Seq(Nat) /\ Len(s) = count
  OBVIOUS
<1>2. Cut(s, limit) = SubSeq(s, 1, n)
  BY <1>1, MinOfTwo DEF Cut
<1>3. SubSeq(s, 1, n) = [i \in 1..n |-> s[i]]
  BY <1>1, SubSeqProperties
<1> QED BY <1>2, <1>3

\* The limit a tool reads with: never more than the row limit, and nothing only for a
\* listing that was asked for nothing.
LEMMA EffectiveBounds ==
  ASSUME NEW r \in Requests
  PROVE  /\ Effective(r) \in Nat
         /\ Effective(r) = 0 <=> r.tool \in Limited /\ r.limit = 0
         /\ r.tool \in Limited => Effective(r) = IF r.limit <= RowLimit THEN r.limit ELSE RowLimit
         /\ r.tool \in Aggregating => Effective(r) = RowLimit
         /\ r.tool \in QueryingTools \ (Limited \cup Aggregating) =>
              Effective(r) = IF TopN <= RowLimit THEN TopN ELSE RowLimit
<1>1. r.limit \in Nat /\ r.tool \in QueryingTools \cup AskingTools
  BY PipelineAssumption, CutsAssumption DEF Request
<1>2. TopN \in Nat /\ TopN > 0 /\ RowLimit \in Nat /\ RowLimit > 0
  BY QueryAssumption, CutsAssumption
<1>3. r.tool \in Limited => r.tool # "correlate_events" /\ r.tool \notin Aggregating
  BY DEF Limited, Aggregating
<1>4. CASE r.tool \in Limited
  BY <1>1, <1>2, <1>3, <1>4, CapBounds DEF Effective, QueryingTools
<1>5. CASE r.tool = "correlate_events"
  BY <1>1, <1>2, <1>5, CapBounds DEF Effective, Limited, Aggregating
<1>6. CASE r.tool \notin Limited /\ r.tool # "correlate_events"
  BY <1>1, <1>2, <1>6 DEF Effective, QueryingTools
<1> QED BY <1>4, <1>5, <1>6

\* read, by what it found: an aggregate is of all of it or is refused, a list is its
\* beginning and says when there is more.
LEMMA ResultIsWholeOrTold ==
  ASSUME NEW r \in Requests, NEW count \in Nat
  PROVE  LET found == Result(r, count)
             limit == Effective(r)
         IN /\ found.count = count
            /\ found.rows = [i \in 1..(IF limit <= count THEN limit ELSE count) |-> i]
            /\ found.truncated <=> count > limit
            /\ found.raised \in {"nothing", "ValueError"}
            /\ found.raised = "ValueError" <=> r.tool \in Aggregating /\ count > limit
<1> DEFINE limit == Effective(r)
           all == [i \in 1..count |-> i]
           first(n) == [i \in 1..n |-> i]
           rows == IF r.tool = "backtest_fault" THEN all ELSE Cut(all, limit + 1)
           n == IF r.tool = "backtest_fault" \/ count <= limit + 1 THEN count ELSE limit + 1
<1>1. limit \in Nat
  BY EffectiveBounds
<1>2. rows = first(n) /\ n \in Nat
  BY <1>1, CutOfCounted
<1>3. Len(rows) = n
  BY <1>2
<1>4. Cut(rows, limit) = first(IF limit <= count THEN limit ELSE count)
  <2>1. Cut(first(n), limit) = first(IF limit <= n THEN limit ELSE n)
    BY <1>1, <1>2, CutOfCounted
  <2> QED BY <1>1, <1>2, <2>1
<1>5. Truncated(rows, limit) <=> count > limit
  BY <1>1, <1>2, <1>3 DEF Truncated
<1> HIDE DEF rows, limit
<1>6. Result(r, count) =
        [raised |-> IF r.tool \in Aggregating /\ Truncated(rows, limit) THEN "ValueError" ELSE "nothing",
         count |-> count, rows |-> Cut(rows, limit), truncated |-> Truncated(rows, limit)]
  BY DEF Result, Fetched, rows, limit
<1> QED BY <1>4, <1>5, <1>6 DEF limit

-----------------------------------------------------------------------------
(* Lemmas about the checks *)

\* The arguments of a request have the types the framework gives them.
LEMMA RequestTyped ==
  ASSUME NEW r \in Requests
  PROVE  /\ r \in Request /\ Complete(r)
         /\ r.bucket \in Nat \cup {None} /\ r.window \in Nat \cup {None}
         /\ r.number \in Int \cup {None} /\ r.limit \in Nat
         /\ r.tool \in QueryingTools \cup AskingTools /\ r.lines \in Nat /\ r.fits \in BOOLEAN
         /\ r.names \in Seq(Names) /\ r.client \in Clients \cup {None} /\ r.key \in BOOLEAN
  BY PipelineAssumption, CutsAssumption DEF Request, Widths

\* Interval.parse and the lags: a window that is no whole number of buckets is one
\* narrower than a bucket.
LEMMA LagsExact ==
  ASSUME NEW r \in Requests
  PROVE  /\ Lags(r) \in {"nothing", "ValueError", "ZeroDivisionError"}
         /\ Lags(r) = "ValueError" =>
              None \in {r.bucket, r.window} \/ (r.bucket # 0 /\ r.window < r.bucket)
         /\ Lags(r) = "nothing" =>
              ~(None \in {r.bucket, r.window} \/ r.bucket = 0 \/ r.window < r.bucket)
<1>1. ASSUME NEW b \in Nat, NEW w \in Nat, b # 0
      PROVE  w \div b = 0 <=> w < b
  <2>1. w = b * (w \div b) + (w % b) /\ w % b \in 0..(b - 1) /\ w \div b \in Nat
    BY <1>1
  <2>2. CASE w \div b = 0
    BY <2>1, <2>2
  <2>3. CASE w \div b # 0
    BY <2>1, <2>3
  <2> QED BY <2>2, <2>3
<1>2. CASE None \in {r.bucket, r.window}
  BY <1>2 DEF Lags
<1>3. CASE None \notin {r.bucket, r.window}
  <2>1. r.bucket \in Nat /\ r.window \in Nat
    BY <1>3, RequestTyped
  <2> QED BY <1>1, <1>3, <2>1 DEF Lags
<1> QED BY <1>2, <1>3

\* What the checks refuse is a mistake, and what they let through is none but those
\* that the limit, the back-test's engine and the statement itself find.
LEMMA ChecksFindMistakes ==
  ASSUME NEW r \in Requests, r.tool \in QueryingTools
  PROVE  /\ Checks(r) = "ValueError" => Mistaken(r)
         /\ Checks(r) = "nothing" /\ Mistaken(r) =>
              \/ r.tool \in Limited /\ r.limit = 0
              \/ r.tool = "backtest_fault" /\ ~r.fits
              \/ r.tool \in BucketingTools /\ r.bucket = 0
<1>0. \A n \in Int : n \notin 0..100 <=> (n < 0 \/ n > 100)
  OBVIOUS
<1> USE RequestTyped, QueryAssumption DEF Limited, BucketingTools
<1>1. CASE r.tool = "correlate_events"
  BY <1>1, LagsExact DEF Checks, Refused, Mistaken
<1>2. CASE r.tool = "query_energy_flow"
  <2>1. \A b \in Nat : b % 4 \in 0..3
    OBVIOUS
  <2>2. r.bucket \in Nat => (WholeHours(r.bucket) <=> ~(r.bucket = 0 \/ \E n \in 1..3 : r.bucket % 4 = n))
    BY <2>1 DEF WholeHours
  <2> QED BY <1>2, <2>2 DEF Checks, Refused, Mistaken
<1>3. CASE r.tool \in {"query_timeseries", "query_room_climate"}
  BY <1>3 DEF Checks, Refused, Mistaken
<1>4. CASE r.tool = "query_unifi_events"
  <2>1. CASE r.number = None
    BY <1>4, <2>1 DEF Checks, Refused, Mistaken
  <2>2. CASE r.number \in Int
    <3>1. r.number \notin 0..100 <=> (r.number < 0 \/ r.number > 100)
      BY <1>0, <2>2, Zenon
    <3>2. r.number # None
      BY <2>2
    <3> QED BY <1>4, <3>1, <3>2 DEF Checks, Refused, Mistaken
  <2> QED BY <2>1, <2>2
<1>5. CASE r.tool \in {"query_heating_cycles", "list_episodes"}
  <2>1. r.number \in Int
    BY <1>5 DEF Complete
  <2> QED BY <1>5, <2>1 DEF Checks, Refused, Mistaken
<1>6. CASE r.tool \in {"backtest_fault", "query_knx_events", "get_forecast"}
  BY <1>6 DEF Checks, Refused, Mistaken
<1> QED BY <1>1, <1>2, <1>3, <1>4, <1>5, <1>6 DEF QueryingTools, Aggregating

Looks == [by : {"resolve", "get_schema", "statement"}, names : SUBSET Names]

\* What is looked up is what the tool was given; who names no table has at most one
\* look-up, of everything it was given.
LEMMA LookUpsOfItsNames ==
  ASSUME NEW r \in Requests, r.tool \in QueryingTools
  PROVE  /\ LookUps(r) \in Seq(Looks)
         /\ \A look \in ToSet(LookUps(r)) : look.names \subseteq ToSet(r.names)
         /\ r.tool \notin TableTools =>
              LookUps(r) = IF r.names = <<>> THEN <<>> ELSE <<Look("statement", ToSet(r.names))>>
<1>1. r.names \in Seq(Names)
  BY RequestTyped
<1>2. \A i \in 1..Len(r.names) : r.names[i] \in Names /\ r.names[i] \in ToSet(r.names)
  BY <1>1, ElementOfSeq DEF ToSet
<1>3. ToSet(r.names) \subseteq Names
  BY <1>1 DEF ToSet
<1>4. ASSUME NEW by \in {"resolve", "get_schema", "statement"}, NEW names \in SUBSET Names
      PROVE  Look(by, names) \in Looks /\ Look(by, names).names = names
  BY DEF Look, Looks
<1>5. CASE r.tool = "query_timeseries"
  <2>1. Len(r.names) >= 1
    BY <1>5, RequestTyped DEF Complete
  <2> DEFINE first == {r.names[1]}
             columns == IF Len(r.names) = 1 THEN {} ELSE ToSet(r.names)
  <2>2. first \in SUBSET Names /\ first \subseteq ToSet(r.names)
        /\ columns \in SUBSET Names /\ columns \subseteq ToSet(r.names)
    BY <1>1, <1>2, <1>3, <2>1
  <2>3. LookUps(r) = <<Look("resolve", first), Look("get_schema", first), Look("statement", columns)>>
    BY <1>5 DEF LookUps
  <2> HIDE DEF first, columns
  <2> DEFINE a == Look("resolve", first)
             b == Look("get_schema", first)
             d == Look("statement", columns)
  <2>4. a \in Looks /\ b \in Looks /\ d \in Looks /\ a.names = first /\ b.names = first
        /\ d.names = columns
    BY <1>4, <2>2
  <2> HIDE DEF a, b, d
  <2>5. LookUps(r) = <<a, b, d>>
    BY <2>3 DEF a, b, d
  <2>6. <<a, b, d>> \in Seq(Looks) /\ ToSet(<<a, b, d>>) = {a, b, d}
    BY <2>4 DEF ToSet
  <2> QED BY <1>5, <2>2, <2>4, <2>5, <2>6 DEF TableTools
<1>6. CASE r.tool = "correlate_events"
  <2>1. Len(r.names) >= 2
    BY <1>6, RequestTyped DEF Complete
  <2> DEFINE a == Look("resolve", {r.names[1]})
             b == Look("resolve", {r.names[2]})
  <2>2. /\ {r.names[1]} \in SUBSET Names /\ {r.names[2]} \in SUBSET Names
        /\ {r.names[1]} \subseteq ToSet(r.names) /\ {r.names[2]} \subseteq ToSet(r.names)
    BY <1>1, <1>2, <2>1
  <2>3. a \in Looks /\ b \in Looks /\ a.names = {r.names[1]} /\ b.names = {r.names[2]}
    BY <1>4, <2>2
  <2>4. LookUps(r) = <<a, b>>
    BY <1>6 DEF LookUps
  <2> HIDE DEF a, b
  <2>5. <<a, b>> \in Seq(Looks) /\ ToSet(<<a, b>>) = {a, b}
    BY <2>3 DEF ToSet
  <2> QED BY <1>6, <2>2, <2>3, <2>4, <2>5 DEF TableTools
<1>7. CASE r.tool \notin TableTools
  <2> DEFINE a == Look("statement", ToSet(r.names))
  <2>1. a \in Looks /\ a.names = ToSet(r.names)
    BY <1>3, <1>4
  <2>2. LookUps(r) = IF r.names = <<>> THEN <<>> ELSE <<a>>
    BY <1>7 DEF LookUps, TableTools
  <2> HIDE DEF a
  <2>3. <<a>> \in Seq(Looks) /\ ToSet(<<a>>) = {a}
    BY <2>1 DEF ToSet
  <2>4. CASE r.names = <<>>
    <3>1. LookUps(r) = <<>> /\ <<>> \in Seq(Looks) /\ ToSet(<<>>) = {}
      BY <2>2, <2>4 DEF ToSet
    <3> QED BY <2>4, <3>1
  <2>5. CASE r.names # <<>>
    BY <2>1, <2>2, <2>3, <2>5 DEF a
  <2> QED BY <2>4, <2>5
<1> QED BY <1>5, <1>6, <1>7 DEF TableTools

-----------------------------------------------------------------------------
(* The inductive invariant *)

Ends == Outcomes \cup Uncounted

CallRecord ==
  [pc : {"idle", "running", "asking", "walking", "sent", "done"}, request : Requests \cup {None},
   outcome : Ends \cup {None}, left : Seq(Looks), catalog : Catalog \cup {None},
   found : Found \cup Catalog \cup {None}, ever : SUBSET Names, lost : SUBSET Names]

Shape ==
  /\ calls \in [Calls -> CallRecord]
  /\ context \in [Calls -> Clients \cup {None}]
  /\ counts \in [Clients \X Outcomes -> Nat]
  /\ requests \subseteq Calls /\ effects \subseteq Calls
  /\ answers \subseteq [call : Calls, status : {202, 409, 503}]
  /\ known \subseteq Names

\* A catalog's history holds the tables it does not list, and those that are not there now.
Trails(catalog, names) ==
  /\ Names \ catalog.listed \subseteq catalog.lost
  /\ Names \ (names \cap Tables) \subseteq catalog.lost

\* A finished one has the time columns, but of tables that have none or went meanwhile.
Finished(catalog) == catalog.listed \ catalog.timed \subseteq Untimed \cup catalog.lost

Cached ==
  /\ cache \in Catalog \cup {None}
  /\ cache # None => Trails(cache, known) /\ Finished(cache)

Opened(call) == call.pc \in {"running", "asking", "walking", "sent"}

\* A call is where its request, with what was checked of it, puts it.
Placed(call) ==
  /\ call.pc = "idle" => call = Idle
  /\ call.pc # "idle" => call.request \in Requests
  /\ call.pc = "done" <=> call.outcome # None
  /\ Opened(call) => Admitted(call.request)
  /\ call.pc \in {"asking", "walking"} => /\ call.request.tool \in QueryingTools
                                          /\ Checks(call.request) = "nothing"
  /\ call.pc = "sent" => call.request.tool \in AskingTools /\ ~Mistaken(call.request)

\* Its history holds what its names are now; who names no table has all its names to look
\* up, or has found them; and a walk's history holds what it misses.
Noted(call, names) ==
  /\ Opened(call) => /\ ToSet(call.request.names) \cap names \subseteq call.ever
                     /\ ToSet(call.request.names) \ names \subseteq call.lost
  /\ call.pc \in {"asking", "walking"} =>
       /\ \A look \in ToSet(call.left) : look.names \subseteq ToSet(call.request.names)
       /\ call.request.tool \notin TableTools =>
            \/ call.left = LookUps(call.request)
            \/ call.left = <<>> /\ ToSet(call.request.names) \subseteq call.ever
  /\ call.pc = "walking" =>
       /\ call.left # <<>> /\ Head(call.left).by # "statement"
       /\ call.catalog # None /\ Trails(call.catalog, names)

\* The end of a call: no mistake yields data, a refusal has its cause, an answer is whole
\* or says that it is cut.
Told(call) ==
  LET r == call.request
      shown == Len(call.found.rows)
  IN /\ call.outcome = "ok" =>
          /\ Mistaken(r) => r.tool \in BucketingTools /\ r.bucket = 0 /\ call.found.count = 0
          /\ ToSet(r.names) \subseteq call.ever
     /\ call.outcome = "refused" /\ r.tool \in QueryingTools =>
          \/ Mistaken(r)
          \/ Missed(call)
          \/ /\ r.tool \in Aggregating /\ call.left = <<>>
             /\ call.found # None /\ call.found.count > RowLimit
     /\ call.outcome = "ok" /\ r.tool \in QueryingTools =>
          /\ call.found.rows = [i \in 1..shown |-> i]
          /\ CASE r.tool \in Aggregating -> shown = call.found.count
               [] r.tool \in Limited -> /\ shown = Min({r.limit, RowLimit, call.found.count})
                                        /\ call.found.truncated <=> shown < call.found.count
               [] OTHER -> shown = Min({TopN, RowLimit, call.found.count})

\* What a call asked the trigger for is on its way, or answered, or was done, once; and
\* only a call without a mistake asked.
Carried(c) ==
  LET call == calls[c]
      heard == {a \in answers : a.call = c}
  IN /\ c \in requests \cup effects \/ heard # {} =>
          /\ call.pc \in {"sent", "done"}
          /\ Admitted(call.request) /\ call.request.tool \in AskingTools
          /\ ~Mistaken(call.request)
     /\ c \in requests => c \notin effects /\ heard = {}
     /\ \A a \in heard : (a.status = 202 => c \in effects) /\ (a.status = 409 => c \notin effects)
     /\ call.outcome \in {"ok", "refused"} /\ call.request.tool \notin QueryingTools =>
          c \notin requests /\ (c \in effects <=> call.outcome = "ok")

BoundTo(c) == context[c] = IF Opened(calls[c]) THEN calls[c].request.client ELSE None

InOrder(c) ==
  Placed(calls[c]) /\ Noted(calls[c], known) /\ Told(calls[c]) /\ Carried(c) /\ BoundTo(c)

PipelineInv == Shape /\ Cached /\ (\A c \in Calls : InOrder(c)) /\ CountedOnce

-----------------------------------------------------------------------------
(* Lemmas about the steps *)

\* A call that a step leaves alone stays in order.
LEMMA LeftAlone ==
  ASSUME NEW c \in Calls, InOrder(c), calls'[c] = calls[c], context'[c] = context[c],
         known' = known, c \in requests' <=> c \in requests, c \in effects' <=> c \in effects,
         {a \in answers' : a.call = c} = {a \in answers : a.call = c}
  PROVE  InOrder(c)'
<1>1. Placed(calls[c])' /\ Noted(calls[c], known)' /\ Told(calls[c])' /\ BoundTo(c)'
  BY DEF InOrder, Placed, Noted, Trails, Told, Missed, BoundTo
<1>2. Carried(c)'
  BY DEF InOrder, Carried
<1> QED BY <1>1, <1>2 DEF InOrder

\* A catalog that is kept, of names that stay, is kept.
LEMMA CachedStays == ASSUME Cached, cache' = cache, known' = known PROVE Cached'
  BY DEF Cached, Trails, Finished

\* How a call ends when it ends by itself.
EndOf(call, outcome, found) ==
  [call EXCEPT !.pc = "done", !.outcome = outcome, !.found = found]

OutcomeOf(raised) ==
  CASE raised = "nothing" -> "ok" [] raised = "ValueError" -> "refused" [] OTHER -> "error"

\* A call that finishes has an outcome, and no other call is touched.
LEMMA FinishEnds ==
  ASSUME Shape, NEW c \in Calls, NEW raised, NEW found \in Found \cup Catalog \cup {None},
         FinishWith(c, raised, found)
  PROVE  /\ OutcomeOf(raised) \in Outcomes
         /\ EndOf(calls[c], OutcomeOf(raised), found) \in CallRecord
         /\ calls' = [calls EXCEPT ![c] = EndOf(calls[c], OutcomeOf(raised), found)]
         /\ calls' \in [Calls -> CallRecord]
         /\ context' = [context EXCEPT ![c] = None]
         /\ counts' = [counts EXCEPT ![<<context[c], OutcomeOf(raised)>>] = @ + 1]
<1> DEFINE o == OutcomeOf(raised)
           e == EndOf(calls[c], o, found)
<1>1. o \in Outcomes
  BY DEF OutcomeOf, Outcomes
<1>2. Leave(c, o, found)
  BY DEF FinishWith, OutcomeOf
<1>3. calls[c] \in CallRecord
  BY DEF Shape
<1> HIDE DEF o
<1>4. e \in CallRecord
  BY <1>1, <1>3 DEF EndOf, CallRecord, Ends
<1>5. calls' = [calls EXCEPT ![c] = e]
  BY <1>2 DEF Leave, EndOf
<1>6. calls' \in [Calls -> CallRecord]
  BY <1>4, <1>5 DEF Shape
<1> QED BY <1>1, <1>2, <1>4, <1>5, <1>6 DEF Leave, o

-----------------------------------------------------------------------------
(* Counting *)

Counted(client, outcome) ==
  {d \in Calls : calls[d].outcome = outcome /\ calls[d].request.client = client}

\* A step that ends no call by itself leaves the counts as they have to be.
LEMMA CountsStay ==
  ASSUME CountedOnce, counts' = counts,
         \A d \in Calls : \/ /\ calls'[d].outcome = calls[d].outcome
                             /\ calls'[d].request = calls[d].request
                          \/ calls[d].outcome \notin Outcomes /\ calls'[d].outcome \notin Outcomes
  PROVE  CountedOnce'
<1>1. ASSUME NEW client \in Clients, NEW outcome \in Outcomes
      PROVE  Counted(client, outcome)' = Counted(client, outcome)
  BY DEF Counted
<1>2. ASSUME NEW client \in Clients, NEW outcome \in Outcomes
      PROVE  counts[client, outcome] = Cardinality(Counted(client, outcome))
  BY DEF CountedOnce, Counted
<1>3. ASSUME NEW client \in Clients, NEW outcome \in Outcomes
      PROVE  counts'[client, outcome] = Cardinality(Counted(client, outcome)')
  BY <1>1, <1>2
<1> QED BY <1>3 DEF CountedOnce, Counted

\* A call that ends by itself is one more under its route and its outcome.
LEMMA CountsOneMore ==
  ASSUME Shape, CountedOnce, NEW c \in Calls, NEW client \in Clients, NEW outcome \in Outcomes,
         calls[c].outcome = None, calls[c].request.client = client,
         NEW e, e.outcome = outcome, e.request = calls[c].request,
         calls' = [calls EXCEPT ![c] = e],
         counts' = [counts EXCEPT ![<<client, outcome>>] = @ + 1]
  PROVE  CountedOnce'
<1>1. outcome # None
  BY PipelineAssumption
<1>2. calls \in [Calls -> CallRecord] /\ counts \in [Clients \X Outcomes -> Nat]
  BY DEF Shape
<1>3. \A d \in Calls : calls'[d] = IF d = c THEN e ELSE calls[d]
  BY <1>2
<1>4. ASSUME NEW k \in Clients, NEW o \in Outcomes
      PROVE  counts[k, o] = Cardinality(Counted(k, o))
  BY DEF CountedOnce, Counted
<1>5. ASSUME NEW k \in Clients, NEW o \in Outcomes
      PROVE  counts'[k, o] = Cardinality(Counted(k, o)')
  <2>1. CASE k = client /\ o = outcome
    <3>1. Counted(k, o)' = Counted(k, o) \cup {c} /\ c \notin Counted(k, o)
      BY <1>1, <1>3, <2>1 DEF Counted
    <3>2. IsFiniteSet(Counted(k, o))
      BY PipelineAssumption, FS_Subset DEF Counted
    <3>3. Cardinality(Counted(k, o)') = Cardinality(Counted(k, o)) + 1
      BY <3>1, <3>2, FS_AddElement
    <3>4. counts'[k, o] = counts[k, o] + 1
      BY <1>2, <2>1
    <3> QED BY <1>4, <3>3, <3>4
  <2>2. CASE ~(k = client /\ o = outcome)
    <3>1. o # None
      BY PipelineAssumption
    <3>2. Counted(k, o)' = Counted(k, o)
      BY <1>3, <2>2, <3>1 DEF Counted
    <3>3. counts'[k, o] = counts[k, o]
      BY <1>2, <2>2
    <3> QED BY <1>4, <3>2, <3>3
  <2> QED BY <2>1, <2>2
<1> QED BY <1>5 DEF CountedOnce, Counted

-----------------------------------------------------------------------------
(* Every step keeps the invariant *)

\* The caller of an open call is one of the routes, and bound.
LEMMA OpenIsBound ==
  ASSUME PipelineInv, NEW c \in Calls, Opened(calls[c])
  PROVE  /\ calls[c] \in CallRecord /\ calls[c].request \in Requests
         /\ context[c] = calls[c].request.client /\ context[c] \in Clients
         /\ calls[c].outcome = None
<1>1. calls[c] \in CallRecord /\ InOrder(c)
  BY DEF PipelineInv, Shape
<1>2. calls[c].request \in Requests /\ Admitted(calls[c].request) /\ calls[c].outcome = None
  BY <1>1 DEF InOrder, Placed, Opened
<1>3. context[c] = calls[c].request.client
  BY <1>1 DEF InOrder, BoundTo
<1> QED BY <1>1, <1>2, <1>3, RequestTyped DEF Admitted

\* A call that ends by itself, told the truth, leaves the pipeline in order.
LEMMA EndedInOrder ==
  ASSUME PipelineInv, NEW c \in Calls, Opened(calls[c]),
         NEW raised, NEW found \in Found \cup Catalog \cup {None}, FinishWith(c, raised, found),
         Told(EndOf(calls[c], OutcomeOf(raised), found)), Carried(c)', Cached',
         known' = known, effects' = effects, requests' \in {requests, requests \ {c}},
         answers' \subseteq answers, \A a \in answers : a.call # c => a \in answers'
  PROVE  PipelineInv'
<1> DEFINE o == OutcomeOf(raised)
           e == EndOf(calls[c], o, found)
<1>1. Shape /\ CountedOnce /\ \A d \in Calls : InOrder(d)
  BY DEF PipelineInv
<1>2. /\ o \in Outcomes /\ calls' = [calls EXCEPT ![c] = e] /\ calls' \in [Calls -> CallRecord]
      /\ context' = [context EXCEPT ![c] = None]
      /\ counts' = [counts EXCEPT ![<<context[c], o>>] = @ + 1]
  BY <1>1, FinishEnds
<1>3. /\ calls[c] \in CallRecord /\ calls[c].request \in Requests
      /\ context[c] = calls[c].request.client /\ context[c] \in Clients
      /\ calls[c].outcome = None
  BY OpenIsBound
<1>4. e.pc = "done" /\ e.outcome = o /\ e.request = calls[c].request
  BY <1>3 DEF EndOf, CallRecord
<1>5. calls \in [Calls -> CallRecord] /\ context \in [Calls -> Clients \cup {None}]
      /\ counts \in [Clients \X Outcomes -> Nat]
  BY <1>1 DEF Shape
<1> HIDE DEF o
<1>6. Shape'
  <2>1. context' \in [Calls -> Clients \cup {None}]
    BY <1>2, <1>5
  <2>2. counts' \in [Clients \X Outcomes -> Nat]
    BY <1>2, <1>3, <1>5
  <2> QED BY <1>1, <1>2, <2>1, <2>2 DEF Shape
<1>7. ASSUME NEW d \in Calls, d # c PROVE InOrder(d)'
  <2>1. calls'[d] = calls[d] /\ context'[d] = context[d]
    BY <1>2, <1>5, <1>7
  <2>2. {a \in answers' : a.call = d} = {a \in answers : a.call = d}
    BY <1>7
  <2> QED BY <1>1, <1>7, <2>1, <2>2, LeftAlone
<1>8. calls'[c] = e /\ context'[c] = None
  BY <1>2, <1>5
<1>9. InOrder(c)'
  <2>1. Placed(e)
    <3>1. o # None
      BY <1>2, PipelineAssumption
    <3> QED BY <1>3, <1>4, <3>1 DEF Placed, Opened
  <2>2. Noted(e, known)
    BY <1>4 DEF Noted, Opened
  <2>3. Told(e)
    BY DEF o
  <2>4. BoundTo(c)'
    BY <1>4, <1>8 DEF BoundTo, Opened
  <2> HIDE DEF e
  <2> QED BY <1>8, <2>1, <2>2, <2>3, <2>4 DEF InOrder
<1>10. CountedOnce'
  <2> HIDE DEF e
  <2> QED BY <1>1, <1>2, <1>3, <1>4, CountsOneMore
<1> QED BY <1>6, <1>7, <1>9, <1>10 DEF PipelineInv

\* Of a call that has not asked the trigger yet nothing is there, and ending it
\* otherwise than well is true of it.
LEMMA NothingAsked ==
  ASSUME PipelineInv, NEW c \in Calls, calls[c].pc \in {"idle", "running", "asking", "walking"}
  PROVE  c \notin requests /\ c \notin effects /\ \A a \in answers : a.call # c
<1>1. Carried(c)
  BY DEF PipelineInv, InOrder
<1> QED BY <1>1 DEF Carried

\* A call that has not come to the trigger has nothing on its way to it.
LEMMA NothingCarried ==
  ASSUME PipelineInv, NEW c \in Calls, calls[c].pc \in {"idle", "running", "asking", "walking"},
         UNCHANGED trigger,
         calls'[c].outcome = "ok" => calls'[c].request.tool \in QueryingTools
  PROVE  Carried(c)'
<1>1. requests' = requests /\ effects' = effects /\ answers' = answers
  BY DEF trigger
<1>2. c \notin requests /\ c \notin effects /\ \A a \in answers : a.call # c
  BY NothingAsked
<1> QED BY <1>1, <1>2 DEF Carried

\* The same, for a call that ends by itself in one of the querying steps.
LEMMA EndedUnasked ==
  ASSUME PipelineInv, NEW c \in Calls, calls[c].pc \in {"running", "asking", "walking"},
         NEW raised, NEW found \in Found \cup Catalog \cup {None}, FinishWith(c, raised, found),
         Told(EndOf(calls[c], OutcomeOf(raised), found)),
         raised = "nothing" => calls[c].request.tool \in QueryingTools,
         UNCHANGED <<trigger, known>>, Cached'
  PROVE  PipelineInv'
<1>1. Opened(calls[c]) /\ Shape
  BY DEF Opened, PipelineInv
<1>2. calls \in [Calls -> CallRecord] /\ calls[c] \in CallRecord
  BY <1>1 DEF Shape
<1>3. calls'[c] = EndOf(calls[c], OutcomeOf(raised), found)
  <2>1. calls' = [calls EXCEPT ![c] = EndOf(calls[c], OutcomeOf(raised), found)]
    BY <1>1, FinishEnds
  <2> QED BY <1>2, <2>1
<1>4. calls'[c].outcome = OutcomeOf(raised) /\ calls'[c].request = calls[c].request
  BY <1>2, <1>3 DEF EndOf, CallRecord
<1>5. OutcomeOf(raised) = "ok" => raised = "nothing"
  BY DEF OutcomeOf
<1>6. Carried(c)'
  BY <1>4, <1>5, NothingCarried
<1>7. requests' = requests /\ effects' = effects /\ answers' = answers /\ known' = known
  BY DEF trigger
<1> QED BY <1>1, <1>6, <1>7, EndedInOrder

\* What is refused for a mistake or for a name that is gone, and what fails, is told
\* truly without rows.
LEMMA RefusalIsTold ==
  ASSUME NEW call \in CallRecord, call.request \in Requests,
         NEW outcome \in {"refused", "error"}, NEW found \in Found \cup Catalog \cup {None},
         outcome = "refused" => \/ call.request.tool \notin QueryingTools
                                \/ Mistaken(call.request)
                                \/ Missed(EndOf(call, outcome, found))
  PROVE  Told(EndOf(call, outcome, found))
<1> DEFINE e == EndOf(call, outcome, found)
<1>1. e.outcome = outcome /\ e.request = call.request
  BY DEF EndOf, CallRecord
<1> HIDE DEF e
<1>2. outcome = "refused" => call.request.tool \notin QueryingTools \/ Mistaken(call.request) \/ Missed(e)
  BY DEF e
<1>3. Told(e)
  BY <1>1, <1>2 DEF Told
<1> QED BY <1>3 DEF e

\* A step of one call that is in order afterwards leaves the pipeline in order, unless
\* it ends the call by itself, which has to be counted.
LEMMA OneCallMoves ==
  ASSUME PipelineInv, NEW c \in Calls, NEW e \in CallRecord, NEW bound \in Clients \cup {None},
         calls' = [calls EXCEPT ![c] = e], context' = [context EXCEPT ![c] = bound],
         counts' = counts, known' = known, effects' = effects, answers' = answers,
         requests' \in {requests, requests \cup {c}},
         \/ e.outcome = calls[c].outcome /\ e.request = calls[c].request
         \/ e.outcome \notin Outcomes /\ calls[c].outcome \notin Outcomes,
         Placed(e), Noted(e, known), Told(e), Carried(c)', Cached',
         bound = IF Opened(e) THEN e.request.client ELSE None
  PROVE  PipelineInv'
<1>1. Shape /\ CountedOnce /\ \A d \in Calls : InOrder(d)
  BY DEF PipelineInv
<1>2. calls \in [Calls -> CallRecord] /\ context \in [Calls -> Clients \cup {None}]
  BY <1>1 DEF Shape
<1>3. calls' \in [Calls -> CallRecord] /\ context' \in [Calls -> Clients \cup {None}]
  BY <1>2
<1>4. calls'[c] = e /\ context'[c] = bound
  BY <1>2
<1>5. Shape'
  BY <1>1, <1>3 DEF Shape
<1>6. ASSUME NEW d \in Calls, d # c PROVE InOrder(d)'
  <2>1. calls'[d] = calls[d] /\ context'[d] = context[d]
    BY <1>2, <1>6
  <2> QED BY <1>1, <1>6, <2>1, LeftAlone
<1>7. InOrder(c)'
  <2>1. BoundTo(c)'
    BY <1>4 DEF BoundTo
  <2> QED BY <1>4, <2>1 DEF InOrder
<1>8. CountedOnce'
  <2>1. \A d \in Calls : d # c => calls'[d] = calls[d]
    BY <1>2
  <2> QED BY <1>1, <1>4, <2>1, CountsStay
<1> QED BY <1>5, <1>6, <1>7, <1>8 DEF PipelineInv

\* A tool begins with its checks.
LEMMA BeginKeeps ==
  ASSUME PipelineInv, NEW c \in Calls, Begin(c)
  PROVE  PipelineInv'
<1> DEFINE r == calls[c].request
<1>1. calls[c].pc = "running" /\ r \in Requests /\ r.tool \in QueryingTools /\ Opened(calls[c])
      /\ calls[c] \in CallRecord /\ calls[c].outcome = None /\ UNCHANGED trigger /\ known' = known
      /\ Cached'
  BY OpenIsBound, CachedStays DEF Begin, Opened, database, PipelineInv
<1>2. CASE Checks(r) # "nothing"
  <2>1. FinishWith(c, Checks(r), None)
    BY <1>2 DEF Begin, Finish
  <2>2. OutcomeOf(Checks(r)) \in {"refused", "error"}
        /\ (OutcomeOf(Checks(r)) = "refused" => Checks(r) = "ValueError")
    BY <1>2 DEF OutcomeOf
  <2>3. Told(EndOf(calls[c], OutcomeOf(Checks(r)), None))
    BY <1>1, <2>2, ChecksFindMistakes, RefusalIsTold
  <2> QED BY <1>1, <1>2, <2>1, <2>3, EndedUnasked
<1>3. CASE Checks(r) = "nothing"
  <2> DEFINE e == [calls[c] EXCEPT !.pc = "asking", !.left = LookUps(r)]
  <2>1. /\ calls' = [calls EXCEPT ![c] = e] /\ context' = context /\ counts' = counts
        /\ requests' = requests /\ effects' = effects /\ answers' = answers
    BY <1>1, <1>3 DEF Begin, trigger
  <2>2. /\ LookUps(r) \in Seq(Looks)
        /\ \A look \in ToSet(LookUps(r)) : look.names \subseteq ToSet(r.names)
    BY <1>1, LookUpsOfItsNames
  <2>3. /\ e \in CallRecord /\ e.pc = "asking" /\ e.left = LookUps(r) /\ e.request = r
        /\ e.outcome = None /\ e.ever = calls[c].ever /\ e.lost = calls[c].lost
    BY <1>1, <2>2 DEF CallRecord
  <2> HIDE DEF e
  <2>4. InOrder(c) /\ calls \in [Calls -> CallRecord] /\ context \in [Calls -> Clients \cup {None}]
    BY DEF PipelineInv, Shape
  <2>5. Placed(e)
    BY <1>1, <1>3, <2>3, <2>4 DEF InOrder, Placed, Opened
  <2>6. Noted(e, known)
    BY <1>1, <2>2, <2>3, <2>4 DEF InOrder, Noted, Opened
  <2>7. Told(e) /\ e.outcome # "ok"
    BY <2>3, PipelineAssumption DEF Told, Outcomes
  <2>8. Carried(c)'
    <3>1. calls'[c].outcome # "ok"
      BY <2>1, <2>4, <2>7
    <3> QED BY <1>1, <3>1, NothingCarried
  <2>9. context' = [context EXCEPT ![c] = r.client] /\ r.client \in Clients
    BY <1>1, <2>1, <2>4, OpenIsBound
  <2> QED BY <1>1, <2>1, <2>3, <2>5, <2>6, <2>7, <2>8, <2>9, OneCallMoves DEF Opened
<1> QED BY <1>2, <1>3

\* A call that has not arrived is a call.
LEMMA IdleTyped == Idle \in CallRecord
<1> DEFINE none == <<>>
           no == {}
<1>1. none \in Seq(Looks) /\ no \in SUBSET Names
  OBVIOUS
<1> DEFINE idle == [pc |-> "idle", request |-> None, outcome |-> None, left |-> none,
                    catalog |-> None, found |-> None, ever |-> no, lost |-> no]
<1> HIDE DEF none, no
<1>2. idle \in CallRecord
  BY <1>1 DEF CallRecord
<1> QED BY <1>2 DEF Idle, none, no

\* A sequence has its head and what its tail has.
LEMMA HeadAndTail ==
  ASSUME NEW S, NEW s \in Seq(S), s # <<>>
  PROVE  Head(s) \in ToSet(s) /\ Tail(s) \in Seq(S) /\ ToSet(s) = {Head(s)} \cup ToSet(Tail(s))
<1> DEFINE t == Tail(s)
<1>1. Len(s) \in Nat /\ Len(s) >= 1 /\ Head(s) = s[1]
  OBVIOUS
<1>2. /\ t \in Seq(S) /\ Len(t) = Len(s) - 1
      /\ \A i \in 1..(Len(s) - 1) : t[i] = s[i + 1]
  BY <1>1
<1> HIDE DEF t
<1>3. ToSet(s) = {s[i] : i \in 1..Len(s)} /\ ToSet(t) = {t[i] : i \in 1..(Len(s) - 1)}
  <2>1. DOMAIN s = 1..Len(s) /\ DOMAIN t = 1..Len(t)
    BY <1>2
  <2>2. DOMAIN t = 1..(Len(s) - 1)
    BY <1>2, <2>1
  <2> QED BY <2>1, <2>2, Zenon DEF ToSet
<1>4. ASSUME NEW i \in 1..Len(s), i # 1 PROVE s[i] \in ToSet(t)
  <2>1. i - 1 \in 1..(Len(s) - 1) /\ (i - 1) + 1 = i
    BY <1>1, <1>4
  <2> QED BY <1>2, <1>3, <2>1
<1>5. ASSUME NEW i \in 1..(Len(s) - 1) PROVE t[i] \in ToSet(s)
  <2>1. i + 1 \in 1..Len(s)
    BY <1>1
  <2> QED BY <1>2, <1>3, <2>1
<1>6. s[1] \in ToSet(s)
  BY <1>1, <1>3
<1> QED BY <1>1, <1>2, <1>3, <1>4, <1>5, <1>6 DEF t

\* A request arrives: admitted and bound, or answered at once.
LEMMA ArriveKeeps ==
  ASSUME PipelineInv, NEW c \in Calls, NEW r \in Requests, Arrive(c, r)
  PROVE  PipelineInv'
<1>1. calls \in [Calls -> CallRecord] /\ context \in [Calls -> Clients \cup {None}] /\ InOrder(c)
      /\ known \subseteq Names
  BY DEF PipelineInv, Shape
<1>2. /\ calls[c].pc = "idle" /\ calls[c] = Idle /\ counts' = counts /\ UNCHANGED trigger
      /\ known' = known /\ requests' = requests /\ effects' = effects /\ answers' = answers
      /\ Cached'
  BY <1>1, CachedStays DEF Arrive, InOrder, Placed, trigger, database, PipelineInv
<1>3. /\ calls[c].outcome = None /\ context[c] = None /\ None \notin Outcomes
  BY <1>1, <1>2, PipelineAssumption DEF Idle, InOrder, BoundTo, Opened
<1>4. ToSet(r.names) \subseteq Names
  BY RequestTyped DEF ToSet
<1>5. CASE r.path = "mcp" /\ Admitted(r)
  <2> DEFINE e == [Idle EXCEPT !.pc = "running", !.request = r,
                     !.ever = ToSet(r.names) \cap known, !.lost = ToSet(r.names) \ known]
  <2>1. calls' = [calls EXCEPT ![c] = e] /\ context' = [context EXCEPT ![c] = r.client]
    BY <1>5 DEF Arrive
  <2>2. /\ e.pc = "running" /\ e.request = r /\ e.outcome = None
        /\ e.ever = ToSet(r.names) \cap known /\ e.lost = ToSet(r.names) \ known
    BY DEF Idle
  <2>3. e \in CallRecord
    BY <1>4, IdleTyped DEF CallRecord
  <2> HIDE DEF e
  <2>4. r.client \in Clients
    BY <1>5, RequestTyped DEF Admitted
  <2>5. Placed(e) /\ Opened(e) /\ Noted(e, known)
    BY <1>5, <2>2 DEF Placed, Noted, Opened
  <2>6. Told(e)
    BY <2>2, PipelineAssumption DEF Told, Outcomes
  <2>7. Carried(c)'
    <3>1. calls'[c].outcome # "ok"
      BY <1>1, <2>1, <2>2, PipelineAssumption DEF Outcomes
    <3> QED BY <1>2, <3>1, NothingCarried
  <2> QED BY <1>2, <1>3, <2>1, <2>2, <2>3, <2>4, <2>5, <2>6, <2>7, OneCallMoves
<1>6. CASE ~(r.path = "mcp" /\ Admitted(r))
  <2> DEFINE o == IF r.path = "probe" THEN "answered" ELSE "unauthorized"
             e == [Idle EXCEPT !.pc = "done", !.request = r, !.outcome = o]
  <2>1. calls' = [calls EXCEPT ![c] = e] /\ context' = context
    BY <1>6 DEF Arrive
  <2>2. o \in Uncounted /\ o \notin Outcomes /\ o # None
    BY PipelineAssumption DEF Outcomes, Uncounted
  <2>3. e.pc = "done" /\ e.request = r /\ e.outcome = o
    BY DEF Idle
  <2> HIDE DEF o
  <2>4. e \in CallRecord
    BY <2>2, IdleTyped DEF CallRecord, Ends
  <2> HIDE DEF e
  <2>5. Placed(e) /\ ~Opened(e) /\ Noted(e, known)
    BY <2>2, <2>3 DEF Placed, Noted, Opened
  <2>6. Told(e)
    BY <2>2, <2>3 DEF Told, Outcomes
  <2>7. Carried(c)'
    <3>1. calls'[c].outcome # "ok"
      BY <1>1, <2>1, <2>2, <2>3 DEF Outcomes
    <3> QED BY <1>2, <3>1, NothingCarried
  <2>8. context' = [context EXCEPT ![c] = None]
    BY <1>1, <1>3, <2>1
  <2> QED BY <1>2, <1>3, <2>1, <2>2, <2>3, <2>4, <2>5, <2>6, <2>7, <2>8, OneCallMoves
<1> QED BY <1>5, <1>6

\* A call is cut off at an await and is not counted.
LEMMA CancelKeeps ==
  ASSUME PipelineInv, NEW c \in Calls, Cancel(c)
  PROVE  PipelineInv'
<1> DEFINE e == [calls[c] EXCEPT !.pc = "done", !.outcome = "cancelled"]
<1>1. /\ calls' = [calls EXCEPT ![c] = e] /\ context' = [context EXCEPT ![c] = None]
      /\ counts' = counts /\ known' = known
      /\ requests' = requests /\ effects' = effects /\ answers' = answers /\ Cached'
  BY CachedStays DEF Cancel, trigger, database, PipelineInv
<1>2. Opened(calls[c])
  BY DEF Cancel, Open, Opened
<1>3. calls[c] \in CallRecord /\ calls[c].request \in Requests /\ calls[c].outcome = None
  BY <1>2, OpenIsBound
<1>4. /\ e \in CallRecord /\ e.pc = "done" /\ e.outcome = "cancelled"
      /\ e.request = calls[c].request
  BY <1>3 DEF CallRecord, Ends, Uncounted
<1> HIDE DEF e
<1>5. "cancelled" # None /\ "cancelled" \notin Outcomes /\ None \notin Outcomes
  BY PipelineAssumption DEF Outcomes, Uncounted
<1>6. Placed(e) /\ ~Opened(e) /\ Noted(e, known) /\ Told(e)
  BY <1>3, <1>4, <1>5 DEF Placed, Noted, Told, Opened
<1>7. calls \in [Calls -> CallRecord] /\ InOrder(c)
  BY DEF PipelineInv, Shape
<1>8. Carried(c)'
  <2>1. calls'[c] = e
    BY <1>1, <1>7
  <2>2. Carried(c)
    BY <1>7 DEF InOrder
  <2> QED BY <1>1, <1>2, <1>4, <2>1, <2>2 DEF Carried, Opened
<1> QED BY <1>1, <1>3, <1>4, <1>5, <1>6, <1>8, OneCallMoves

\* What is missing of a table is in the history of the catalog it is sought in, or it has
\* no time column.
LEMMA CatalogMisses ==
  ASSUME NEW call \in CallRecord, NEW catalog \in Catalog, NEW names,
         call.left # <<>>, Head(call.left).by # "statement",
         Trails(catalog, names), Finished(catalog),
         ~(Head(call.left).names \subseteq
             (IF Head(call.left).by = "resolve" THEN catalog.timed ELSE catalog.listed))
  PROVE  Missed(EndOf(call, "refused", catalog))
<1> DEFINE e == EndOf(call, "refused", catalog)
           sought == Head(call.left)
<1>1. e.left = call.left /\ e.found = catalog
  BY DEF EndOf, CallRecord
<1>2. sought \in Looks
  BY HeadAndTail DEF CallRecord
<1>3. sought.names \subseteq Names /\ sought.by \in {"resolve", "get_schema"}
  BY <1>2 DEF Looks
<1> HIDE DEF e
<1>4. CASE sought.by = "resolve"
  <2>1. PICK n \in sought.names : n \notin catalog.timed
    BY <1>4
  <2>2. n \in catalog.lost \cup Untimed
    BY <1>3, <2>1 DEF Trails, Finished
  <2> QED BY <1>1, <1>4, <2>1, <2>2 DEF Missed, e
<1>5. CASE sought.by = "get_schema"
  <2>1. PICK n \in sought.names : n \notin catalog.listed
    BY <1>5
  <2>2. n \in catalog.lost
    BY <1>3, <2>1 DEF Trails
  <2> QED BY <1>1, <1>5, <2>1, <2>2 DEF Missed, e
<1> QED BY <1>3, <1>4, <1>5

\* A look-up that finds what it sought leaves the rest of them.
LEMMA FoundMovesOn ==
  ASSUME PipelineInv, NEW c \in Calls, calls[c].pc \in {"asking", "walking"},
         calls[c].left # <<>>, NEW catalog \in {calls[c].catalog, None},
         calls' = [calls EXCEPT ![c].pc = "asking", ![c].left = Tail(@), ![c].catalog = catalog],
         Head(calls[c].left).by = "statement" => Head(calls[c].left).names \subseteq known,
         UNCHANGED <<context, counts, trigger, known>>, Cached'
  PROVE  PipelineInv'
<1> DEFINE r == calls[c].request
           left == calls[c].left
           e == [calls[c] EXCEPT !.pc = "asking", !.left = Tail(left), !.catalog = catalog]
<1>1. /\ calls \in [Calls -> CallRecord] /\ context \in [Calls -> Clients \cup {None}]
      /\ InOrder(c) /\ calls[c] \in CallRecord
      /\ requests' = requests /\ effects' = effects /\ answers' = answers
      /\ known' = known /\ counts' = counts /\ context' = context
  BY DEF PipelineInv, Shape, trigger
<1>2. Opened(calls[c]) /\ r \in Requests /\ r.tool \in QueryingTools /\ calls[c].outcome = None
      /\ Checks(r) = "nothing" /\ r.client \in Clients /\ context[c] = r.client
  BY <1>1, OpenIsBound DEF InOrder, Placed, Opened
<1>3. left \in Seq(Looks) /\ Tail(left) \in Seq(Looks) /\ ToSet(Tail(left)) \subseteq ToSet(left)
  BY <1>1, HeadAndTail DEF CallRecord
<1>4. calls' = [calls EXCEPT ![c] = e]
  BY <1>1
<1>5. /\ e \in CallRecord /\ e.pc = "asking" /\ e.left = Tail(left) /\ e.request = r
      /\ e.outcome = None /\ e.ever = calls[c].ever /\ e.lost = calls[c].lost
  BY <1>1, <1>2, <1>3 DEF CallRecord
<1> HIDE DEF e
<1>6. Placed(e) /\ Opened(e)
  BY <1>1, <1>2, <1>5 DEF InOrder, Placed, Opened
<1>7. r.tool \notin TableTools => e.left = <<>> /\ ToSet(r.names) \subseteq e.ever
  <2>1. SUFFICES ASSUME r.tool \notin TableTools PROVE e.left = <<>> /\ ToSet(r.names) \subseteq e.ever
    OBVIOUS
  <2>2. left = LookUps(r)
    BY <1>1, <2>1 DEF InOrder, Noted
  <2> DEFINE look == Look("statement", ToSet(r.names))
  <2> HIDE DEF look
  <2>3. left = <<look>>
    BY <1>2, <2>1, <2>2, LookUpsOfItsNames DEF look
  <2>4. Tail(left) = <<>> /\ Head(left) = look
    BY <2>3
  <2>5. look.by = "statement" /\ look.names = ToSet(r.names)
    BY DEF look, Look
  <2>6. ToSet(r.names) \subseteq known
    BY <2>4, <2>5
  <2> QED BY <1>1, <1>2, <1>5, <2>4, <2>6 DEF InOrder, Noted
<1>8. Noted(e, known)
  BY <1>1, <1>2, <1>3, <1>5, <1>7 DEF InOrder, Noted
<1>9. Told(e) /\ e.outcome # "ok"
  BY <1>5, PipelineAssumption DEF Told, Outcomes
<1>10. Carried(c)'
  <2>1. calls'[c].outcome # "ok"
    BY <1>1, <1>4, <1>9
  <2> QED BY <2>1, NothingCarried
<1>11. context' = [context EXCEPT ![c] = r.client]
  BY <1>1, <1>2
<1>12. r.client = (IF Opened(e) THEN e.request.client ELSE None) /\ Cached'
  BY <1>5, <1>6
<1>13. /\ requests' \in {requests, requests \cup {c}} /\ r.client \in Clients \cup {None}
       /\ e.outcome = calls[c].outcome /\ e.request = calls[c].request
  BY <1>1, <1>2, <1>5
<1> HIDE DEF r
<1> QED BY <1>1, <1>4, <1>5, <1>6, <1>8, <1>9, <1>10, <1>11, <1>12, <1>13, OneCallMoves, Zenon

\* A table is sought in a finished catalog: it is found, or the call is refused for it.
LEMMA SeekKeeps ==
  ASSUME PipelineInv, NEW c \in Calls, calls[c].pc \in {"asking", "walking"},
         calls[c].left # <<>>, Head(calls[c].left).by # "statement",
         NEW catalog \in Catalog, Trails(catalog, known), Finished(catalog), SeekIn(c, catalog),
         UNCHANGED <<trigger, known>>, Cached'
  PROVE  PipelineInv'
<1> DEFINE wanted == IF Sought(c).by = "resolve" THEN catalog.timed ELSE catalog.listed
<1>1. /\ calls[c] \in CallRecord /\ calls[c].request \in Requests /\ Opened(calls[c])
  BY OpenIsBound DEF Opened
<1>2. CASE Sought(c).names \subseteq wanted
  <2>1. /\ calls' = [calls EXCEPT ![c].pc = "asking", ![c].left = Tail(@), ![c].catalog = None]
        /\ context' = context /\ counts' = counts
    BY <1>2 DEF SeekIn
  <2> QED BY <2>1, FoundMovesOn
<1>3. CASE ~(Sought(c).names \subseteq wanted)
  <2>1. FinishWith(c, "ValueError", catalog) /\ OutcomeOf("ValueError") = "refused"
    BY <1>3 DEF SeekIn, OutcomeOf
  <2>2. Missed(EndOf(calls[c], "refused", catalog))
    BY <1>1, <1>3, CatalogMisses DEF Sought
  <2>3. Told(EndOf(calls[c], OutcomeOf("ValueError"), catalog))
    BY <1>1, <2>1, <2>2, RefusalIsTold
  <2> QED BY <1>1, <2>1, <2>3, EndedUnasked
<1> QED BY <1>2, <1>3

\* A table is sought in the cache.
LEMMA HitKeeps ==
  ASSUME PipelineInv, NEW c \in Calls, Hit(c)
  PROVE  PipelineInv'
<1>1. /\ calls[c].pc = "asking" /\ calls[c].left # <<>> /\ Head(calls[c].left).by # "statement"
      /\ cache # None /\ SeekIn(c, cache) /\ UNCHANGED <<trigger, known>> /\ cache' = cache
  BY DEF Hit, Seeking, Sought, database
<1>2. Cached /\ Cached'
  BY <1>1, CachedStays DEF PipelineInv
<1>3. cache \in Catalog /\ Trails(cache, known) /\ Finished(cache)
  BY <1>1, <1>2 DEF Cached
<1> QED BY <1>1, <1>2, <1>3, SeekKeeps

\* A walk begins with the tables there are.
LEMMA WalkKeeps ==
  ASSUME PipelineInv, NEW c \in Calls, Walk(c)
  PROVE  PipelineInv'
<1> DEFINE r == calls[c].request
           listed == known \cap Tables
           catalog == [listed |-> listed, timed |-> {}, lost |-> Names \ listed]
           e == [calls[c] EXCEPT !.pc = "walking", !.catalog = catalog]
<1>1. /\ calls[c].pc = "asking" /\ calls[c].left # <<>> /\ Head(calls[c].left).by # "statement"
      /\ UNCHANGED <<context, counts, trigger, known>> /\ cache' = cache
      /\ requests' = requests /\ effects' = effects /\ answers' = answers
  BY DEF Walk, Seeking, Sought, database, trigger
<1>2. /\ calls \in [Calls -> CallRecord] /\ context \in [Calls -> Clients \cup {None}]
      /\ InOrder(c) /\ calls[c] \in CallRecord /\ known \subseteq Names /\ Cached'
  BY <1>1, CachedStays DEF PipelineInv, Shape
<1>3. Opened(calls[c]) /\ r \in Requests /\ calls[c].outcome = None
      /\ r.client \in Clients /\ context[c] = r.client
  BY <1>1, OpenIsBound DEF Opened
<1>4. calls' = [calls EXCEPT ![c] = e]
  BY <1>2 DEF Walk
<1>5. catalog \in Catalog /\ Trails(catalog, known)
  BY <1>2 DEF Catalog, Trails
<1>6. catalog # None
  BY <1>5, PipelineAssumption
<1> HIDE DEF catalog
<1>7. /\ e \in CallRecord /\ e.pc = "walking" /\ e.left = calls[c].left /\ e.request = r
      /\ e.outcome = None /\ e.ever = calls[c].ever /\ e.lost = calls[c].lost /\ e.catalog = catalog
  BY <1>2, <1>3, <1>5 DEF CallRecord
<1> HIDE DEF e
<1>8. Placed(e) /\ Opened(e)
  BY <1>1, <1>2, <1>3, <1>7 DEF InOrder, Placed, Opened
<1>9. Noted(e, known)
  BY <1>1, <1>2, <1>3, <1>5, <1>6, <1>7 DEF InOrder, Noted
<1>10. Told(e) /\ e.outcome # "ok"
  BY <1>7, PipelineAssumption DEF Told, Outcomes
<1>11. Carried(c)'
  <2>1. calls'[c].outcome # "ok"
    BY <1>2, <1>4, <1>10
  <2> QED BY <1>1, <2>1, NothingCarried
<1>12. context' = [context EXCEPT ![c] = r.client]
  BY <1>1, <1>2, <1>3
<1> QED BY <1>1, <1>2, <1>3, <1>4, <1>7, <1>8, <1>9, <1>10, <1>11, <1>12, OneCallMoves

\* A walk ends: its catalog is kept, and looked into.
LEMMA WalkEndsKeeps ==
  ASSUME PipelineInv, NEW c \in Calls, WalkEnds(c)
  PROVE  PipelineInv'
<1> DEFINE walked == calls[c].catalog
<1>1. /\ calls[c].pc = "walking" /\ SeekIn(c, cache') /\ UNCHANGED <<trigger, known>>
      /\ cache' = [walked EXCEPT !.timed = (walked.listed \cap known) \ Untimed]
  BY DEF WalkEnds
<1>2. calls[c] \in CallRecord /\ InOrder(c) /\ known \subseteq Names
  BY DEF PipelineInv, Shape
<1>3. /\ calls[c].left # <<>> /\ Head(calls[c].left).by # "statement"
      /\ walked # None /\ Trails(walked, known)
  BY <1>1, <1>2 DEF InOrder, Noted
<1>4. walked \in Catalog
  BY <1>2, <1>3 DEF CallRecord
<1>5. /\ cache' \in Catalog /\ cache'.listed = walked.listed /\ cache'.lost = walked.lost
      /\ cache'.timed = (walked.listed \cap known) \ Untimed
  BY <1>1, <1>4 DEF Catalog
<1>6. Trails(cache', known)
  BY <1>3, <1>5 DEF Trails
<1>7. Finished(cache')
  <2>1. cache'.listed \ known \subseteq walked.lost
    BY <1>3, <1>4, <1>5 DEF Trails, Catalog
  <2> QED BY <1>5, <2>1 DEF Finished
<1>8. Cached'
  BY <1>1, <1>5, <1>6, <1>7 DEF Cached, Trails, Finished
<1> QED BY <1>1, <1>3, <1>5, <1>6, <1>7, <1>8, SeekKeeps

\* The minute is over: no catalog is kept.
LEMMA ExpireKeeps == ASSUME PipelineInv, Expire PROVE PipelineInv'
<1>1. /\ calls' = calls /\ context' = context /\ counts' = counts /\ known' = known
      /\ requests' = requests /\ answers' = answers /\ effects' = effects /\ cache' = None
  BY DEF Expire, trigger
<1>2. Shape /\ CountedOnce /\ \A c \in Calls : InOrder(c)
  BY DEF PipelineInv
<1>3. Shape' /\ Cached'
  BY <1>1, <1>2 DEF Shape, Cached
<1>4. CountedOnce'
  BY <1>1, <1>2, CountsStay
<1>5. ASSUME NEW c \in Calls PROVE InOrder(c)'
  BY <1>1, <1>2, LeftAlone
<1> QED BY <1>3, <1>4, <1>5 DEF PipelineInv

\* Names are found by a statement, or the call is refused for them.
LEMMA LookUpKeeps ==
  ASSUME PipelineInv, NEW c \in Calls, LookUp(c)
  PROVE  PipelineInv'
<1> DEFINE r == calls[c].request
           sought == Head(calls[c].left)
<1>1. /\ calls[c].pc = "asking" /\ calls[c].left # <<>> /\ sought.by = "statement"
      /\ UNCHANGED <<trigger, known>> /\ Cached'
  BY CachedStays DEF LookUp, Seeking, Sought, database, PipelineInv
<1>2. /\ calls \in [Calls -> CallRecord] /\ calls[c] \in CallRecord /\ InOrder(c)
      /\ r \in Requests /\ Opened(calls[c])
  BY <1>1, OpenIsBound DEF PipelineInv, Shape, Opened
<1>3. CASE sought.names \subseteq known
  <2>1. /\ calls' = [calls EXCEPT ![c].pc = "asking", ![c].left = Tail(@),
                                  ![c].catalog = calls[c].catalog]
        /\ context' = context /\ counts' = counts
    <3>1. calls' = [calls EXCEPT ![c].left = Tail(@)] /\ context' = context /\ counts' = counts
      BY <1>3 DEF LookUp, Sought
    <3>2. [calls[c] EXCEPT !.left = Tail(@)] =
          [calls[c] EXCEPT !.pc = "asking", !.left = Tail(@), !.catalog = calls[c].catalog]
      BY <1>1, <1>2 DEF CallRecord
    <3> QED BY <1>2, <3>1, <3>2
  <2> QED BY <1>1, <1>3, <2>1, FoundMovesOn
<1>4. CASE ~(sought.names \subseteq known)
  <2>1. FinishWith(c, "ValueError", None) /\ OutcomeOf("ValueError") = "refused"
    BY <1>4 DEF LookUp, Finish, OutcomeOf, Sought
  <2>2. sought \in ToSet(calls[c].left)
    BY <1>1, <1>2, HeadAndTail DEF CallRecord
  <2>3. sought.names \cap calls[c].lost # {}
    BY <1>1, <1>2, <1>4, <2>2 DEF InOrder, Noted
  <2>4. Missed(EndOf(calls[c], "refused", None))
    <3>1. /\ EndOf(calls[c], "refused", None).left = calls[c].left
          /\ EndOf(calls[c], "refused", None).lost = calls[c].lost
      BY <1>2 DEF EndOf, CallRecord
    <3> QED BY <1>1, <2>3, <3>1 DEF Missed
  <2>5. Told(EndOf(calls[c], OutcomeOf("ValueError"), None))
    BY <1>2, <2>1, <2>4, RefusalIsTold
  <2> QED BY <1>1, <2>1, <2>5, EndedUnasked
<1> QED BY <1>3, <1>4

\* A statement fails, and the call with it.
LEMMA StatementFailsKeeps ==
  ASSUME PipelineInv, NEW c \in Calls, StatementFails(c)
  PROVE  PipelineInv'
<1>1. /\ calls[c].pc \in {"asking", "walking"} /\ Opened(calls[c]) /\ UNCHANGED <<trigger, known>>
      /\ FinishWith(c, "OperationalError", None) /\ Cached'
  BY CachedStays DEF StatementFails, Finish, Opened, database, PipelineInv
<1>2. calls[c] \in CallRecord /\ calls[c].request \in Requests
  BY <1>1, OpenIsBound
<1>3. OutcomeOf("OperationalError") = "error"
  BY DEF OutcomeOf
<1>4. Told(EndOf(calls[c], OutcomeOf("OperationalError"), None))
  BY <1>2, <1>3, RefusalIsTold
<1> QED BY <1>1, <1>4, EndedUnasked

\* How many rows there may be is a number, whatever was asked.
LEMMA MatchingCounts ==
  ASSUME NEW r \in Requests, NEW names, NEW count \in Matching(r, names)
  PROVE  count \in Nat
<1>1. \A n : n \in 0..MaxRows => n \in Nat
  BY QueryAssumption
<1> QED BY <1>1 DEF Matching

\* An answer of a querying tool that read is whole, or says that it is cut, and so is
\* its refusal of more rows than it may aggregate.
LEMMA ReadIsTold ==
  ASSUME NEW call \in CallRecord, call.request \in Requests, call.request.tool \in QueryingTools,
         ToSet(call.request.names) \subseteq call.ever, call.left = <<>>, NEW count \in Nat,
         Mistaken(call.request) =>
           call.request.tool \in BucketingTools /\ call.request.bucket = 0 /\ count = 0
  PROVE  LET found == Result(call.request, count)
         IN /\ found \in Found /\ found.raised \in {"nothing", "ValueError"}
            /\ Told(EndOf(call, OutcomeOf(found.raised), found))
<1> DEFINE r == call.request
           found == Result(r, count)
           limit == Effective(r)
           n == IF limit <= count THEN limit ELSE count
           o == OutcomeOf(found.raised)
           e == EndOf(call, o, found)
<1>1. /\ limit \in Nat
      /\ r.tool \in Limited => limit = IF r.limit <= RowLimit THEN r.limit ELSE RowLimit
      /\ r.tool \in Aggregating => limit = RowLimit
      /\ r.tool \notin Limited \cup Aggregating =>
           limit = IF TopN <= RowLimit THEN TopN ELSE RowLimit
  BY EffectiveBounds
<1>2. /\ found.count = count /\ found.rows = [i \in 1..n |-> i]
      /\ found.truncated <=> count > limit
      /\ found.raised \in {"nothing", "ValueError"}
      /\ found.raised = "ValueError" <=> r.tool \in Aggregating /\ count > limit
  BY ResultIsWholeOrTold
<1>3. n \in Nat /\ Len(found.rows) = n /\ found.rows \in Seq(Nat)
  BY <1>1, <1>2
<1>4. found \in Found
  <2>1. found = [raised |-> found.raised, count |-> found.count, rows |-> found.rows,
                 truncated |-> found.truncated]
        /\ found.truncated \in BOOLEAN
    BY DEF Result, Truncated
  <2> HIDE DEF found, n
  <2> QED BY <1>2, <1>3, <2>1 DEF Found
<1>5. found # None
  BY <1>4, PipelineAssumption
<1>6. /\ o \in {"ok", "refused"} /\ (o = "refused" <=> found.raised = "ValueError")
  BY <1>2 DEF OutcomeOf
<1> HIDE DEF found, limit, o
<1>7. /\ e.outcome = o /\ e.request = r /\ e.ever = call.ever /\ e.left = <<>>
      /\ e.found = found
  BY DEF EndOf, CallRecord
<1> HIDE DEF e
<1>8. RowLimit \in Nat /\ TopN \in Nat /\ r.limit \in Nat
  BY CutsAssumption, QueryAssumption, RequestTyped
<1>9. r.tool \in Aggregating => r.tool \notin Limited
  BY DEF Aggregating, Limited
<1>10. CASE o = "refused"
  <2>1. r.tool \in Aggregating /\ e.found # None /\ e.found.count > RowLimit
    BY <1>1, <1>2, <1>5, <1>6, <1>7, <1>10
  <2>2. Told(e)
    BY <1>7, <1>10, <2>1 DEF Told
  <2> QED BY <1>2, <1>4, <2>2 DEF e, o, found
<1>11. CASE o = "ok"
  <2>1. e.found.rows = [i \in 1..Len(e.found.rows) |-> i] /\ Len(e.found.rows) = n
    BY <1>2, <1>3, <1>7
  <2>2. r.tool \in Aggregating => n = count
    BY <1>1, <1>2, <1>6, <1>8, <1>11
  <2>3. r.tool \in Limited => n = Min({r.limit, RowLimit, count}) /\ (found.truncated <=> n < count)
    <3>1. ASSUME NEW m \in Nat, m = Min({r.limit, RowLimit, count}), r.tool \in Limited
          PROVE  n = m
      <4>1. m \in {r.limit, RowLimit, count} /\ m <= r.limit /\ m <= RowLimit /\ m <= count
        BY <1>8, <3>1, MinOfThree
      <4> QED BY <1>1, <1>8, <3>1, <4>1
    <3>2. Min({r.limit, RowLimit, count}) \in Nat
      <4>1. Min({r.limit, RowLimit, count}) \in {r.limit, RowLimit, count}
        BY <1>8, MinOfThree
      <4> QED BY <1>8, <4>1
    <3>3. r.tool \in Limited => (found.truncated <=> n < count)
      BY <1>1, <1>2
    <3> QED BY <3>1, <3>2, <3>3
  <2>4. r.tool \notin Limited \cup Aggregating => n = Min({TopN, RowLimit, count})
    <3>1. ASSUME NEW m \in Nat, m = Min({TopN, RowLimit, count}), r.tool \notin Limited \cup Aggregating
          PROVE  n = m
      <4>1. m \in {TopN, RowLimit, count} /\ m <= TopN /\ m <= RowLimit /\ m <= count
        BY <1>8, <3>1, MinOfThree
      <4> QED BY <1>1, <1>8, <3>1, <4>1
    <3>2. Min({TopN, RowLimit, count}) \in Nat
      BY <1>8, MinOfThree
    <3> QED BY <3>1, <3>2
  <2>5. e.found.count = count /\ e.found.truncated = found.truncated
    BY <1>2, <1>7
  <2> HIDE DEF n
  <2>6. Told(e)
    BY <1>7, <1>9, <1>11, <2>1, <2>2, <2>3, <2>4, <2>5 DEF Told
  <2> QED BY <1>2, <1>4, <2>6 DEF e, o, found
<1> QED BY <1>6, <1>10, <1>11

\* The bounded statement is read and the call ends with what it found.
LEMMA ReadKeeps ==
  ASSUME PipelineInv, NEW c \in Calls, Read(c)
  PROVE  PipelineInv'
<1> DEFINE r == calls[c].request
<1>1. /\ calls[c].pc = "asking" /\ calls[c].left = <<>> /\ Opened(calls[c])
      /\ UNCHANGED <<trigger, known>> /\ Cached'
  BY CachedStays DEF Read, Opened, database, PipelineInv
<1>2. /\ calls[c] \in CallRecord /\ r \in Requests /\ r.tool \in QueryingTools
      /\ Checks(r) = "nothing" /\ Noted(calls[c], known)
  BY <1>1, OpenIsBound DEF PipelineInv, InOrder, Placed
<1>3. CASE Effective(r) = 0 \/ (r.tool = "backtest_fault" /\ ~r.fits)
  <2>1. FinishWith(c, "ValueError", None) /\ OutcomeOf("ValueError") = "refused"
    BY <1>3 DEF Read, Finish, OutcomeOf
  <2>2. Mistaken(r)
    BY <1>2, <1>3, EffectiveBounds DEF Mistaken
  <2>3. Told(EndOf(calls[c], OutcomeOf("ValueError"), None))
    BY <1>2, <2>1, <2>2, RefusalIsTold
  <2> QED BY <1>1, <2>1, <2>3, EndedUnasked
<1>4. CASE ~(Effective(r) = 0 \/ (r.tool = "backtest_fault" /\ ~r.fits))
  <2>1. PICK count \in Matching(r, known) :
          Runs(r, known, count) /\ FinishWith(c, Result(r, count).raised, Result(r, count))
    BY <1>4 DEF Read
  <2>2. count \in Nat
    BY <1>2, MatchingCounts
  <2>3. Mistaken(r) => r.tool \in BucketingTools /\ r.bucket = 0 /\ count = 0
    <3>1. r.tool \in BucketingTools /\ r.bucket = 0 => count = 0
      BY <2>1 DEF Runs
    <3>2. r.tool \in Limited => r.limit # 0
      BY <1>2, <1>4, EffectiveBounds
    <3> QED BY <1>2, <1>4, <3>1, <3>2, ChecksFindMistakes
  <2>5. ToSet(r.names) \subseteq calls[c].ever
    <3>1. CASE r.tool \in TableTools
      <4>1. ToSet(r.names) \subseteq known
        BY <2>1, <3>1 DEF Runs, Identifiers
      <4> QED BY <1>1, <1>2, <4>1 DEF Noted
    <3>2. CASE r.tool \notin TableTools /\ ~(ToSet(r.names) \subseteq calls[c].ever)
      <4>1. LookUps(r) = <<>>
        BY <1>1, <1>2, <3>2 DEF Noted
      <4>2. r.names = <<>>
        BY <1>2, <3>2, <4>1, LookUpsOfItsNames
      <4> QED BY <4>2 DEF ToSet
    <3> QED BY <3>1, <3>2
  <2>4. /\ Result(r, count) \in Found /\ Result(r, count).raised \in {"nothing", "ValueError"}
        /\ Told(EndOf(calls[c], OutcomeOf(Result(r, count).raised), Result(r, count)))
    BY <1>1, <1>2, <2>2, <2>3, <2>5, ReadIsTold
  <2> QED BY <1>1, <1>2, <2>1, <2>4, EndedUnasked
<1> QED BY <1>3, <1>4

\* The request of a call without a mistake sets out for the trigger.
LEMMA CarryKeeps ==
  ASSUME PipelineInv, NEW c \in Calls, Carry(c)
  PROVE  PipelineInv'
<1> DEFINE r == calls[c].request
<1>1. /\ calls[c].pc = "running" /\ Opened(calls[c]) /\ r.tool \in AskingTools
      /\ known' = known /\ Cached'
  BY CachedStays DEF Carry, Opened, database, PipelineInv
<1>2. /\ calls[c] \in CallRecord /\ r \in Requests /\ calls[c].outcome = None
      /\ r.client \in Clients /\ context[c] = r.client
  BY <1>1, OpenIsBound
<1>3. /\ calls \in [Calls -> CallRecord] /\ context \in [Calls -> Clients \cup {None}]
      /\ InOrder(c) /\ Admitted(r)
  BY <1>1 DEF PipelineInv, Shape, InOrder, Placed
<1>4. r.tool \notin QueryingTools
  BY <1>1 DEF AskingTools, QueryingTools, Aggregating, Limited
<1>5. CASE r.tool = "append_memory" /\ r.lines > 1
  <2>1. FinishWith(c, "ValueError", None) /\ UNCHANGED trigger
    BY <1>5 DEF Carry, Finish
  <2>2. OutcomeOf("ValueError") = "refused"
    BY DEF OutcomeOf
  <2>3. Told(EndOf(calls[c], OutcomeOf("ValueError"), None))
    BY <1>2, <1>4, <2>2, RefusalIsTold
  <2> QED BY <1>1, <2>1, <2>3, EndedUnasked
<1>6. CASE ~(r.tool = "append_memory" /\ r.lines > 1)
  <2> DEFINE e == [calls[c] EXCEPT !.pc = "sent"]
  <2>1. /\ calls' = [calls EXCEPT ![c] = e] /\ context' = context /\ counts' = counts
        /\ requests' = requests \cup {c} /\ effects' = effects /\ answers' = answers
    BY <1>3, <1>6 DEF Carry
  <2>2. /\ e \in CallRecord /\ e.pc = "sent" /\ e.request = r /\ e.outcome = None
        /\ e.ever = calls[c].ever /\ e.lost = calls[c].lost
    BY <1>2 DEF CallRecord
  <2> HIDE DEF e
  <2>3. ~Mistaken(r)
    BY <1>1, <1>6 DEF Mistaken, AskingTools, Limited, BucketingTools
  <2>4. Placed(e) /\ Opened(e)
    BY <1>1, <1>2, <1>3, <2>2, <2>3 DEF Placed, Opened
  <2>5. Noted(e, known)
    BY <1>1, <1>3, <2>2 DEF InOrder, Noted, Opened
  <2>6. Told(e)
    BY <2>2, PipelineAssumption DEF Told, Outcomes
  <2>7. Carried(c)'
    <3>1. calls'[c] = e
      BY <1>3, <2>1
    <3>2. c \notin effects /\ \A a \in answers : a.call # c
      BY <1>1, NothingAsked
    <3>3. e.outcome \notin {"ok", "refused"}
      BY <2>2, PipelineAssumption DEF Outcomes
    <3> QED BY <1>1, <1>3, <2>1, <2>2, <2>3, <3>1, <3>2, <3>3 DEF Carried
  <2>8. context' = [context EXCEPT ![c] = r.client]
    BY <1>2, <1>3, <2>1
  <2> QED BY <1>1, <1>2, <2>1, <2>2, <2>4, <2>5, <2>6, <2>7, <2>8, OneCallMoves
<1> QED BY <1>5, <1>6

\* A call that waits for the trigger, ended by itself with its answer or without one.
LEMMA HearKeeps ==
  ASSUME PipelineInv, NEW c \in Calls, Hear(c)
  PROVE  PipelineInv'
<1> DEFINE r == calls[c].request
<1>1. /\ calls[c].pc = "sent" /\ Opened(calls[c]) /\ known' = known /\ Cached'
      /\ requests' = requests /\ effects' = effects
  BY CachedStays DEF Hear, Opened, database, PipelineInv
<1>2. PICK a \in answers : a.call = c /\ FinishWith(c, Post(a.status), None) /\ answers' = answers \ {a}
  BY DEF Hear, Finish
<1>3. /\ calls[c] \in CallRecord /\ r \in Requests /\ calls \in [Calls -> CallRecord]
      /\ Shape /\ InOrder(c) /\ a.status \in {202, 409, 503}
  BY <1>1, <1>2, OpenIsBound DEF PipelineInv, Shape
<1>4. Admitted(r) /\ r.tool \in AskingTools /\ ~Mistaken(r) /\ r.tool \notin QueryingTools
  BY <1>1, <1>3 DEF InOrder, Placed, Opened, AskingTools, QueryingTools, Aggregating, Limited
<1>5. c \notin requests /\ (a.status = 202 => c \in effects) /\ (a.status = 409 => c \notin effects)
  BY <1>2, <1>3 DEF InOrder, Carried
<1> DEFINE o == OutcomeOf(Post(a.status))
           e == EndOf(calls[c], o, None)
<1>6. /\ o \in {"ok", "refused", "error"}
      /\ o = "ok" => a.status = 202
      /\ o = "refused" => a.status = 409
  BY <1>3 DEF OutcomeOf, Post
<1> HIDE DEF o
<1>7. e.pc = "done" /\ e.outcome = o /\ e.request = r /\ e.ever = calls[c].ever
  BY <1>3 DEF EndOf, CallRecord
<1> HIDE DEF e
<1>8. Told(e)
  <2>1. ToSet(r.names) = {}
    BY <1>3, <1>4, RequestTyped DEF Complete, ToSet
  <2> QED BY <1>4, <1>7, <2>1 DEF Told
<1>9. calls'[c] = e
  <2>1. ASSUME NEW raised, FinishWith(c, raised, None)
        PROVE  calls'[c] = EndOf(calls[c], OutcomeOf(raised), None)
    <3>1. Shape /\ calls \in [Calls -> CallRecord]
      BY <1>3
    <3>2. calls' = [calls EXCEPT ![c] = EndOf(calls[c], OutcomeOf(raised), None)]
      BY <2>1, <3>1, FinishEnds
    <3> QED BY <3>1, <3>2
  <2>2. calls'[c] = EndOf(calls[c], OutcomeOf(Post(a.status)), None)
    BY <1>2, <2>1
  <2> QED BY <2>2 DEF e, o
<1>10. Carried(c)'
  <2>1. Carried(c)
    BY <1>3 DEF InOrder
  <2>2. c \notin requests' /\ (c \in effects' <=> c \in effects) /\ answers' \subseteq answers
    BY <1>1, <1>2, <1>5
  <2> QED BY <1>4, <1>5, <1>6, <1>7, <1>9, <2>1, <2>2 DEF Carried
<1> QED BY <1>1, <1>2, <1>8, <1>10, EndedInOrder DEF e, o

\* No answer is heard: an error, whatever the trigger does.
LEMMA NoAnswerKeeps ==
  ASSUME PipelineInv, NEW c \in Calls, NoAnswer(c)
  PROVE  PipelineInv'
<1> DEFINE r == calls[c].request
           e == EndOf(calls[c], OutcomeOf("RuntimeError"), None)
<1>1. /\ calls[c].pc = "sent" /\ Opened(calls[c]) /\ known' = known
      /\ requests' \in {requests, requests \ {c}} /\ effects' = effects /\ answers' = answers
      /\ FinishWith(c, "RuntimeError", None) /\ Cached'
  BY CachedStays DEF NoAnswer, Finish, Opened, database, PipelineInv
<1>2. /\ calls[c] \in CallRecord /\ r \in Requests /\ calls \in [Calls -> CallRecord]
      /\ Shape /\ InOrder(c)
  BY <1>1, OpenIsBound DEF PipelineInv, Shape
<1>3. OutcomeOf("RuntimeError") = "error"
  BY DEF OutcomeOf
<1>4. Told(e)
  BY <1>2, <1>3, RefusalIsTold
<1>5. e.pc = "done" /\ e.outcome = "error" /\ e.request = r
  BY <1>2, <1>3 DEF EndOf, CallRecord
<1>6. calls'[c] = e
  <2>1. calls' = [calls EXCEPT ![c] = e]
    BY <1>1, <1>2, FinishEnds
  <2> QED BY <1>2, <2>1
<1> HIDE DEF e
<1>7. Carried(c)'
  <2>1. Carried(c)
    BY <1>2 DEF InOrder
  <2> QED BY <1>1, <1>5, <1>6, <2>1 DEF Carried
<1> QED BY <1>1, <1>4, <1>7, EndedInOrder DEF e

\* The trigger handles a request on its way: what it answers tells what it did.
LEMMA HandleKeeps ==
  ASSUME PipelineInv, NEW c \in Calls, Handle(c)
  PROVE  PipelineInv'
<1>1. /\ c \in requests /\ requests' = requests \ {c}
      /\ calls' = calls /\ context' = context /\ counts' = counts /\ known' = known /\ Cached'
  BY CachedStays DEF Handle, database, PipelineInv
<1>2. PICK status \in {202, 409, 503}, done \in BOOLEAN :
        /\ status = 202 => done
        /\ status = 409 => ~done
        /\ answers' = answers \cup {[call |-> c, status |-> status]}
        /\ effects' = IF done THEN effects \cup {c} ELSE effects
  BY DEF Handle
<1> DEFINE a == [call |-> c, status |-> status]
<1>3. a \in [call : Calls, status : {202, 409, 503}] /\ a.call = c /\ a.status = status
  OBVIOUS
<1>4. answers' = answers \cup {a} /\ effects' \in {effects, effects \cup {c}}
      /\ (status = 202 => c \in effects') /\ (status = 409 => effects' = effects)
  BY <1>2
<1> HIDE DEF a
<1>5. Shape /\ CountedOnce /\ \A d \in Calls : InOrder(d)
  BY DEF PipelineInv
<1>6. Shape'
  BY <1>1, <1>3, <1>4, <1>5 DEF Shape
<1>7. CountedOnce'
  BY <1>1, <1>5, CountsStay
<1>8. ASSUME NEW d \in Calls, d # c PROVE InOrder(d)'
  <2>1. {b \in answers' : b.call = d} = {b \in answers : b.call = d}
    BY <1>3, <1>4, <1>8
  <2> QED BY <1>1, <1>4, <1>5, <1>8, <2>1, LeftAlone
<1>9. Carried(c)'
  <2>1. Carried(c)
    BY <1>5 DEF InOrder
  <2>2. /\ calls[c].pc \in {"sent", "done"} /\ Admitted(calls[c].request)
        /\ calls[c].request.tool \in AskingTools /\ ~Mistaken(calls[c].request)
        /\ c \notin effects /\ \A b \in answers : b.call # c
    BY <1>1, <2>1 DEF Carried
  <2>3. calls[c].request.tool \notin QueryingTools
    BY <2>2 DEF AskingTools, QueryingTools, Aggregating, Limited
  <2>4. calls[c].outcome \notin {"ok", "refused"}
    BY <1>1, <2>1, <2>3 DEF Carried
  <2>5. \A b \in answers' : b.call = c => b = a
    BY <1>4, <2>2
  <2>6. c \notin requests' /\ (status = 409 => c \notin effects')
    BY <1>1, <1>4, <2>2
  <2> QED BY <1>1, <1>3, <1>4, <2>2, <2>4, <2>5, <2>6 DEF Carried
<1>10. InOrder(c)'
  <2>1. Placed(calls[c]) /\ Noted(calls[c], known) /\ Told(calls[c]) /\ BoundTo(c)
    BY <1>5 DEF InOrder
  <2>2. BoundTo(c)'
    BY <1>1, <2>1 DEF BoundTo
  <2> QED BY <1>1, <1>9, <2>1, <2>2 DEF InOrder
<1> QED BY <1>1, <1>6, <1>7, <1>8, <1>10 DEF PipelineInv

\* What a catalog's history notes is added to it: it goes on holding what is not there.
LEMMA NotingTrails ==
  ASSUME NEW catalog \in Catalog \cup {None}, NEW gone \in SUBSET Names,
         NEW before, NEW after, before \ after \subseteq gone
  PROVE  LET noted == Noting(catalog, gone)
         IN /\ noted \in Catalog \cup {None}
            /\ noted # None <=> catalog # None
            /\ catalog # None /\ Trails(catalog, before) => Trails(noted, after)
            /\ catalog # None /\ Finished(catalog) => Finished(noted)
<1> DEFINE noted == Noting(catalog, gone)
<1>1. CASE catalog = None
  BY <1>1 DEF Noting
<1>2. CASE catalog # None
  <2>1. catalog \in Catalog /\ noted = [catalog EXCEPT !.lost = @ \cup gone]
    BY <1>2 DEF Noting
  <2>2. /\ noted \in Catalog /\ noted.listed = catalog.listed /\ noted.timed = catalog.timed
        /\ noted.lost = catalog.lost \cup gone
    BY <2>1 DEF Catalog
  <2> HIDE DEF noted
  <2>3. noted # None
    BY <2>2, PipelineAssumption
  <2>4. Trails(catalog, before) => Trails(noted, after)
    BY <2>2 DEF Trails
  <2>5. Finished(catalog) => Finished(noted)
    BY <2>2 DEF Finished
  <2> QED BY <1>2, <2>2, <2>3, <2>4, <2>5 DEF noted
<1> QED BY <1>1, <1>2

\* A name comes or goes: the open calls that gave it and every catalog take note, and
\* nothing else is moved.
LEMMA ChangeKeeps ==
  ASSUME PipelineInv, NEW n \in Names, Change(n)
  PROVE  PipelineInv'
<1> DEFINE gone == {n} \ known'
           its(d) == {n} \cap ToSet(calls[d].request.names)
           noted(d) == [calls[d] EXCEPT !.ever = @ \cup (its(d) \cap known'),
                                        !.lost = @ \cup (its(d) \ known'),
                                        !.catalog = Noting(@, gone)]
<1>1. /\ known' = IF n \in known THEN known \ {n} ELSE known \cup {n}
      /\ context' = context /\ counts' = counts
      /\ requests' = requests /\ effects' = effects /\ answers' = answers
      /\ cache' = Noting(cache, gone)
  BY DEF Change, trigger
<1>2. Shape /\ Cached /\ CountedOnce /\ \A d \in Calls : InOrder(d)
  BY DEF PipelineInv
<1>3. calls \in [Calls -> CallRecord] /\ known \subseteq Names /\ known' \subseteq Names
  BY <1>1, <1>2 DEF Shape
<1>4. calls' = [d \in Calls |-> IF Opened(calls[d]) THEN noted(d) ELSE calls[d]]
  BY DEF Change, Open, Opened
<1>5. gone \in SUBSET Names /\ known \ known' \subseteq gone
  BY <1>1
<1> HIDE DEF gone
<1>6. ASSUME NEW d \in Calls
      PROVE  /\ calls'[d] \in CallRecord
             /\ calls'[d].pc = calls[d].pc /\ calls'[d].request = calls[d].request
             /\ calls'[d].outcome = calls[d].outcome /\ calls'[d].left = calls[d].left
             /\ calls[d].ever \subseteq calls'[d].ever /\ calls[d].lost \subseteq calls'[d].lost
             /\ ~Opened(calls[d]) => calls'[d] = calls[d]
             /\ Opened(calls[d]) => /\ calls'[d].catalog = Noting(calls[d].catalog, gone)
                                    /\ its(d) \cap known' \subseteq calls'[d].ever
                                    /\ its(d) \ known' \subseteq calls'[d].lost
  <2>1. CASE Opened(calls[d])
    <3>1. calls'[d] = noted(d)
      BY <1>4, <2>1
    <3>2. /\ calls[d] \in CallRecord
          /\ calls[d].ever \cup (its(d) \cap known') \in SUBSET Names
          /\ calls[d].lost \cup (its(d) \ known') \in SUBSET Names
          /\ calls[d].catalog \in Catalog \cup {None}
      BY <1>3 DEF CallRecord
    <3>3. Noting(calls[d].catalog, gone) \in Catalog \cup {None}
      BY <1>5, <3>2, NotingTrails
    <3> HIDE DEF its
    <3>4. /\ noted(d) \in CallRecord
          /\ noted(d).pc = calls[d].pc /\ noted(d).request = calls[d].request
          /\ noted(d).outcome = calls[d].outcome /\ noted(d).left = calls[d].left
          /\ noted(d).ever = calls[d].ever \cup (its(d) \cap known')
          /\ noted(d).lost = calls[d].lost \cup (its(d) \ known')
          /\ noted(d).catalog = Noting(calls[d].catalog, gone)
      BY <3>2, <3>3 DEF CallRecord
    <3> HIDE DEF noted
    <3> QED BY <2>1, <3>1, <3>4
  <2>2. CASE ~Opened(calls[d])
    <3>1. calls'[d] = calls[d]
      BY <1>4, <2>2
    <3> QED BY <1>3, <2>2, <3>1
  <2> QED BY <2>1, <2>2
<1>7. Shape'
  <2>1. calls' \in [Calls -> CallRecord]
    <3>1. DOMAIN calls' = Calls /\ calls' = [d \in Calls |-> calls'[d]]
      BY <1>4
    <3> QED BY <1>6, <3>1
  <2> QED BY <1>1, <1>2, <1>3, <2>1 DEF Shape
<1>8. Cached'
  BY <1>1, <1>2, <1>5, NotingTrails DEF Cached, Trails, Finished
<1>9. CountedOnce'
  BY <1>1, <1>2, <1>6, CountsStay
<1> HIDE DEF noted
<1>10. ASSUME NEW d \in Calls PROVE InOrder(d)'
  <2> DEFINE e == calls'[d]
             r == calls[d].request
  <2>1. Placed(calls[d]) /\ Noted(calls[d], known) /\ Told(calls[d]) /\ Carried(d) /\ BoundTo(d)
    BY <1>2 DEF InOrder
  <2>2. /\ e.pc = calls[d].pc /\ e.request = r /\ e.outcome = calls[d].outcome
        /\ e.left = calls[d].left /\ calls[d].ever \subseteq e.ever /\ calls[d].lost \subseteq e.lost
        /\ (Opened(e) <=> Opened(calls[d])) /\ (~Opened(calls[d]) => e = calls[d])
        /\ Opened(calls[d]) => /\ e.catalog = Noting(calls[d].catalog, gone)
                               /\ {n} \cap ToSet(r.names) \cap known' \subseteq e.ever
                               /\ ({n} \cap ToSet(r.names)) \ known' \subseteq e.lost
    BY <1>6 DEF Opened
  <2> HIDE DEF e
  <2>3. Placed(e)
    BY <2>1, <2>2 DEF Placed, Opened
  <2>4. Noted(e, known')
    <3>1. CASE Opened(calls[d])
      <4>1. ToSet(r.names) \cap known \subseteq e.ever /\ ToSet(r.names) \ known \subseteq e.lost
        BY <2>1, <2>2, <3>1 DEF Noted
      <4>2. ToSet(r.names) \cap known' \subseteq e.ever /\ ToSet(r.names) \ known' \subseteq e.lost
        BY <1>1, <2>2, <4>1, <3>1
      <4>3. e.pc \in {"asking", "walking"} =>
              /\ \A look \in ToSet(e.left) : look.names \subseteq ToSet(r.names)
              /\ r.tool \notin TableTools =>
                   \/ e.left = LookUps(r)
                   \/ e.left = <<>> /\ ToSet(r.names) \subseteq e.ever
        BY <2>1, <2>2 DEF Noted
      <4>4. e.pc = "walking" =>
              /\ e.left # <<>> /\ Head(e.left).by # "statement"
              /\ e.catalog # None /\ Trails(e.catalog, known')
        <5>1. calls[d].catalog \in Catalog \cup {None}
          BY <1>3 DEF CallRecord
        <5>2. calls[d].pc = "walking" =>
                /\ calls[d].left # <<>> /\ Head(calls[d].left).by # "statement"
                /\ calls[d].catalog # None /\ Trails(calls[d].catalog, known)
          BY <2>1 DEF Noted
        <5> QED BY <1>5, <2>2, <3>1, <5>1, <5>2, NotingTrails
      <4> QED BY <2>2, <4>2, <4>3, <4>4 DEF Noted
    <3>2. CASE ~Opened(calls[d])
      BY <2>2, <3>2 DEF Noted, Opened
    <3> QED BY <3>1, <3>2
  <2>5. Told(e)
    <3>1. CASE Opened(calls[d])
      BY <2>1, <2>2, <3>1, PipelineAssumption DEF Placed, Told, Opened, Outcomes
    <3>2. CASE ~Opened(calls[d])
      BY <2>1, <2>2, <3>2
    <3> QED BY <3>1, <3>2
  <2>6. Carried(d)'
    BY <1>1, <2>1, <2>2 DEF Carried, e
  <2>7. BoundTo(d)'
    BY <1>1, <2>1, <2>2 DEF BoundTo, e
  <2> QED BY <2>3, <2>4, <2>5, <2>6, <2>7 DEF InOrder, e
<1> QED BY <1>7, <1>8, <1>9, <1>10 DEF PipelineInv

-----------------------------------------------------------------------------
(* The theorems *)

\* Before any request everything is in order.
LEMMA InitInOrder == Init => PipelineInv
<1> SUFFICES ASSUME Init PROVE PipelineInv
  OBVIOUS
<1>1. /\ calls = [c \in Calls |-> Idle] /\ context = [c \in Calls |-> None]
      /\ counts = [route \in Clients \X Outcomes |-> 0]
      /\ requests = {} /\ answers = {} /\ effects = {} /\ known \subseteq Names
      /\ cache = None
  BY DEF Init
<1>2. /\ Idle.pc = "idle" /\ Idle.outcome = None /\ None \notin Outcomes
  BY PipelineAssumption DEF Idle
<1>3. Shape
  <2>1. calls \in [Calls -> CallRecord]
    BY <1>1, IdleTyped
  <2>2. counts \in [Clients \X Outcomes -> Nat]
    BY <1>1
  <2> QED BY <1>1, <2>1, <2>2 DEF Shape
<1>4. ASSUME NEW c \in Calls PROVE InOrder(c)
  <2>1. calls[c] = Idle /\ context[c] = None
    BY <1>1
  <2>2. Idle.outcome \notin {"ok", "refused"}
    BY <1>2 DEF Outcomes
  <2>3. Placed(Idle) /\ ~Opened(Idle)
    BY <1>2 DEF Placed, Opened
  <2>4. Noted(Idle, known) /\ Told(Idle)
    BY <1>2, <2>2 DEF Noted, Told, Opened
  <2>5. Carried(c) /\ BoundTo(c)
    BY <1>1, <2>1, <2>2, <2>3 DEF Carried, BoundTo
  <2> QED BY <2>1, <2>3, <2>4, <2>5 DEF InOrder
<1>5. CountedOnce
  <2>1. ASSUME NEW client \in Clients, NEW outcome \in Outcomes
        PROVE  counts[client, outcome] = Cardinality(Counted(client, outcome))
    <3>1. Counted(client, outcome) = {}
      BY <1>1, <1>2 DEF Counted
    <3>2. counts[client, outcome] = 0
      BY <1>1
    <3> QED BY <3>1, <3>2, FS_EmptySet
  <2> QED BY <2>1 DEF CountedOnce, Counted
<1>6. Cached
  BY <1>1 DEF Cached
<1> QED BY <1>3, <1>4, <1>5, <1>6 DEF PipelineInv

\* Every step of calls, trigger and names.
LEMMA NextKeeps == PipelineInv /\ [Next]_vars => PipelineInv'
<1> SUFFICES ASSUME PipelineInv, [Next]_vars PROVE PipelineInv'
  OBVIOUS
<1>1. ASSUME NEW c \in Calls, NEW r \in Requests, Arrive(c, r) PROVE PipelineInv'
  BY <1>1, ArriveKeeps
<1>2. ASSUME NEW c \in Calls, \/ Begin(c) \/ Hit(c) \/ Walk(c) \/ WalkEnds(c) \/ LookUp(c)
                              \/ Read(c) \/ StatementFails(c)
      PROVE  PipelineInv'
  BY <1>2, BeginKeeps, HitKeeps, WalkKeeps, WalkEndsKeeps, LookUpKeeps, ReadKeeps,
     StatementFailsKeeps
<1>3. ASSUME NEW c \in Calls, Carry(c) \/ Hear(c) \/ NoAnswer(c) \/ Cancel(c) \/ Handle(c)
      PROVE  PipelineInv'
  BY <1>3, CarryKeeps, HearKeeps, NoAnswerKeeps, CancelKeeps, HandleKeeps
<1>4. ASSUME NEW n \in Names, Change(n) PROVE PipelineInv'
  BY <1>4, ChangeKeeps
<1>5. CASE Expire
  BY <1>5, ExpireKeeps
<1>6. CASE UNCHANGED vars
  <2>1. /\ calls' = calls /\ context' = context /\ counts' = counts /\ requests' = requests
        /\ answers' = answers /\ effects' = effects /\ known' = known /\ cache' = cache
    BY <1>6 DEF vars
  <2>2. Shape /\ Cached /\ CountedOnce /\ \A c \in Calls : InOrder(c)
    BY DEF PipelineInv
  <2>3. Shape'
    BY <2>1, <2>2 DEF Shape
  <2>4. CountedOnce'
    BY <2>1, <2>2, CountsStay
  <2>5. ASSUME NEW c \in Calls PROVE InOrder(c)'
    BY <2>1, <2>2, LeftAlone
  <2>6. Cached'
    BY <2>1, <2>2, CachedStays
  <2> QED BY <2>3, <2>4, <2>5, <2>6 DEF PipelineInv
<1> QED BY <1>1, <1>2, <1>3, <1>4, <1>5, <1>6 DEF Next

\* Every call is in order, and counted, at every moment: the inductive invariant.
THEOREM AlwaysInOrder == Spec => []PipelineInv
<1> QED BY InitInOrder, NextKeeps, PTL DEF Spec

\* A caller is bound while its call is open and only then, and it is the one the
\* gateway named (GatewayAuth, CallerOnSpan); no counter passes the number of calls.
THEOREM PipelineTypes == Spec => []TypeOK
<1>1. ASSUME PipelineInv PROVE TypeOK
  <2>1. Shape /\ CountedOnce /\ \A c \in Calls : InOrder(c)
    BY <1>1 DEF PipelineInv
  <2>2. ASSUME NEW c \in Calls
        PROVE  /\ calls[c].pc \in {"idle", "running", "asking", "walking", "sent", "done"}
               /\ calls[c].request \in Requests \cup {None}
               /\ calls[c].pc = "done" <=> calls[c].outcome # None
               /\ context[c] = IF Open(c) THEN calls[c].request.client ELSE None
    <3>1. calls[c] \in CallRecord
      BY <2>1 DEF Shape
    <3>2. Placed(calls[c]) /\ BoundTo(c)
      BY <2>1 DEF InOrder
    <3> QED BY <3>1, <3>2 DEF CallRecord, Placed, BoundTo, Open, Opened
  <2>3. counts \in [Clients \X Outcomes -> 0..Cardinality(Calls)]
    <3>1. counts \in [Clients \X Outcomes -> Nat] /\ Cardinality(Calls) \in Nat
      BY <2>1, PipelineAssumption, FS_CardinalityType DEF Shape
    <3>2. ASSUME NEW client \in Clients, NEW outcome \in Outcomes
          PROVE  counts[client, outcome] \in 0..Cardinality(Calls)
      <4>1. counts[client, outcome] = Cardinality(Counted(client, outcome))
        BY <2>1 DEF CountedOnce, Counted
      <4>2. Counted(client, outcome) \subseteq Calls
        BY DEF Counted
      <4>3. /\ Cardinality(Counted(client, outcome)) <= Cardinality(Calls)
            /\ IsFiniteSet(Counted(client, outcome))
        BY <4>2, PipelineAssumption, FS_Subset
      <4>4. Cardinality(Counted(client, outcome)) \in Nat
        BY <4>3, FS_CardinalityType
      <4>5. Cardinality(Counted(client, outcome)) \in 0..Cardinality(Calls)
        BY <3>1, <4>3, <4>4
      <4> QED BY <4>1, <4>5
    <3>3. ASSUME NEW pair \in Clients \X Outcomes PROVE counts[pair] \in 0..Cardinality(Calls)
      <4>1. PICK client \in Clients, outcome \in Outcomes : pair = <<client, outcome>>
        OBVIOUS
      <4> QED BY <3>2, <4>1
    <3> QED BY <3>1, <3>3
  <2>4. \A a \in answers : a.call \in Calls \ requests
    BY <2>1 DEF Shape, InOrder, Carried
  <2>5. requests \subseteq Calls /\ effects \subseteq Calls \ requests
    BY <2>1 DEF Shape, InOrder, Carried
  <2> QED BY <2>2, <2>3, <2>4, <2>5 DEF TypeOK
<1> QED BY <1>1, AlwaysInOrder, PTL

\* Every call that came to an end by itself is counted once, as what its caller was
\* told and under its caller's route (ToolTelemetry).
THEOREM EveryCallCountedOnce == Spec => []CountedOnce
<1>1. PipelineInv => CountedOnce
  BY DEF PipelineInv
<1> QED BY <1>1, AlwaysInOrder, PTL

\* What start_run and append_memory tell is so: after "ok" the trigger has done it,
\* after "refused" it has not, and no late request will.
THEOREM CallersToldTruly == Spec => []ToldTruly
<1>1. PipelineInv => ToldTruly
  BY DEF PipelineInv, ToldTruly, InOrder, Carried
<1> QED BY <1>1, AlwaysInOrder, PTL

\* A mistake never yields data: where a tool answers one at all, a bucket of no width, it
\* had no rows to answer of (time_bucket, computed of every row).  And nothing a mistaken
\* or an unadmitted call asks for reaches the trigger.
THEOREM MistakesStopped == Spec => []MistakesGoNowhere
<1>1. ASSUME PipelineInv PROVE MistakesGoNowhere
  <2>1. ASSUME NEW c \in Calls, calls[c].outcome = "ok", Mistaken(calls[c].request)
        PROVE  /\ calls[c].request.tool \in BucketingTools /\ calls[c].request.bucket = 0
               /\ calls[c].found.count = 0
    BY <1>1, <2>1 DEF PipelineInv, InOrder, Told
  <2>2. ASSUME NEW c \in Calls, c \in requests \cup effects
        PROVE  calls[c].request.client # None /\ calls[c].request.key /\ ~Mistaken(calls[c].request)
    BY <1>1, <2>2 DEF PipelineInv, InOrder, Carried, Admitted
  <2> QED BY <2>1, <2>2 DEF MistakesGoNowhere
<1> QED BY <1>1, AlwaysInOrder, PTL

\* A querying tool refuses only for a mistake, an overflow, a room, a column or a function
\* that was missing at some moment of the call, or a table that was missing at some moment
\* since the walk of the catalog it was sought in or has no time column; and it answers
\* only for names that existed while it was asked (resolve, the shared _sources_cache).
THEOREM RefusalsHaveCauses == Spec => []RefusedForCause
<1>1. ASSUME PipelineInv PROVE RefusedForCause
  BY <1>1 DEF PipelineInv, InOrder, Told, RefusedForCause
<1> QED BY <1>1, AlwaysInOrder, PTL

\* What aggregates is of all rows there were; what lists shows the first of them, as
\* many as asked for and allowed, and says whether there are more (cap, read).
THEOREM AnswersAreWholeOrTold == Spec => []WholeOrTold
<1>1. ASSUME PipelineInv PROVE WholeOrTold
  BY <1>1 DEF PipelineInv, InOrder, Told, WholeOrTold
<1> QED BY <1>1, AlwaysInOrder, PTL
=============================================================================
