---------------------------- MODULE LedgerProofs ----------------------------
(***************************************************************************)
(* Theorems about the ledger, for every set of people, runs, keys,         *)
(* requests and calls.  The inductive invariant adds to the properties     *)
(* what a call carries from one statement to the next: the request it was  *)
(* made with, and that what its lookup found still satisfies everything    *)
(* the lookup asked for.                                                   *)
(***************************************************************************)
EXTENDS LedgerSeen, TLAPS

USE DEF Callers

\* A call that is past its checks holds a request (or a filter) that passed them.
CarriesRequest ==
  \A c \in Calls :
    /\ call[c].pc = "idle" => call[c] = Idle
    /\ call[c].pc \in {"resolving", "writing"} \/ call[c].wrote =>
         call[c].req \in Requests /\ WellFormed(call[c].req)
    /\ call[c].pc = "listing" => call[c].req \in Filters
    /\ call[c].wrote => call[c].pc = "done"

\* What a lookup found is the id of a row of the table it looked in.
FoundTyped ==
  \A c \in Calls : call[c].pc = "writing" \/ call[c].wrote =>
    IF call[c].req.target = "run"
    THEN call[c].found \in RunIds /\ runs[call[c].found] # None
    ELSE call[c].found \in EpisodeIds /\ episodes[call[c].found] # None

\* What call c has found is a run it may read and that its request names, or an
\* episode that exists.
Holds(c) ==
  LET x == call[c].found IN
    IF call[c].req.target = "run"
    THEN /\ x \in RunIds
         /\ runs[x] # None
         /\ MayRead(call[c].who, runs[x])
         /\ Addresses(call[c].req, call[c].who, x, runs[x])
         /\ x \in newest[c]
    ELSE x \in EpisodeIds /\ episodes[x] # None

FoundHolds ==
  \A c \in Calls : call[c].pc = "writing" \/ call[c].wrote => Holds(c)

\* The runs an open call's address leads to now have been remembered.
NewestRemembered ==
  \A c \in Calls :
    call[c].pc = "resolving" /\ call[c].req.target = "run" =>
      Newest(runs, Named(runs, call[c].who, call[c].req)) \subseteq newest[c]

-----------------------------------------------------------------------------
(* Lemmas about the operators *)

\* A well-formed request speaks its target's words, and names an episode exactly
\* when the episode is its target (set_verdict's argument checks).
LEMMA WellFormedWords ==
  ASSUME NEW q \in Requests, WellFormed(q)
  PROVE  /\ q \in Request
         /\ q.target = "run" => q.verdict \in {"helpful", "useless"}
         /\ q.target # "run" => /\ q.target = "episode"
                                /\ q.verdict \in {"real", "nonsense"}
                                /\ q.episode \in EpisodeIds
  BY LedgerAssumption DEF WellFormed, Request, VerdictsOn

\* Two rows that differ in their verdict at most.
SameRun(row, other) ==
  /\ row.person = other.person
  /\ row.kind = other.kind
  /\ row.key = other.key
  /\ row.born = other.born

\* The conditions the statements put on a row do not look at its verdict, so no
\* judgement makes a run readable, or named, that was not.
LEMMA ConditionsIgnoreVerdict ==
  ASSUME NEW row \in Row, NEW other \in Row, SameRun(row, other),
         NEW q \in Request, NEW who \in Callers, NEW id \in RunIds
  PROVE  /\ MayRead(who, other) <=> MayRead(who, row)
         /\ Addresses(q, who, id, other) <=> Addresses(q, who, id, row)
  BY DEF SameRun, MayRead, Addresses, KeyMatches

\* Ending a call, with or without a write, leaves a call record.
LEMMA EndTyped ==
  ASSUME NEW s \in CallRecord, NEW outcome \in {"ok", "refused", "error"},
         NEW wrote \in BOOLEAN, NEW shown \in SUBSET RunIds
  PROVE  /\ [s EXCEPT !.pc = "done", !.outcome = outcome] \in CallRecord
         /\ [s EXCEPT !.pc = "done", !.outcome = outcome, !.wrote = wrote] \in CallRecord
         /\ [s EXCEPT !.pc = "done", !.outcome = outcome, !.shown = shown] \in CallRecord
  BY DEF CallRecord

-----------------------------------------------------------------------------
(* Type correctness *)

\* Every table row and every call keeps its shape, and a call carries the
\* request it was made with through its two statements.
TypeInv == TypeOK /\ CarriesRequest /\ FoundTyped

\* In every state of every ledger.
THEOREM LedgerTypeInvariant == Spec => []TypeInv
<1> USE DEF TypeInv
<1>1. Init => TypeInv
  BY LedgerAssumption
  DEF Init, TypeOK, CarriesRequest, FoundTyped, Idle, CallRecord
<1>2. TypeInv /\ [Next]_vars => TypeInv'
  <2> SUFFICES ASSUME TypeInv, [Next]_vars PROVE TypeInv'
    OBVIOUS
  <2>1. ASSUME NEW r \in RunIds, NEW row \in Rows, ClaimRun(r, row) PROVE TypeInv'
    <3>1. row \in Row /\ row # None
      BY LedgerAssumption
    <3>2. newest' \in [Calls -> SUBSET RunIds]
      BY <2>1 DEF ClaimRun, Remember, Newest, Named, TypeOK
    <3>3. TypeOK'
      BY <2>1, <3>1, <3>2 DEF ClaimRun, TypeOK
    <3>4. CarriesRequest'
      BY <2>1 DEF ClaimRun, CarriesRequest
    <3>5. FoundTyped'
      BY <2>1, <3>1 DEF ClaimRun, FoundTyped, TypeOK
    <3> QED BY <3>3, <3>4, <3>5
  <2>2. ASSUME NEW e \in EpisodeIds, OpenEpisode(e) PROVE TypeInv'
    BY <2>2, LedgerAssumption DEF OpenEpisode, TypeOK, CarriesRequest, FoundTyped, Words
  <2>3. ASSUME NEW c \in Calls, NEW who \in Callers, NEW q \in Requests, AskVerdict(c, who, q)
        PROVE TypeInv'
    <3>1. newest' \in [Calls -> SUBSET RunIds]
      BY <2>3 DEF AskVerdict, Remember, Newest, Named, TypeOK
    <3>2. TypeOK'
      BY <2>3, <3>1 DEF AskVerdict, Idle, CallRecord, TypeOK
    <3>3. CarriesRequest'
      BY <2>3 DEF AskVerdict, Idle, CallRecord, TypeOK, CarriesRequest
    <3>4. FoundTyped'
      BY <2>3 DEF AskVerdict, Idle, TypeOK, FoundTyped
    <3> QED BY <3>2, <3>3, <3>4
  <2>4. ASSUME NEW c \in Calls, NEW who \in Callers, NEW f \in Filters, AskList(c, who, f)
        PROVE TypeInv'
    BY <2>4 DEF AskList, Idle, CallRecord, TypeOK, CarriesRequest, FoundTyped
  <2>5. ASSUME NEW c \in Calls, ResolveEpisode(c) PROVE TypeInv'
    <3>1. call[c].req \in Requests /\ WellFormed(call[c].req)
      BY <2>5 DEF ResolveEpisode, CarriesRequest
    <3>2. call[c].req.episode \in EpisodeIds
      BY <2>5, <3>1, WellFormedWords DEF ResolveEpisode
    <3>3. TypeOK'
      BY <2>5, <3>2 DEF ResolveEpisode, Found, Answered, CallRecord, TypeOK
    <3>4. CarriesRequest'
      BY <2>5 DEF ResolveEpisode, Found, Answered, CallRecord, TypeOK, CarriesRequest
    <3>5. FoundTyped'
      BY <2>5, <3>2 DEF ResolveEpisode, Found, Answered, CallRecord, TypeOK, FoundTyped
    <3> QED BY <3>3, <3>4, <3>5
  <2>6. ASSUME NEW c \in Calls, ResolveRun(c) PROVE TypeInv'
    <3>1. \/ Answered(c, "refused")
          \/ \E r \in RunIds : runs[r] # None /\ Found(c, r)
      BY <2>6 DEF ResolveRun, Named, Newest
    <3>2. TypeOK'
      BY <2>6, <3>1 DEF ResolveRun, Found, Answered, CallRecord, TypeOK
    <3>3. CarriesRequest'
      BY <2>6, <3>1 DEF ResolveRun, Found, Answered, CallRecord, TypeOK, CarriesRequest
    <3>4. FoundTyped'
      <4> SUFFICES ASSUME NEW d \in Calls, call'[d].pc = "writing" \/ call'[d].wrote
                   PROVE  IF call'[d].req.target = "run"
                          THEN call'[d].found \in RunIds /\ runs[call'[d].found] # None
                          ELSE call'[d].found \in EpisodeIds /\ episodes[call'[d].found] # None
        BY <2>6 DEF ResolveRun, FoundTyped
      <4>1. CASE call'[d] = call[d]
        BY <4>1 DEF FoundTyped
      <4>2. ASSUME d = c, NEW r \in RunIds, runs[r] # None, Found(c, r)
            PROVE  call'[d].req.target = "run" /\ call'[d].found = r
        BY <2>6, <4>2 DEF ResolveRun, Found, CallRecord, TypeOK
      <4>3. CASE d = c /\ Answered(c, "refused")
        BY <4>3 DEF Answered, CallRecord, TypeOK, FoundTyped
      <4>4. d # c => call'[d] = call[d]
        BY <3>1 DEF Found, Answered, TypeOK
      <4> QED BY <3>1, <4>1, <4>2, <4>3, <4>4
    <3> QED BY <3>2, <3>3, <3>4
  <2>7. ASSUME NEW c \in Calls, Record(c) PROVE TypeInv'
    <3>1. /\ call[c].req \in Requests /\ WellFormed(call[c].req)
          /\ IF call[c].req.target = "run"
             THEN call[c].found \in RunIds /\ runs[call[c].found] \in Row
             ELSE call[c].found \in EpisodeIds
      BY <2>7 DEF Record, CarriesRequest, FoundTyped, TypeOK
    <3>2. TypeOK'
      <4>1. call' \in [Calls -> CallRecord]
        <5>1. PICK outcome \in {"ok", "error"} :
                call' = [call EXCEPT ![c].pc = "done", ![c].outcome = outcome,
                                     ![c].wrote = TRUE]
          BY <2>7 DEF Record
        <5>2. call[c] \in CallRecord
          BY DEF TypeOK
        <5>3. [call[c] EXCEPT !.pc = "done", !.outcome = outcome, !.wrote = TRUE]
                \in CallRecord
          BY <5>1, <5>2, EndTyped
        <5> QED BY <5>1, <5>3 DEF TypeOK
      <4>2. runs' \in [RunIds -> Row \cup {None}]
        BY <2>7, <3>1, WellFormedWords DEF Record, Write, Row, VerdictsOn, TypeOK
      <4>3. episodes' \in [EpisodeIds -> VerdictsOn.episode \cup {"unjudged", None}]
        BY <2>7, <3>1, WellFormedWords DEF Record, Write, VerdictsOn, TypeOK
      <4> QED BY <2>7, <4>1, <4>2, <4>3 DEF Record, TypeOK
    <3>3. CarriesRequest'
      BY <2>7, <3>1 DEF Record, CallRecord, TypeOK, CarriesRequest
    <3>4. FoundTyped'
      <4>1. \A r \in RunIds : runs[r] # None => runs'[r] # None
        BY <2>7, <3>1, <3>2, LedgerAssumption, WellFormedWords
        DEF Record, Write, TypeOK, Row, VerdictsOn
      <4>2. \A e \in EpisodeIds : episodes[e] # None => episodes'[e] # None
        BY <2>7, <3>1, LedgerAssumption, WellFormedWords DEF Record, Write, TypeOK, Words
      <4> QED BY <2>7, <3>1, <4>1, <4>2 DEF Record, CallRecord, TypeOK, FoundTyped
    <3> QED BY <3>2, <3>3, <3>4
  <2>8. ASSUME NEW c \in Calls, List(c) PROVE TypeInv'
    <3> PICK shown \in SUBSET RunIds :
          call' = [call EXCEPT ![c].pc = "done", ![c].outcome = "ok", ![c].shown = shown]
      BY <2>8 DEF List, Visible
    <3>1. TypeOK'
      <4>1. call[c] \in CallRecord
        BY DEF TypeOK
      <4>2. [call[c] EXCEPT !.pc = "done", !.outcome = "ok", !.shown = shown] \in CallRecord
        BY <4>1, EndTyped
      <4> QED BY <2>8, <4>2 DEF List, TypeOK
    <3>2. CarriesRequest'
      BY <2>8 DEF List, CallRecord, TypeOK, CarriesRequest
    <3>3. FoundTyped'
      BY <2>8 DEF List, CallRecord, TypeOK, FoundTyped
    <3> QED BY <3>1, <3>2, <3>3
  <2>9. ASSUME NEW c \in Calls, Fail(c) PROVE TypeInv'
    <3>1. TypeOK'
      <4>1. call[c] \in CallRecord
        BY DEF TypeOK
      <4>2. [call[c] EXCEPT !.pc = "done", !.outcome = "error"] \in CallRecord
        BY <4>1, EndTyped
      <4> QED BY <2>9, <4>2 DEF Fail, Answered, TypeOK
    <3>2. CarriesRequest'
      BY <2>9 DEF Fail, Answered, CallRecord, TypeOK, CarriesRequest
    <3>3. FoundTyped'
      BY <2>9 DEF Fail, Answered, CallRecord, TypeOK, FoundTyped, CarriesRequest
    <3> QED BY <3>1, <3>2, <3>3
  <2>10. CASE UNCHANGED vars
    BY <2>10 DEF vars, TypeOK, CarriesRequest, FoundTyped
  <2> QED
    BY <2>1, <2>2, <2>3, <2>4, <2>5, <2>6, <2>7, <2>8, <2>9, <2>10
    DEF Next, Platform, Ask, Proceed
<1> QED BY <1>1, <1>2, PTL DEF Spec

-----------------------------------------------------------------------------
(* What a verdict may land on *)

\* A step claims a new run or judges a run there is: the other columns of a row
\* never change, and what a caller may read or name stays so.
LEMMA RowsKept ==
  ASSUME TypeInv, TypeOK', [Next]_vars, NEW r \in RunIds, runs[r] # None
  PROVE  runs[r] \in Row /\ runs'[r] \in Row /\ runs'[r] # None /\ SameRun(runs[r], runs'[r])
<1>1. runs[r] \in Row
  BY DEF TypeInv, TypeOK
<1>2. CASE \E c \in Calls : Record(c)
  <2>1. PICK c \in Calls : Record(c)
    BY <1>2
  <2>2. call[c].req \in Requests /\ WellFormed(call[c].req)
    BY <2>1 DEF Record, TypeInv, CarriesRequest
  <2>3. CASE runs' = runs
    BY <1>1, <2>3, LedgerAssumption DEF SameRun
  <2>4. CASE /\ call[c].req.target = "run"
             /\ runs' = [runs EXCEPT ![call[c].found].verdict = call[c].req.verdict]
    <3> DEFINE judged == [runs[r] EXCEPT !.verdict = call[c].req.verdict]
    <3>1. judged \in Row /\ SameRun(runs[r], judged)
      BY <1>1, <2>2, <2>4, WellFormedWords DEF Row, VerdictsOn, SameRun
    <3>2. runs'[r] \in {runs[r], judged}
      BY <2>4 DEF TypeInv, TypeOK
    <3> QED BY <1>1, <3>1, <3>2, LedgerAssumption DEF SameRun
  <2> QED BY <2>1, <2>3, <2>4 DEF Record, Write
<1>3. CASE \E s \in RunIds, row \in Rows : ClaimRun(s, row)
  BY <1>1, <1>3, LedgerAssumption DEF ClaimRun, TypeInv, TypeOK, SameRun
<1>4. CASE runs' = runs
  BY <1>1, <1>4, LedgerAssumption DEF SameRun
<1> QED
  BY <1>2, <1>3, <1>4
  DEF Next, Platform, Ask, Proceed, OpenEpisode, AskVerdict, AskList, ResolveEpisode,
      ResolveRun, List, Fail, vars

\* Nor does an episode go away.
LEMMA EpisodesKept ==
  ASSUME TypeInv, [Next]_vars, NEW e \in EpisodeIds, episodes[e] # None
  PROVE  episodes'[e] # None
<1>1. CASE \E c \in Calls : Record(c)
  <2>1. PICK c \in Calls : Record(c)
    BY <1>1
  <2>2. call[c].req \in Requests /\ WellFormed(call[c].req)
    BY <2>1 DEF Record, TypeInv, CarriesRequest
  <2> QED BY <2>1, <2>2, WellFormedWords, LedgerAssumption
          DEF Record, Write, TypeInv, TypeOK, Words
<1>2. CASE \E d \in EpisodeIds : OpenEpisode(d)
  BY <1>2 DEF OpenEpisode, TypeInv, TypeOK
<1> QED
  BY <1>1, <1>2
  DEF Next, Platform, Ask, Proceed, ClaimRun, AskVerdict, AskList, ResolveEpisode,
      ResolveRun, List, Fail, vars

\* What a call's address has led to is never forgotten.
LEMMA NewestGrows ==
  ASSUME TypeInv, [Next]_vars, NEW c \in Calls
  PROVE  newest[c] \subseteq newest'[c]
  BY DEF Next, Platform, Ask, Proceed, ClaimRun, OpenEpisode, AskVerdict, AskList,
         ResolveEpisode, ResolveRun, Record, List, Fail, Remember, vars

\* A call keeps its caller and its request, and what it found, to its end; what
\* it holds at the write it got from its own lookup.
LEMMA CallKept ==
  ASSUME TypeInv, [Next]_vars, NEW c \in Calls
  PROVE  /\ call[c].pc # "idle" => /\ call'[c].who = call[c].who
                                   /\ call'[c].req = call[c].req
                                   /\ call[c].wrote => call'[c].wrote
         /\ call'[c].pc = "writing" \/ call'[c].wrote =>
              \/ /\ call[c].pc = "writing" \/ call[c].wrote
                 /\ call'[c].found = call[c].found
              \/ ResolveEpisode(c) \/ ResolveRun(c)
<1> USE DEF TypeInv, TypeOK
<1>1. ASSUME NEW d \in Calls, Ask(d)
      PROVE  call'[c] = call[c] \/ (call[c].pc = "idle" /\ ~call'[c].wrote
                                    /\ call'[c].pc \in {"resolving", "listing", "done"})
  <2>1. /\ call[d].pc = "idle"
        /\ \A e \in Calls : e # d => call'[e] = call[e]
    BY <1>1 DEF Ask, AskVerdict, AskList
  <2>2. ASSUME NEW who \in Callers, NEW q \in Requests, AskVerdict(d, who, q)
        PROVE  call'[d].wrote = FALSE /\ call'[d].pc \in {"resolving", "done"}
    BY <2>2 DEF AskVerdict, Idle
  <2>3. ASSUME NEW who \in Callers, NEW f \in Filters, AskList(d, who, f)
        PROVE  call'[d].wrote = FALSE /\ call'[d].pc \in {"listing", "done"}
    BY <2>3 DEF AskList, Idle
  <2> QED BY <1>1, <2>1, <2>2, <2>3 DEF Ask
<1>2. ASSUME NEW d \in Calls, Record(d) \/ List(d) \/ Fail(d)
      PROVE  call'[c] = call[c]
             \/ /\ call'[c].pc = "done"
                /\ call'[c].who = call[c].who
                /\ call'[c].req = call[c].req
                /\ call'[c].found = call[c].found
                /\ call[c].wrote => call'[c].wrote
                /\ call'[c].wrote => call[c].pc = "writing" \/ call[c].wrote
  <2>1. CASE Record(d)
    BY <2>1 DEF Record, CallRecord
  <2>2. CASE List(d)
    BY <2>2 DEF List, CallRecord
  <2>3. CASE Fail(d)
    BY <2>3 DEF Fail, Answered, CallRecord
  <2> QED BY <1>2, <2>1, <2>2, <2>3
<1>3. ASSUME NEW d \in Calls, ResolveEpisode(d) \/ ResolveRun(d)
      PROVE  call'[c] = call[c]
             \/ /\ c = d
                /\ call'[c].who = call[c].who
                /\ call'[c].req = call[c].req
                /\ call[c].wrote => call'[c].wrote
  BY <1>3 DEF ResolveEpisode, ResolveRun, Found, Answered, CallRecord
<1>4. CASE call' = call
  BY <1>4
<1> QED
  BY <1>1, <1>2, <1>3, <1>4 DEF Next, Platform, Proceed, ClaimRun, OpenEpisode, vars, CarriesRequest

\* The inductive invariant.
LedgerInv ==
  /\ TypeInv
  /\ FoundHolds
  /\ NewestRemembered
  /\ VerdictHasAuthor
  /\ ShownIsReadable

\* What a lookup found still satisfies everything the lookup asked for, when the
\* write runs and for ever after.
LEMMA FoundHoldsStep ==
  ASSUME TypeInv, TypeInv', FoundHolds, NewestRemembered, [Next]_vars PROVE FoundHolds'
<1> SUFFICES ASSUME NEW c \in Calls, call'[c].pc = "writing" \/ call'[c].wrote
             PROVE  Holds(c)'
  BY DEF FoundHolds
<1>1. CASE /\ call[c].pc = "writing" \/ call[c].wrote
           /\ call'[c].found = call[c].found
  <2>1. /\ Holds(c)
        /\ call[c].pc # "idle"
        /\ call[c].who \in Callers
        /\ call[c].req \in Request
    BY <1>1, WellFormedWords
    DEF FoundHolds, TypeInv, TypeOK, CarriesRequest, CallRecord, Idle
  <2>2. call'[c].who = call[c].who /\ call'[c].req = call[c].req
    BY <2>1, CallKept
  <2>3. CASE call[c].req.target = "run"
    <3> DEFINE r == call[c].found
    <3>1. /\ r \in RunIds /\ runs[r] # None /\ r \in newest[c]
          /\ MayRead(call[c].who, runs[r])
          /\ Addresses(call[c].req, call[c].who, r, runs[r])
      BY <2>1, <2>3 DEF Holds
    <3>2. /\ runs[r] \in Row /\ runs'[r] \in Row /\ runs'[r] # None
          /\ SameRun(runs[r], runs'[r])
      BY <3>1, RowsKept DEF TypeInv
    <3>3. /\ MayRead(call[c].who, runs'[r])
          /\ Addresses(call[c].req, call[c].who, r, runs'[r])
      BY <2>1, <3>1, <3>2, ConditionsIgnoreVerdict
    <3>4. r \in newest'[c]
      BY <3>1, NewestGrows
    <3> QED BY <1>1, <2>2, <2>3, <3>1, <3>2, <3>3, <3>4 DEF Holds
  <2>4. CASE call[c].req.target # "run"
    BY <1>1, <2>1, <2>2, <2>4, EpisodesKept DEF Holds
  <2> QED BY <2>3, <2>4
<1>2. CASE ResolveRun(c)
  <2>1. call'[c].pc = "writing"
    BY <1>2 DEF ResolveRun, Found, Answered, TypeInv, TypeOK, CallRecord, CarriesRequest
  <2>2. PICK r \in Newest(runs, Named(runs, call[c].who, call[c].req)) : Found(c, r)
    BY <1>2, <2>1 DEF ResolveRun, Answered, TypeInv, TypeOK, CallRecord
  <2>3. /\ r \in newest[c]
        /\ r \in Named(runs, call[c].who, call[c].req)
    BY <1>2, <2>2 DEF ResolveRun, NewestRemembered, Newest
  <2>4. /\ call'[c].found = r
        /\ call'[c].who = call[c].who
        /\ call'[c].req = call[c].req
    BY <2>2 DEF Found, TypeInv, TypeOK, CallRecord
  <2> QED BY <1>2, <2>3, <2>4 DEF ResolveRun, Holds, Named
<1>3. CASE ResolveEpisode(c)
  <2>1. /\ call[c].req \in Requests
        /\ WellFormed(call[c].req)
        /\ call[c].req.target # "run"
    BY <1>3 DEF ResolveEpisode, TypeInv, CarriesRequest
  <2>2. call'[c].req = call[c].req
    BY <1>3 DEF ResolveEpisode, Found, Answered, TypeInv, TypeOK, CallRecord
  <2> QED BY <2>1, <2>2 DEF Holds, TypeInv, FoundTyped
<1> QED BY <1>1, <1>2, <1>3, CallKept

\* A new row, and a new call, are remembered as they come; a verdict does not
\* change which run is the newest of an address.
LEMMA NewestRememberedStep ==
  ASSUME TypeInv, TypeInv', NewestRemembered, [Next]_vars PROVE NewestRemembered'
<1> DEFINE Leads(c) == Newest(runs, Named(runs, call[c].who, call[c].req))
<1> SUFFICES ASSUME NEW c \in Calls, call'[c].pc = "resolving", call'[c].req.target = "run"
             PROVE  Leads(c)' \subseteq newest'[c]
  BY DEF NewestRemembered
<1>1. CASE Remember(runs', call')
  BY <1>1 DEF Remember
<1>2. CASE newest' = newest /\ call'[c] = call[c]
  <2>1. /\ call[c].who \in Callers /\ call[c].req \in Request
        /\ call[c].pc = "resolving" /\ call[c].req.target = "run"
    BY <1>2, WellFormedWords DEF TypeInv, TypeOK, CarriesRequest, CallRecord
  <2>2. CASE runs' = runs
    BY <1>2, <2>1, <2>2 DEF NewestRemembered
  <2>3. CASE \E d \in Calls : Record(d)
    <3>1. \A r \in RunIds : runs[r] = None => runs'[r] = None
      <4> PICK d \in Calls : Record(d)
        BY <2>3
      <4>1. runs[call[d].found] # None \/ runs' = runs
        BY DEF Record, Write, TypeInv, FoundTyped
      <4> QED BY <4>1 DEF Record, Write, TypeInv, TypeOK
    <3>2. \A r \in RunIds : runs[r] # None =>
            /\ runs[r] \in Row /\ runs'[r] \in Row /\ runs'[r] # None
            /\ SameRun(runs[r], runs'[r])
      BY RowsKept DEF TypeInv
    <3>3. Named(runs', call[c].who, call[c].req) = Named(runs, call[c].who, call[c].req)
      BY <2>1, <3>1, <3>2, ConditionsIgnoreVerdict DEF Named
    <3>4. \A r \in Named(runs, call[c].who, call[c].req) : runs'[r].born = runs[r].born
      BY <3>2 DEF Named, SameRun
    <3>5. Leads(c)' = Leads(c)
      BY <1>2, <3>3, <3>4 DEF Newest
    <3> QED BY <1>2, <2>1, <3>5 DEF NewestRemembered
  <2> QED BY <1>1, <2>2, <2>3
          DEF Next, Platform, Ask, Proceed, ClaimRun, OpenEpisode, AskVerdict, AskList,
              ResolveEpisode, ResolveRun, List, Fail, vars
<1>3. ASSUME NEW d \in Calls, Proceed(d) PROVE call'[c] = call[c]
  <2>1. ASSUME call' = [call EXCEPT ![d] = call'[d]], call'[d].pc # "resolving"
        PROVE  call'[c] = call[c]
    BY <2>1 DEF TypeInv, TypeOK
  <2>2. CASE ResolveEpisode(d) \/ ResolveRun(d)
    BY <2>1, <2>2 DEF ResolveEpisode, ResolveRun, Found, Answered, TypeInv, TypeOK, CallRecord
  <2>3. CASE Record(d)
    BY <2>1, <2>3 DEF Record, TypeInv, TypeOK, CallRecord
  <2>4. CASE List(d)
    BY <2>1, <2>4 DEF List, TypeInv, TypeOK, CallRecord
  <2>5. CASE Fail(d)
    BY <2>1, <2>5 DEF Fail, Answered, TypeInv, TypeOK, CallRecord
  <2> QED BY <1>3, <2>2, <2>3, <2>4, <2>5 DEF Proceed
<1>4. ASSUME NEW d \in Calls, NEW who \in Callers, NEW f \in Filters, AskList(d, who, f)
      PROVE  call'[c] = call[c]
  BY <1>4 DEF AskList, Idle, TypeInv, TypeOK
<1> QED BY <1>1, <1>2, <1>3, <1>4
        DEF Next, Platform, Ask, Proceed, ClaimRun, OpenEpisode, AskVerdict, AskList,
            ResolveEpisode, ResolveRun, Record, List, Fail, vars

\* A call that has written is over: it keeps what it wrote and where.
LEMMA WrittenKept ==
  ASSUME TypeInv, [Next]_vars, NEW c \in Calls, call[c].wrote
  PROVE  /\ call'[c].wrote
         /\ call'[c].found = call[c].found
         /\ call'[c].req = call[c].req
<1>1. call[c].pc = "done"
  BY DEF TypeInv, CarriesRequest
<1>2. ~ResolveEpisode(c) /\ ~ResolveRun(c)
  BY <1>1 DEF ResolveEpisode, ResolveRun
<1> QED BY <1>1, <1>2, CallKept

\* Only Record gives a row a verdict, and the call that does is its author.
LEMMA VerdictHasAuthorStep ==
  ASSUME TypeInv, TypeInv', VerdictHasAuthor, [Next]_vars PROVE VerdictHasAuthor'
<1> DEFINE Wrote(x, v) == \E c \in Calls : /\ call[c].wrote
                                           /\ call[c].found = x
                                           /\ call[c].req.verdict = v
<1>1. ASSUME NEW x, NEW v, Wrote(x, v) PROVE Wrote(x, v)'
  BY <1>1, WrittenKept
<1>2. ASSUME NEW c \in Calls, Record(c), NEW x, NEW v, x = call[c].found, v = call[c].req.verdict
      PROVE  Wrote(x, v)'
  <2>1. call'[c].wrote /\ call'[c].found = x /\ call'[c].req.verdict = v
    BY <1>2 DEF Record, TypeInv, TypeOK, CallRecord
  <2> QED BY <2>1
<1>3. ASSUME NEW r \in RunIds, runs'[r] # None, runs'[r].verdict # None
      PROVE  Wrote(r, runs[r].verdict)'
  <2>1. CASE runs'[r] = runs[r]
    <3>1. Wrote(r, runs[r].verdict)
      BY <1>3, <2>1 DEF VerdictHasAuthor
    <3> QED BY <1>1, <2>1, <3>1
  <2>2. CASE \E row \in Rows : ClaimRun(r, row)
    BY <1>3, <2>2, LedgerAssumption DEF ClaimRun, TypeInv, TypeOK
  <2>3. ASSUME NEW c \in Calls, Record(c), runs'[r] # runs[r]
        PROVE  Wrote(r, runs[r].verdict)'
    <3>1. /\ r = call[c].found
          /\ runs[r] # None
          /\ runs' = [runs EXCEPT ![r].verdict = call[c].req.verdict]
      BY <2>3 DEF Record, Write, TypeInv, TypeOK, FoundTyped
    <3>2. runs'[r].verdict = call[c].req.verdict
      BY <3>1 DEF TypeInv, TypeOK, Row
    <3> QED BY <1>2, <2>3, <3>1, <3>2
  <2> QED BY <2>1, <2>2, <2>3
          DEF Next, Platform, Ask, Proceed, ClaimRun, OpenEpisode, AskVerdict, AskList,
              ResolveEpisode, ResolveRun, List, Fail, vars, TypeInv, TypeOK
<1>4. ASSUME NEW e \in EpisodeIds, episodes'[e] \in Words
      PROVE  Wrote(e, episodes[e])'
  <2>1. CASE episodes'[e] = episodes[e]
    BY <1>1, <1>4, <2>1 DEF VerdictHasAuthor
  <2>2. CASE OpenEpisode(e)
    BY <1>4, <2>2 DEF OpenEpisode, TypeInv, TypeOK, Words
  <2>3. ASSUME NEW c \in Calls, Record(c), episodes'[e] # episodes[e]
        PROVE  Wrote(e, episodes[e])'
    <3>1. e = call[c].found /\ episodes'[e] = call[c].req.verdict
      BY <2>3 DEF Record, Write, TypeInv, TypeOK
    <3> QED BY <1>2, <2>3, <3>1
  <2> QED BY <2>1, <2>2, <2>3
          DEF Next, Platform, Ask, Proceed, ClaimRun, OpenEpisode, AskVerdict, AskList,
              ResolveEpisode, ResolveRun, List, Fail, vars, TypeInv, TypeOK
<1> QED BY <1>3, <1>4 DEF VerdictHasAuthor

\* list_runs shows rows the caller may read when it reads them, and a row does
\* not change hands afterwards.
LEMMA ShownIsReadableStep ==
  ASSUME TypeInv, TypeInv', ShownIsReadable, [Next]_vars PROVE ShownIsReadable'
<1> SUFFICES ASSUME NEW c \in Calls, NEW r \in call'[c].shown
             PROVE  r \in Visible(call[c].who)'
  BY DEF ShownIsReadable
<1>1. call[c].who \in Callers /\ call'[c].who \in Callers /\ r \in RunIds
  BY DEF TypeInv, TypeOK, CallRecord
<1>2. call'[c].who = call[c].who /\ r \in Visible(call[c].who)
  <2>1. ASSUME NEW shown \in SUBSET Visible(call[c].who),
               call' = [call EXCEPT ![c].pc = "done", ![c].outcome = "ok", ![c].shown = shown]
        PROVE  call'[c].who = call[c].who /\ r \in Visible(call[c].who)
    BY <2>1 DEF TypeInv, TypeOK, CallRecord
  <2>2. CASE List(c)
    BY <2>1, <2>2 DEF List
  <2>3. CASE call'[c].who = call[c].who /\ call'[c].shown = call[c].shown
    BY <2>3 DEF ShownIsReadable
  <2>4. CASE call'[c].shown = {}
    BY <2>4
  <2>5. ASSUME NEW d \in Calls, Ask(d)
        PROVE  call'[c] = call[c] \/ call'[c].shown = {}
    <3>1. ASSUME NEW who \in Callers, NEW q \in Requests, AskVerdict(d, who, q)
          PROVE  call'[c] = call[c] \/ call'[c].shown = {}
      BY <3>1 DEF AskVerdict, Idle, TypeInv, TypeOK
    <3>2. ASSUME NEW who \in Callers, NEW f \in Filters, AskList(d, who, f)
          PROVE  call'[c] = call[c] \/ call'[c].shown = {}
      BY <3>2 DEF AskList, Idle, TypeInv, TypeOK
    <3> QED BY <2>5, <3>1, <3>2 DEF Ask
  <2>6. ASSUME NEW d \in Calls, Proceed(d), ~List(c)
        PROVE  call'[c].who = call[c].who /\ call'[c].shown = call[c].shown
    <3>1. CASE ResolveEpisode(d) \/ ResolveRun(d)
      BY <3>1 DEF ResolveEpisode, ResolveRun, Found, Answered, TypeInv, TypeOK, CallRecord
    <3>2. CASE Record(d)
      BY <3>2 DEF Record, TypeInv, TypeOK, CallRecord
    <3>3. CASE List(d)
      <4>1. d # c
        BY <2>6, <3>3
      <4>2. \E now : call' = [call EXCEPT ![d] = now]
        BY <3>3 DEF List, TypeInv, TypeOK
      <4> QED BY <4>1, <4>2 DEF TypeInv, TypeOK
    <3>4. CASE Fail(d)
      BY <3>4 DEF Fail, Answered, TypeInv, TypeOK, CallRecord
    <3> QED BY <2>6, <3>1, <3>2, <3>3, <3>4 DEF Proceed
  <2> QED BY <2>2, <2>3, <2>4, <2>5, <2>6 DEF Next, Platform, ClaimRun, OpenEpisode, vars
<1>3. /\ runs[r] \in Row /\ runs'[r] \in Row /\ runs'[r] # None
      /\ runs[r].person = runs'[r].person
  BY <1>1, <1>2, RowsKept DEF Visible, TypeInv, SameRun
<1> QED BY <1>1, <1>2, <1>3 DEF Visible, MayRead

-----------------------------------------------------------------------------
(* The theorems *)

\* The inductive invariant holds in every state of every ledger.
THEOREM LedgerInvariant == Spec => []LedgerInv
<1>1. Init => LedgerInv
  <2>1. Init => TypeInv
    BY LedgerAssumption DEF Init, TypeInv, TypeOK, CarriesRequest, FoundTyped, Idle, CallRecord
  <2>2. Init => FoundHolds /\ NewestRemembered /\ ShownIsReadable
    BY DEF Init, FoundHolds, NewestRemembered, ShownIsReadable, Idle
  <2>3. Init => VerdictHasAuthor
    BY LedgerAssumption DEF Init, VerdictHasAuthor
  <2> QED BY <2>1, <2>2, <2>3 DEF LedgerInv
<1>2. TypeInv /\ TypeInv' /\ LedgerInv /\ [Next]_vars => LedgerInv'
  BY FoundHoldsStep, NewestRememberedStep, VerdictHasAuthorStep, ShownIsReadableStep
  DEF LedgerInv
<1> QED BY <1>1, <1>2, LedgerTypeInvariant, PTL DEF Spec

\* Of a run that was judged everything its lookup asked for still holds.
LEMMA JudgedHolds ==
  ASSUME LedgerInv, NEW c \in Calls, JudgedRun(c)
  PROVE  LET r == call[c].found IN
           /\ r \in Visible(call[c].who)
           /\ Addresses(call[c].req, call[c].who, r, runs[r])
           /\ r \in newest[c]
<1>1. Holds(c)
  BY DEF LedgerInv, FoundHolds, JudgedRun
<1>2. call[c].req.target = "run"
  BY <1>1, LedgerAssumption DEF Holds, JudgedRun
<1> QED BY <1>1, <1>2 DEF Holds, Visible

\* Whatever callers send and whenever rows appear, the tables keep the shape of
\* agent_runs and episode_verdicts and every call that of the two tools.
THEOREM LedgerTypeOK == Spec => []TypeOK
<1>1. TypeInv => TypeOK
  BY DEF TypeInv
<1> QED BY <1>1, LedgerTypeInvariant, PTL

\* A verdict lands only on a run its caller may read, although the UPDATE runs
\* by id alone and after the ledger may have changed (_judge_run).
THEOREM VerdictOnlyWhereReadable == Spec => []JudgedIsReadable
<1>1. LedgerInv => JudgedIsReadable
  BY JudgedHolds DEF JudgedIsReadable
<1> QED BY <1>1, LedgerInvariant, PTL

\* The run judged is one the request names, and was the newest its address led
\* to at some moment of the call, whatever the trigger service claims meanwhile.
THEOREM VerdictOnNewestNamed == Spec => [](JudgedIsNamed /\ JudgedWasNewest)
<1>1. LedgerInv => JudgedIsNamed /\ JudgedWasNewest
  BY JudgedHolds DEF JudgedIsNamed, JudgedWasNewest
<1> QED BY <1>1, LedgerInvariant, PTL

\* Every verdict in the two tables is the word of a call that committed it
\* there, and no listing shows another person's run.
THEOREM VerdictsAreAuthored == Spec => [](VerdictHasAuthor /\ ShownIsReadable)
<1>1. LedgerInv => VerdictHasAuthor /\ ShownIsReadable
  BY DEF LedgerInv
<1> QED BY <1>1, LedgerInvariant, PTL

-----------------------------------------------------------------------------
(* The ledger implements, for every caller, the ledger of that caller      *)
(* alone: each step of Ledger is a step of LedgerView on the rows the      *)
(* reader may read and the reader's own calls, or changes nothing there.   *)

\* The mapped calls after one call changed.
LEMMA MineAfter ==
  ASSUME NEW c \in Calls, NEW now, call \in [Calls -> CallRecord],
         call' = [call EXCEPT ![c] = now]
  PROVE  [d \in Calls |-> Mine(call[d])]' =
           [[d \in Calls |-> Mine(call[d])] EXCEPT ![c] = Mine(now)]
  OBVIOUS

\* The mapped rows after one row changed.
LEMMA SeenAfter ==
  ASSUME NEW r \in RunIds, NEW now, runs \in [RunIds -> Row \cup {None}],
         runs' = [runs EXCEPT ![r] = now]
  PROVE  [s \in RunIds |-> Seen(runs[s])]' =
           [[s \in RunIds |-> Seen(runs[s])] EXCEPT ![r] = Seen(now)]
  OBVIOUS

\* A claimed run appears to the reader, or it is not the reader's to see.
LEMMA ClaimRunView ==
  ASSUME TypeInv, NEW r \in RunIds, NEW row \in Rows, ClaimRun(r, row)
  PROVE  [View!Next]_(View!vars)
<1>1. row \in Row /\ row # None
  BY LedgerAssumption
<1>2. [s \in RunIds |-> Seen(runs[s])]' =
        [[s \in RunIds |-> Seen(runs[s])] EXCEPT ![r] = Seen(row)]
  BY SeenAfter DEF ClaimRun, TypeInv, TypeOK
<1>3. Seen(runs[r]) = None
  BY DEF ClaimRun, Seen
<1>4. CASE MayRead(Reader, row)
  <2>1. View!Appear(r, row)
    BY <1>1, <1>2, <1>3, <1>4 DEF View!Appear, View!MayRead, MayRead, Seen, ClaimRun
  <2> QED BY <2>1 DEF View!Next, View!Others
<1>5. CASE ~MayRead(Reader, row)
  <2>1. [s \in RunIds |-> Seen(runs[s])]' = [s \in RunIds |-> Seen(runs[s])]
    BY <1>2, <1>3, <1>5 DEF Seen
  <2> QED BY <2>1 DEF View!vars, ClaimRun
<1> QED BY <1>4, <1>5

\* An episode opens in the view as in the ledger.
LEMMA OpenEpisodeView ==
  ASSUME TypeInv, NEW e \in EpisodeIds, OpenEpisode(e)
  PROVE  [View!Next]_(View!vars)
<1>1. View!Open(e)
  BY DEF OpenEpisode, View!Open
<1> QED BY <1>1 DEF View!Next, View!Others

\* A step of somebody else's call that touches neither table is not seen.
LEMMA OthersCallView ==
  ASSUME TypeInv, NEW c \in Calls, NEW now, call' = [call EXCEPT ![c] = now],
         Mine(call[c]) = Idle, Mine(now) = Idle, UNCHANGED <<runs, episodes>>
  PROVE  UNCHANGED View!vars
<1>1. [d \in Calls |-> Mine(call[d])]' = [d \in Calls |-> Mine(call[d])]
  BY MineAfter DEF TypeInv, TypeOK
<1> QED BY <1>1 DEF View!vars

\* A call is asked by the reader, and checked as Ledger checks it, or it is not
\* the reader's.
LEMMA AskView ==
  ASSUME TypeInv, NEW c \in Calls, Ask(c)
  PROVE  [View!Next]_(View!vars)
<1> DEFINE mine == [d \in Calls |-> Mine(call[d])]
<1>1. Mine(call[c]) = Idle /\ mine[c].pc = "idle"
  BY DEF Ask, AskVerdict, AskList, Mine, Idle
<1>2. ASSUME NEW now, call' = [call EXCEPT ![c] = now], UNCHANGED <<runs, episodes>>,
             now.who # Reader
      PROVE  [View!Next]_(View!vars)
  <2>1. Mine(now) = Idle
    BY <1>2 DEF Mine
  <2> QED BY <1>1, <1>2, <2>1, OthersCallView
<1>3. ASSUME NEW now, call' = [call EXCEPT ![c] = now], now.who = Reader, now.pc # "idle"
      PROVE  mine' = [mine EXCEPT ![c] = now]
  <2>1. Mine(now) = now
    BY <1>3 DEF Mine
  <2> QED BY <1>3, <2>1, MineAfter DEF TypeInv, TypeOK
<1>4. ASSUME NEW who \in Callers, NEW q \in Requests, AskVerdict(c, who, q), WellFormed(q)
      PROVE  [View!Next]_(View!vars)
  <2> DEFINE now == [Idle EXCEPT !.pc = "resolving", !.who = who, !.req = q]
  <2>1. now.who = who /\ now.pc # "idle"
    BY DEF Idle
  <2>2. call' = [call EXCEPT ![c] = now] /\ UNCHANGED <<runs, episodes>>
    BY <1>4 DEF AskVerdict
  <2>3. CASE who # Reader
    BY <1>2, <2>1, <2>2, <2>3
  <2>4. CASE who = Reader
    <3>1. mine' = [mine EXCEPT ![c] = now]
      BY <1>3, <2>1, <2>2, <2>4
    <3>2. View!Ask(c)
      BY <1>1, <1>4, <2>2, <2>4, <3>1
      DEF View!Ask, View!Stage, View!WellFormed, View!VerdictsOn, WellFormed, VerdictsOn, View!Idle, Idle
    <3> QED BY <3>2 DEF View!Next
  <2> QED BY <2>3, <2>4
<1>5. ASSUME NEW who \in Callers, NEW q \in Requests, AskVerdict(c, who, q), ~WellFormed(q)
      PROVE  [View!Next]_(View!vars)
  <2> DEFINE now == [Idle EXCEPT !.pc = "done", !.who = who, !.outcome = "refused"]
  <2>1. now.who = who /\ now.pc # "idle"
    BY DEF Idle
  <2>2. call' = [call EXCEPT ![c] = now] /\ UNCHANGED <<runs, episodes>>
    BY <1>5 DEF AskVerdict
  <2>3. CASE who # Reader
    BY <1>2, <2>1, <2>2, <2>3
  <2>4. CASE who = Reader
    <3>1. mine' = [mine EXCEPT ![c] = now]
      BY <1>3, <2>1, <2>2, <2>4
    <3>2. View!Ask(c)
      BY <1>1, <2>2, <2>4, <3>1 DEF View!Ask, View!Stage, View!Idle, Idle
    <3> QED BY <3>2 DEF View!Next
  <2> QED BY <2>3, <2>4
<1>6. ASSUME NEW who \in Callers, NEW f \in Filters, AskList(c, who, f), Listable(f)
      PROVE  [View!Next]_(View!vars)
  <2> DEFINE now == [Idle EXCEPT !.pc = "listing", !.who = who, !.req = f]
  <2>1. now.who = who /\ now.pc # "idle"
    BY DEF Idle
  <2>2. call' = [call EXCEPT ![c] = now] /\ UNCHANGED <<runs, episodes>>
    BY <1>6 DEF AskList
  <2>3. CASE who # Reader
    BY <1>2, <2>1, <2>2, <2>3
  <2>4. CASE who = Reader
    <3>1. mine' = [mine EXCEPT ![c] = now]
      BY <1>3, <2>1, <2>2, <2>4
    <3>2. View!Ask(c)
      BY <1>1, <1>6, <2>2, <2>4, <3>1
      DEF View!Ask, View!Stage, View!Listable, Listable, View!Idle, Idle
    <3> QED BY <3>2 DEF View!Next
  <2> QED BY <2>3, <2>4
<1>7. ASSUME NEW who \in Callers, NEW f \in Filters, AskList(c, who, f), ~Listable(f)
      PROVE  [View!Next]_(View!vars)
  <2> DEFINE now == [Idle EXCEPT !.pc = "done", !.who = who, !.outcome = "refused"]
  <2>1. now.who = who /\ now.pc # "idle"
    BY DEF Idle
  <2>2. call' = [call EXCEPT ![c] = now] /\ UNCHANGED <<runs, episodes>>
    BY <1>7 DEF AskList
  <2>3. CASE who # Reader
    BY <1>2, <2>1, <2>2, <2>3
  <2>4. CASE who = Reader
    <3>1. mine' = [mine EXCEPT ![c] = now]
      BY <1>3, <2>1, <2>2, <2>4
    <3>2. View!Ask(c)
      BY <1>1, <2>2, <2>4, <3>1 DEF View!Ask, View!Stage, View!Idle, Idle
    <3> QED BY <3>2 DEF View!Next
  <2> QED BY <2>3, <2>4
<1> QED BY <1>4, <1>5, <1>6, <1>7 DEF Ask

\* A step of a call under way that touches no table: the reader's own is a step
\* of the view where the view allows it, anybody else's is not seen.
LEMMA CallStepView ==
  ASSUME TypeInv, NEW c \in Calls, call[c].pc # "idle",
         NEW now, call' = [call EXCEPT ![c] = now], now.who = call[c].who, now.pc # "idle"
  PROVE  /\ call[c].who = Reader =>
              /\ [d \in Calls |-> Mine(call[d])][c] = call[c]
              /\ [d \in Calls |-> Mine(call[d])]' =
                   [[d \in Calls |-> Mine(call[d])] EXCEPT ![c] = now]
         /\ call[c].who # Reader /\ UNCHANGED <<runs, episodes>> => UNCHANGED View!vars
         /\ call[c].who # Reader =>
              [d \in Calls |-> Mine(call[d])]' = [d \in Calls |-> Mine(call[d])]
<1>1. call[c].who = Reader => Mine(call[c]) = call[c] /\ Mine(now) = now
  BY DEF Mine
<1>2. call[c].who # Reader => Mine(call[c]) = Idle /\ Mine(now) = Idle
  BY DEF Mine
<1> QED BY <1>1, <1>2, MineAfter, OthersCallView DEF TypeInv, TypeOK

\* What the reader's run address leads to is the same with the visibility filter
\* on the ledger as without one on the view.
LEMMA NamedView ==
  ASSUME TypeInv, NEW q \in Requests
  PROVE  LET view == [r \in RunIds |-> Seen(runs[r])]
             named == {r \in RunIds : view[r] # None /\ View!Addresses(q, Reader, r, view[r])}
         IN /\ Named(runs, Reader, q) = named
            /\ Newest(runs, named) = View!Newest(view, named)
<1> DEFINE view == [r \in RunIds |-> Seen(runs[r])]
<1>1. \A r \in RunIds : /\ view[r] # None <=> runs[r] # None /\ MayRead(Reader, runs[r])
                        /\ view[r] # None => view[r] = runs[r]
  BY DEF Seen
<1>2. \A r \in RunIds : \A row : View!Addresses(q, Reader, r, row) <=> Addresses(q, Reader, r, row)
  BY DEF View!Addresses, Addresses, View!KeyMatches, KeyMatches
<1>3. Named(runs, Reader, q) =
        {r \in RunIds : view[r] # None /\ View!Addresses(q, Reader, r, view[r])}
  BY <1>1, <1>2 DEF Named
<1>4. ASSUME NEW ids \in SUBSET {r \in RunIds : view[r] # None}
      PROVE  Newest(runs, ids) = View!Newest(view, ids)
  BY <1>1, <1>4 DEF Newest, View!Newest
<1> HIDE DEF view
<1>5. {r \in RunIds : view[r] # None /\ View!Addresses(q, Reader, r, view[r])}
        \in SUBSET {r \in RunIds : view[r] # None}
  OBVIOUS
<1>6. Newest(runs, {r \in RunIds : view[r] # None /\ View!Addresses(q, Reader, r, view[r])})
        = View!Newest(view, {r \in RunIds : view[r] # None /\ View!Addresses(q, Reader, r, view[r])})
  BY <1>4, <1>5
<1> QED BY <1>3, <1>6 DEF view

\* The lookup of a verdict finds for the reader what the view would find.
LEMMA ResolveView ==
  ASSUME TypeInv, NEW c \in Calls, ResolveEpisode(c) \/ ResolveRun(c)
  PROVE  [View!Next]_(View!vars)
<1> DEFINE view == [r \in RunIds |-> Seen(runs[r])]
           mine == [d \in Calls |-> Mine(call[d])]
           q == call[c].req
<1>1. /\ call[c].pc = "resolving"
      /\ q \in Requests /\ WellFormed(q)
      /\ UNCHANGED <<runs, episodes>>
  BY DEF ResolveEpisode, ResolveRun, TypeInv, CarriesRequest
<1>2. ASSUME NEW x, Found(c, x), call[c].who = Reader => x \in View!Candidates(c)
      PROVE  [View!Next]_(View!vars)
  <2> DEFINE now == [call[c] EXCEPT !.pc = "writing", !.found = x]
  <2>1. call' = [call EXCEPT ![c] = now] /\ now.who = call[c].who /\ now.pc # "idle"
    BY <1>2 DEF Found, TypeInv, TypeOK, CallRecord
  <2>2. CASE call[c].who = Reader
    <3>1. mine[c] = call[c] /\ mine' = [mine EXCEPT ![c] = now]
      BY <1>1, <2>1, <2>2, CallStepView
    <3>2. mine' = [mine EXCEPT ![c].pc = "writing", ![c].found = x]
      BY <3>1
    <3>3. View!Resolve(c)
      BY <1>1, <1>2, <2>2, <3>1, <3>2 DEF View!Resolve, View!Stage
    <3> QED BY <3>3 DEF View!Next
  <2>3. CASE call[c].who # Reader
    BY <1>1, <2>1, <2>3, CallStepView
  <2> QED BY <2>2, <2>3
<1>3. ASSUME Answered(c, "refused"), call[c].who = Reader => View!Candidates(c) = {}
      PROVE  [View!Next]_(View!vars)
  <2> DEFINE now == [call[c] EXCEPT !.pc = "done", !.outcome = "refused"]
  <2>1. call' = [call EXCEPT ![c] = now] /\ now.who = call[c].who /\ now.pc # "idle"
    BY <1>3 DEF Answered, TypeInv, TypeOK, CallRecord
  <2>2. CASE call[c].who = Reader
    <3>1. mine[c] = call[c] /\ mine' = [mine EXCEPT ![c] = now]
      BY <1>1, <2>1, <2>2, CallStepView
    <3>2. mine' = [mine EXCEPT ![c].pc = "done", ![c].outcome = "refused"]
      BY <3>1
    <3>3. View!Resolve(c)
      BY <1>1, <1>3, <2>2, <3>1, <3>2 DEF View!Resolve, View!Stage
    <3> QED BY <3>3 DEF View!Next
  <2>3. CASE call[c].who # Reader
    BY <1>1, <2>1, <2>3, CallStepView
  <2> QED BY <2>2, <2>3
<1>4. call[c].who = Reader => mine[c] = call[c]
  BY <1>1 DEF Mine
<1>5. CASE ResolveEpisode(c)
  <2>1. call[c].who = Reader =>
          View!Candidates(c) = {e \in {q.episode} : episodes[e] # None}
    BY <1>4, <1>5 DEF View!Candidates, ResolveEpisode
  <2> QED BY <1>2, <1>3, <1>5, <2>1 DEF ResolveEpisode
<1>6. CASE ResolveRun(c)
  <2>1. call[c].who = Reader =>
          View!Candidates(c) = Newest(runs, Named(runs, Reader, q))
    BY <1>1, <1>4, <1>6, NamedView DEF View!Candidates, ResolveRun
  <2>2. Named(runs, call[c].who, q) = {} => Newest(runs, Named(runs, call[c].who, q)) = {}
    BY DEF Newest
  <2> QED BY <1>2, <1>3, <1>6, <2>1, <2>2 DEF ResolveRun
<1> QED BY <1>5, <1>6

\* The rows of the view after a verdict on run x: the verdict shows where the
\* run does, and nowhere else.
LEMMA JudgedRowView ==
  ASSUME TypeInv, NEW x \in RunIds, runs[x] # None, NEW v \in VerdictsOn.run,
         runs' = [runs EXCEPT ![x].verdict = v]
  PROVE  LET view == [r \in RunIds |-> Seen(runs[r])] IN
           /\ MayRead(Reader, runs[x]) => /\ view[x] = runs[x]
                                          /\ view' = [view EXCEPT ![x].verdict = v]
           /\ ~MayRead(Reader, runs[x]) => view' = view
<1> DEFINE row == [runs[x] EXCEPT !.verdict = v]
           view == [r \in RunIds |-> Seen(runs[r])]
<1>1. runs[x] \in Row /\ row \in Row /\ row.person = runs[x].person /\ row # None
  BY LedgerAssumption DEF TypeInv, TypeOK, Row
<1>2. runs' = [runs EXCEPT ![x] = row]
  OBVIOUS
<1>3. view' = [view EXCEPT ![x] = Seen(row)]
  BY <1>2, SeenAfter DEF TypeInv, TypeOK
<1>4. CASE MayRead(Reader, runs[x])
  <2>1. Seen(row) = row /\ view[x] = runs[x]
    BY <1>1, <1>4 DEF Seen, MayRead
  <2> QED BY <1>3, <1>4, <2>1
<1>5. CASE ~MayRead(Reader, runs[x])
  <2>1. Seen(row) = None /\ view[x] = None
    BY <1>1, <1>5 DEF Seen, MayRead
  <2>2. view' = view
    BY <1>3, <2>1
  <2> QED BY <1>5, <2>2
<1> QED BY <1>4, <1>5

\* A verdict is the reader's own, somebody's on a machine's run or an episode,
\* or somebody's on a run the reader does not see.
LEMMA RecordView ==
  ASSUME LedgerInv, NEW c \in Calls, Record(c)
  PROVE  [View!Next]_(View!vars)
<1> DEFINE view == [r \in RunIds |-> Seen(runs[r])]
           mine == [d \in Calls |-> Mine(call[d])]
           x == call[c].found
           v == call[c].req.verdict
<1>1. /\ TypeInv
      /\ call[c].pc = "writing" /\ WriteEnabled
      /\ call[c].req \in Requests /\ WellFormed(call[c].req)
      /\ Holds(c)
  BY DEF Record, LedgerInv, TypeInv, CarriesRequest, FoundHolds
<1>2. PICK outcome \in {"ok", "error"} :
        call' = [call EXCEPT ![c].pc = "done", ![c].outcome = outcome, ![c].wrote = TRUE]
  BY DEF Record
<1> DEFINE now == [call[c] EXCEPT !.pc = "done", !.outcome = outcome, !.wrote = TRUE]
<1>3. call' = [call EXCEPT ![c] = now] /\ now.who = call[c].who /\ now.pc # "idle"
  BY <1>1, <1>2 DEF TypeInv, TypeOK, CallRecord
<1>4. /\ call[c].who = Reader =>
           mine[c] = call[c] /\ mine' = [mine EXCEPT ![c] = now]
      /\ call[c].who # Reader => mine' = mine
  BY <1>1, <1>3, CallStepView
<1>5. CASE call[c].req.target = "run"
  <2>1. /\ x \in RunIds /\ runs[x] # None /\ MayRead(call[c].who, runs[x])
        /\ v \in VerdictsOn.run
        /\ runs' = [runs EXCEPT ![x].verdict = v] /\ UNCHANGED episodes
    BY <1>1, <1>5, WellFormedWords DEF Record, Write, Holds, VerdictsOn, Visible
  <2>2. /\ MayRead(Reader, runs[x]) => /\ view[x] = runs[x]
                                       /\ view' = [view EXCEPT ![x].verdict = v]
        /\ ~MayRead(Reader, runs[x]) => view' = view
    BY <1>1, <2>1, JudgedRowView
  <2>3. CASE call[c].who = Reader
    <3>1. view[x] # None /\ view' = [view EXCEPT ![x].verdict = v]
      BY <2>1, <2>2, <2>3
    <3>2. mine' = [mine EXCEPT ![c].pc = "done", ![c].outcome = outcome, ![c].wrote = TRUE]
      BY <1>4, <2>3
    <3>3. View!Record(c)
      BY <1>1, <1>2, <1>4, <1>5, <2>1, <2>3, <3>1, <3>2 DEF View!Record, View!Stage
    <3> QED BY <3>3 DEF View!Next
  <2>4. CASE call[c].who # Reader /\ MayRead(Reader, runs[x])
    <3>1. view[x] = runs[x] /\ view[x].person = NoPerson
      BY <1>1, <2>1, <2>2, <2>4 DEF MayRead
    <3>2. View!OthersJudgeRun(x, v)
      BY <1>1, <1>4, <2>1, <2>2, <2>4, <3>1 DEF View!OthersJudgeRun
    <3> QED BY <2>1, <3>2 DEF View!Next, View!Others, View!VerdictsOn, VerdictsOn
  <2>5. CASE call[c].who # Reader /\ ~MayRead(Reader, runs[x])
    BY <1>4, <2>1, <2>2, <2>5 DEF View!vars
  <2> QED BY <2>3, <2>4, <2>5
<1>6. CASE call[c].req.target # "run"
  <2>1. /\ x \in EpisodeIds /\ episodes[x] # None
        /\ v \in VerdictsOn.episode
        /\ episodes' = [episodes EXCEPT ![x] = v] /\ UNCHANGED runs
    BY <1>1, <1>6, WellFormedWords DEF Record, Write, Holds, VerdictsOn
  <2>2. view' = view
    BY <2>1
  <2>3. CASE call[c].who = Reader
    <3>1. mine' = [mine EXCEPT ![c].pc = "done", ![c].outcome = outcome, ![c].wrote = TRUE]
      BY <1>4, <2>3
    <3>2. View!Record(c)
      BY <1>1, <1>2, <1>4, <1>6, <2>1, <2>2, <2>3, <3>1 DEF View!Record, View!Stage
    <3> QED BY <3>2 DEF View!Next
  <2>4. CASE call[c].who # Reader
    <3>1. View!OthersJudgeEpisode(x, v)
      BY <1>1, <1>4, <2>1, <2>2, <2>4 DEF View!OthersJudgeEpisode
    <3> QED BY <2>1, <3>1 DEF View!Next, View!Others, View!VerdictsOn, VerdictsOn
  <2> QED BY <2>3, <2>4
<1> QED BY <1>5, <1>6

\* The reader's listing is a listing of the view.
LEMMA ListView ==
  ASSUME TypeInv, NEW c \in Calls, List(c)
  PROVE  [View!Next]_(View!vars)
<1> DEFINE view == [r \in RunIds |-> Seen(runs[r])]
           mine == [d \in Calls |-> Mine(call[d])]
           f == call[c].req
           in == {r \in Visible(call[c].who) : Passes(f, r, runs[r])}
<1>1. call[c].pc = "listing" /\ UNCHANGED <<runs, episodes>>
  BY DEF List
<1>2. PICK shown \in SUBSET in :
        /\ IsNewestFirst(runs, in, f.limit, shown)
        /\ call' = [call EXCEPT ![c].pc = "done", ![c].outcome = "ok", ![c].shown = shown]
  BY DEF List
<1> DEFINE now == [call[c] EXCEPT !.pc = "done", !.outcome = "ok", !.shown = shown]
<1>3. call' = [call EXCEPT ![c] = now] /\ now.who = call[c].who /\ now.pc # "idle"
  BY <1>1, <1>2 DEF TypeInv, TypeOK, CallRecord
<1>4. CASE call[c].who = Reader
  <2> DEFINE seen == {r \in RunIds : view[r] # None /\ View!Passes(f, r, view[r])}
  <2>1. mine[c] = call[c] /\ mine' = [mine EXCEPT ![c] = now]
    BY <1>1, <1>3, <1>4, CallStepView
  <2>2. \A r \in RunIds : /\ view[r] # None <=> r \in Visible(Reader)
                          /\ view[r] # None => view[r] = runs[r]
    BY DEF Seen, Visible
  <2>3. \A r \in RunIds : \A row : View!Passes(f, r, row) <=> Passes(f, r, row)
    BY DEF View!Passes, Passes
  <2>4. Visible(Reader) \subseteq RunIds
    BY DEF Visible
  <2>5. in = seen
    BY <1>4, <2>2, <2>3, <2>4
  <2>6. View!IsNewestFirst(view, seen, f.limit, shown)
    <3>1. \A r \in in : r \in RunIds /\ view[r] = runs[r]
      BY <1>4, <2>2, <2>4
    <3>2. ASSUME NEW limit, NEW ids, NEW table, IsNewestFirst(runs, ids, limit, shown),
                 \A r \in ids : table[r] = runs[r], shown \subseteq ids
          PROVE  View!IsNewestFirst(table, ids, limit, shown)
      <4>1. \A set : View!Cardinality(set) = Cardinality(set)
        BY DEF View!Cardinality, Cardinality
      <4> QED BY <3>2, <4>1 DEF View!IsNewestFirst, IsNewestFirst
    <3>3. View!IsNewestFirst(view, in, f.limit, shown)
      <4> HIDE DEF view, in
      <4> QED BY <1>2, <3>1, <3>2
    <3> QED BY <2>5, <3>3
  <2>7. mine' = [mine EXCEPT ![c].pc = "done", ![c].outcome = "ok", ![c].shown = shown]
    BY <2>1
  <2>8. View!List(c)
    <3>1. shown \in SUBSET seen
      BY <1>2, <2>5
    <3>2. mine[c].pc = "listing" /\ mine[c].req = f
      BY <1>1, <2>1
    <3>3. UNCHANGED <<view, episodes>>
      BY <1>1
    <3>4. \E some \in SUBSET {r \in RunIds : view[r] # None /\ View!Passes(mine[c].req, r, view[r])} :
            /\ View!IsNewestFirst(view, {r \in RunIds : view[r] # None /\ View!Passes(mine[c].req, r, view[r])},
                                  mine[c].req.limit, some)
            /\ mine' = [mine EXCEPT ![c].pc = "done", ![c].outcome = "ok", ![c].shown = some]
      <4>1. seen = {r \in RunIds : view[r] # None /\ View!Passes(mine[c].req, r, view[r])}
        BY <3>2
      <4> HIDE DEF view, mine, seen, f, in, now
      <4> QED BY <2>6, <2>7, <3>1, <3>2, <4>1
    <3> QED BY <3>2, <3>3, <3>4, Zenon DEF View!List, View!Stage
  <2> QED BY <2>8 DEF View!Next
<1>5. CASE call[c].who # Reader
  BY <1>1, <1>3, <1>5, CallStepView
<1> QED BY <1>4, <1>5

\* A failure of the reader's call is one of the view's.
LEMMA FailView ==
  ASSUME TypeInv, NEW c \in Calls, Fail(c)
  PROVE  [View!Next]_(View!vars)
<1> DEFINE mine == [d \in Calls |-> Mine(call[d])]
           now == [call[c] EXCEPT !.pc = "done", !.outcome = "error"]
<1>1. call[c].pc \in {"resolving", "writing", "listing"} /\ UNCHANGED <<runs, episodes>>
  BY DEF Fail
<1>2. call' = [call EXCEPT ![c] = now] /\ now.who = call[c].who /\ now.pc # "idle"
  BY <1>1 DEF Fail, Answered, TypeInv, TypeOK, CallRecord
<1>3. CASE call[c].who = Reader
  <2>1. mine[c] = call[c] /\ mine' = [mine EXCEPT ![c] = now]
    BY <1>1, <1>2, <1>3, CallStepView
  <2>2. mine' = [mine EXCEPT ![c].pc = "done", ![c].outcome = "error"]
    BY <2>1
  <2>3. View!Fail(c)
    BY <1>1, <2>1, <2>2 DEF View!Fail, View!Stage
  <2> QED BY <2>3 DEF View!Next
<1>4. CASE call[c].who # Reader
  BY <1>1, <1>2, <1>4, CallStepView
<1> QED BY <1>3, <1>4

-----------------------------------------------------------------------------
\* The ledger implements the view of every caller: what list_runs and
\* set_verdict tell a caller is explained by the rows this caller may read,
\* whoever else calls, claims or judges meanwhile ("a verdict never confirms
\* that another person's run exists").
THEOREM LedgerShowsOnlyOwnAndMachines == Spec => SeesOnlyOwnAndMachines
<1>1. Init => View!Init
  BY DEF Init, View!Init, Seen, Mine, Idle, View!Idle
<1>2. LedgerInv /\ [Next]_vars => [View!Next]_(View!vars)
  <2> SUFFICES ASSUME LedgerInv, [Next]_vars PROVE [View!Next]_(View!vars)
    OBVIOUS
  <2>1. TypeInv
    BY DEF LedgerInv
  <2>2. CASE UNCHANGED vars
    BY <2>2 DEF vars, View!vars
  <2>3. CASE Platform
    BY <2>1, <2>3, ClaimRunView, OpenEpisodeView DEF Platform
  <2>4. ASSUME NEW c \in Calls, Ask(c) \/ Proceed(c) PROVE [View!Next]_(View!vars)
    BY <2>1, <2>4, AskView, ResolveView, RecordView, ListView, FailView DEF Proceed
  <2> QED BY <2>2, <2>3, <2>4 DEF Next
<1> QED BY <1>1, <1>2, LedgerInvariant, PTL DEF Spec, View!Spec, SeesOnlyOwnAndMachines
=============================================================================
