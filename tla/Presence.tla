------------------------------ MODULE Presence ------------------------------
(***************************************************************************)
(* query_presence folds the changes of each person's presence datapoint    *)
(* into spans that cover the window asked for, and the spans into those in *)
(* which nobody was at home.  The state is the table of changes and the    *)
(* last answer; a query is a single statement and the folding of its rows. *)
(*                                                                         *)
(* The rows of a person are kept in the order the statement returns them.  *)
(* No key keeps two of them from having one time; those come in any order. *)
(***************************************************************************)
EXTENDS Orders, FiniteSetsExt

CONSTANTS
  People,    \* the names with a presence datapoint in the catalog
  Horizon,   \* bound: rows are of moments 0..Horizon, windows end by Horizon + 1
  LookBack,  \* _LOOKBACK
  MaxWindow, \* _MAX_WINDOW
  MaxPoints, \* bound: rows of one person
  NoAnswer   \* before a query, and for a refusal

ASSUME PresenceAssumption ==
  IsFiniteSet(People) /\ {Horizon, LookBack, MaxWindow, MaxPoints} \subseteq Nat

VARIABLES
  table,    \* the rows of a person's datapoint: sequences of [time, state]
  presence  \* the answer: [from, to, persons, empty, silent], or NoAnswer

presenceVars == <<table, presence>>

Span(start, end, state) == [start |-> start, end |-> end, state |-> state]

PresenceInit ==
  /\ table = [p \in People |-> <<>>]
  /\ presence = NoAnswer

\* A datapoint is written when it changes, and now and then again unchanged.
Record(person, time, state) ==
  /\ Len(table[person]) < MaxPoints
  /\ \A i \in DOMAIN table[person] : table[person][i].time <= time
  /\ table' = [table EXCEPT ![person] = Append(@, [time |-> time, state |-> state])]
  /\ presence' = NoAnswer

-----------------------------------------------------------------------------
\* The places of a person's rows that the statement finds: the last of the look back,
\* and those of the window.
Opening(rows, from) ==
  LET before == {i \in DOMAIN rows : rows[i].time + LookBack >= from /\ rows[i].time < from}
  IN IF before = {} THEN {} ELSE {Max(before)}

Inside(rows, from, to) == {i \in DOMAIN rows : rows[i].time \in from..(to - 1)}

\* They lie together: the rows are in the order of time.
RowsAt(rows, places) == IF places = {} THEN <<>> ELSE SubSeq(rows, Min(places), Max(places))

\* Mutant of Points: no look back.
PointsInside(rows, from, to) == RowsAt(rows, Inside(rows, from, to))

Points(rows, from, to) == RowsAt(rows, Opening(rows, from) \cup Inside(rows, from, to))

\* One change: at or before the start it is the state the window opens with, and
\* a state that is written again changes nothing.
Fold(fold, point, from) ==
  IF point.time <= from              THEN [fold EXCEPT !.current = point.state]
  ELSE IF point.state = fold.current THEN fold
  ELSE [spans |-> Append(fold.spans, Span(fold.since, point.time, fold.current)),
        since |-> point.time, current |-> point.state]

\* What has become of the first n changes.
Folded(points, from) ==
  LET folded[n \in 0..Len(points)] ==
        IF n = 0 THEN [spans |-> <<>>, since |-> from, current |-> "unknown"]
                 ELSE Fold(folded[n - 1], points[n], from)
  IN folded

\* _spans
Spans(points, from, to) ==
  LET whole == Folded(points, from)[Len(points)]
  IN Append(whole.spans, Span(whole.since, to, whole.current))

\* _state_at
StateAt(spans, moment) ==
  LET i == CHOOSE i \in DOMAIN spans : spans[i].start <= moment /\ moment < spans[i].end
  IN spans[i].state

\* Mutant of AllAway: an unknown person is taken to be out.
NobodyHome(spansOf, moment) == \A p \in DOMAIN spansOf : StateAt(spansOf[p], moment) # "home"

AllAway(spansOf, moment) == \A p \in DOMAIN spansOf : StateAt(spansOf[p], moment) = "away"

\* An empty stretch that begins where the last one ends continues it.
Extend(empty, begin, finish) ==
  IF empty # <<>> /\ empty[Len(empty)].end = begin
  THEN [empty EXCEPT ![Len(empty)].end = finish]
  ELSE Append(empty, Span(begin, finish, "away"))

Starts(spans) == {spans[i].start : i \in DOMAIN spans}

\* The empty stretches up to the n-th cut, between the cuts at which everybody is away.
Emptied(spansOf, cuts, to) ==
  LET finish(n) == IF n < Len(cuts) THEN cuts[n + 1] ELSE to
      emptied[n \in 0..Len(cuts)] ==
        IF n = 0 THEN <<>>
        ELSE IF AllAway(spansOf, cuts[n]) THEN Extend(emptied[n - 1], cuts[n], finish(n))
        ELSE emptied[n - 1]
  IN emptied

\* _house_empty
HouseEmpty(spansOf, to) ==
  LET cuts == Ascending(UNION {Starts(spansOf[p]) : p \in DOMAIN spansOf})
  IN Emptied(spansOf, cuts, to)[Len(cuts)]

\* The window's checks, the statement and the folding of its rows.
Query(from, to) ==
  /\ UNCHANGED table
  /\ IF from < to /\ to - from <= MaxWindow
     THEN LET points == [p \in People |-> Points(table[p], from, to)]
              listed == {p \in People : points[p] # <<>>}
              spansOf == [p \in listed |-> Spans(points[p], from, to)]
          IN presence' = [from |-> from, to |-> to, persons |-> spansOf,
                          empty |-> HouseEmpty(spansOf, to), silent |-> People \ listed]
     ELSE presence' = NoAnswer

PresenceNext ==
  \/ \E p \in People, t \in 0..Horizon, s \in {"home", "away"} : Record(p, t, s)
  \/ \E from, to \in 0..(Horizon + 1) : Query(from, to)

PresenceSpec == PresenceInit /\ [][PresenceNext]_presenceVars

-----------------------------------------------------------------------------
(* Properties *)

Window == presence.from..(presence.to - 1)

\* What the table tells of a person at a moment of the window, as the module's
\* docstring says it: the last change up to then, no older than the look back.
Truth(rows, from, moment) ==
  LET told == {i \in DOMAIN rows : rows[i].time <= moment /\ rows[i].time + LookBack >= from}
  IN IF told = {} THEN "unknown" ELSE rows[Max(told)].state

Known(person, moment) == Truth(table[person], presence.from, moment)

\* A person's spans cover the window without a gap or an overlap, each a change
\* from the one before, and say at every moment what the table tells; a person is
\* named as silent, and has no spans, only if it tells nothing of them at all.
SpansTellTheTable ==
  presence # NoAnswer =>
    /\ \A p \in DOMAIN presence.persons :
         LET spans == presence.persons[p] IN
           /\ spans[1].start = presence.from /\ spans[Len(spans)].end = presence.to
           /\ \A i \in DOMAIN spans : spans[i].start <= spans[i].end
           /\ \A i \in 1..(Len(spans) - 1) :
                spans[i].end = spans[i + 1].start /\ spans[i].state # spans[i + 1].state
    /\ \A p \in DOMAIN presence.persons, t \in Window :
         \E i \in DOMAIN presence.persons[p] :
           /\ presence.persons[p][i].start <= t /\ t < presence.persons[p][i].end
           /\ presence.persons[p][i].state = Known(p, t)
    /\ presence.silent = {p \in People : \A t \in Window : Known(p, t) = "unknown"}
    /\ DOMAIN presence.persons = People \ presence.silent

\* "The house is empty only while everyone is known to be away"
\* (test_presence.py): at every moment, told empty exactly if the table proves it
\* of every person listed, and never if nobody is.  A stretch is told as one, also
\* where two rows of one instant cut it.
EmptyIsProven ==
  presence # NoAnswer =>
    /\ \A t \in Window :
         (\E i \in DOMAIN presence.empty : presence.empty[i].start <= t /\ t < presence.empty[i].end)
           <=> /\ presence.silent # People
               /\ \A p \in People \ presence.silent : Known(p, t) = "away"
    /\ \A i \in 1..(Len(presence.empty) - 1) : presence.empty[i].end < presence.empty[i + 1].start
=============================================================================
