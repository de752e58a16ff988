------------------------ MODULE EpisodeBundleProofs ------------------------
(***************************************************************************)
(* Theorems about get_episode, for every catalog, every limit and every    *)
(* length of an episode.  The bundle is read statement by statement from   *)
(* tables that move: the inductive invariant says, of each part read so    *)
(* far, how it stands to the row that was read first and to the tables of  *)
(* now, which only go on.  What a role is matters only where a status is   *)
(* no command.                                                             *)
(***************************************************************************)
EXTENDS EpisodeBundle, FiniteSetTheorems, TLAPS

\* How far the call has come.
HasSiblings == bundle.pc = "explanation" \/ Answered
HasChannel == bundle.pc = "siblings" \/ HasSiblings
HasObservations == bundle.pc = "channel" \/ HasChannel
HasEvents == bundle.pc = "observations" \/ HasObservations
HasRow == bundle.pc = "events" \/ HasEvents

Shape ==
  /\ bundle = [pc |-> bundle.pc, row |-> bundle.row, events |-> bundle.events,
               observations |-> bundle.observations, cut |-> bundle.cut,
               channel |-> bundle.channel, siblings |-> bundle.siblings,
               more |-> bundle.more, explanation |-> bundle.explanation,
               outcome |-> bundle.outcome]
  /\ bundle.pc \in {"row", "events", "observations", "channel", "siblings", "explanation", "done"}
  /\ bundle.pc # "done" => bundle.outcome = None
  /\ ~HasSiblings => bundle.siblings = {}
  /\ catalog \in Catalogs
  /\ explained \in Nat
  /\ since = [explained |-> since.explained, still |-> since.still]

\* What a row tells is in the events.
Evidence(row, es) ==
  /\ row.ended => "ended" \in Kinds(es)
  /\ \E e \in es :
       /\ e.kind = "appeared" /\ e.severity \in Nat
       /\ row.severity > e.severity => "escalated" \in Kinds(es)

\* The engine's row, events and observations agree.
Engine ==
  /\ episode = None => observed = {}
  /\ episode # None =>
       /\ episode \in Episodes /\ episode.seen # 0
       /\ observed = 1..episode.seen
       /\ Evidence(episode, events)

\* The row that was read is behind the engine's.
RowBehind ==
  HasRow =>
    /\ episode # None
    /\ bundle.row.seen \in Nat /\ bundle.row.seen <= episode.seen
    /\ bundle.row.severity \in Nat /\ bundle.row.severity <= episode.severity
    /\ bundle.row.ended => episode.ended
    /\ since.explained \in Nat /\ since.explained <= explained

EventsReachRow == HasEvents => Evidence(bundle.row, bundle.events)

ObservationsReachRow ==
  HasObservations =>
    /\ bundle.cut <=> 1 \notin bundle.observations
    /\ \A t, u \in bundle.observations : t..u \subseteq bundle.observations
    /\ \E t \in bundle.observations : t >= bundle.row.seen

ExplanationSinceBegun == Answered => bundle.explanation \in since.explained..explained

\* Without an import, channel, room and name are the catalog's.
RowOfCatalog ==
  since.still =>
    /\ HasRow =>
         /\ bundle.row.channel \in {None, Ref}
         /\ bundle.row.channel # None => catalog[Ref] # None
         /\ bundle.row.room = IF catalog[Ref] # None THEN catalog[Ref].room ELSE None
    /\ HasChannel =>
         bundle.channel = IF bundle.row.channel = None THEN None ELSE catalog[Ref].name

InRoom == {g \in Gas : catalog[g] # None /\ catalog[g].room = bundle.row.room}
OwnDevice(g) == bundle.channel # None /\ catalog[g].name.device = bundle.channel.device

SiblingsOfCatalog ==
  since.still /\ HasSiblings =>
    /\ bundle.siblings \subseteq InRoom \ {bundle.row.channel}
    /\ \A g \in bundle.siblings : RoleOf(catalog[g].name, {catalog[h].name : h \in InRoom}) # "command"
    /\ \A g \in InRoom \ {bundle.row.channel} :
         g \notin bundle.siblings /\ IsStatus(catalog[g].name) /\ OwnDevice(g) =>
           \A h \in bundle.siblings : OwnDevice(h)

BundleInv ==
  /\ Shape /\ Engine /\ RowBehind /\ EventsReachRow /\ ObservationsReachRow
  /\ ExplanationSinceBegun /\ RowOfCatalog /\ SiblingsOfCatalog

-----------------------------------------------------------------------------
(* Lemmas about roles and about the newest observations *)

\* A status is never a command.
LEMMA StatusIsNoCommand ==
  ASSUME NEW name, NEW names, IsStatus(name)
  PROVE  RoleOf(name, names) # "command"
<1>1. RoleOf(name, names) = "status" \/ RoleOf(name, names) = "reading"
  BY DEF RoleOf
<1> QED BY <1>1

\* The newest of the ticks up to n, as many as the limit: all of them or those behind a
\* first one that was dropped, without a hole, and the last among them.
LEMMA NewestHaveNoHole ==
  ASSUME NEW n \in Nat \ {0}, NEW newest \in SUBSET (1..n),
         \A t \in newest, u \in (1..n) \ newest : u < t,
         Cardinality(newest) = IF n > ObservationLimit THEN ObservationLimit ELSE n
  PROVE  /\ n > ObservationLimit <=> 1 \notin newest
         /\ \A t, u \in newest : t..u \subseteq newest
         /\ n \in newest
<1>1. ObservationLimit \in Nat \ {0}
  BY BundleAssumption
<1>2. IsFiniteSet(1..n) /\ Cardinality(1..n) = n
  BY FS_Interval
<1>3. IsFiniteSet(newest) /\ (Cardinality(newest) = n => newest = 1..n)
  BY <1>2, FS_Subset
<1>4. newest # {}
  BY <1>1, FS_EmptySet
<1>5. n \in newest
  <2>1. PICK t \in newest : t \in 1..n
    BY <1>4
  <2>2. n \in 1..n /\ ~(n < t)
    BY <2>1
  <2> QED BY <2>1, <2>2
<1>6. \A t, u \in newest : t..u \subseteq newest
  <2> TAKE t, u \in newest
  <2>1. ASSUME NEW m \in t..u PROVE m \in newest
    <3>1. m \in 1..n /\ ~(m < t)
      OBVIOUS
    <3> QED BY <3>1
  <2> QED BY <2>1
<1>7. 1 \in newest => newest = 1..n
  BY <1>6, <1>5
<1>8. n > ObservationLimit <=> 1 \notin newest
  <2>1. newest = 1..n => 1 \in newest
    OBVIOUS
  <2>2. n > ObservationLimit => Cardinality(newest) # n
    BY <1>1
  <2> QED BY <1>1, <1>2, <1>3, <1>7, <2>1, <2>2
<1> QED BY <1>5, <1>6, <1>8

-----------------------------------------------------------------------------
(* Every step keeps the invariant *)

\* Before the call and the episode there is nothing to contradict.
LEMMA BundleInit == Init => BundleInv
<1> SUFFICES ASSUME Init PROVE BundleInv
  OBVIOUS
<1>1. ~Answered /\ ~HasRow /\ ~HasEvents /\ ~HasObservations /\ ~HasChannel /\ ~HasSiblings
  BY BundleAssumption
  DEF Init, Empty, Answered, HasRow, HasEvents, HasObservations, HasChannel, HasSiblings
<1>2. Shape
  BY DEF Init, Empty, Shape
<1>3. Engine
  BY Zenon DEF Init, Engine
<1> QED BY <1>1, <1>2, <1>3
        DEF BundleInv, RowBehind, EventsReachRow, ObservationsReachRow, ExplanationSinceBegun,
            RowOfCatalog, SiblingsOfCatalog

\* The engine and the trigger service only go on, and the call stays where it was.
LEMMA BundlePlatform ==
  ASSUME BundleInv, UNCHANGED <<catalog, bundle, since>>, Engine',
         explained' \in Nat, explained <= explained',
         episode # None => /\ episode' # None
                           /\ episode.seen <= episode'.seen /\ episode.severity <= episode'.severity
                           /\ episode.ended => episode'.ended
  PROVE  BundleInv'
<1>1. /\ Answered' = Answered /\ HasRow' = HasRow /\ HasEvents' = HasEvents
      /\ HasObservations' = HasObservations /\ HasChannel' = HasChannel
      /\ HasSiblings' = HasSiblings /\ InRoom' = InRoom
  BY DEF Answered, HasRow, HasEvents, HasObservations, HasChannel, HasSiblings, InRoom
<1>2. Shape'
  BY <1>1 DEF BundleInv, Shape
<1>3. RowBehind'
  <2>1. SUFFICES ASSUME HasRow
                 PROVE  /\ episode' # None
                        /\ bundle.row.seen \in Nat /\ bundle.row.seen <= episode'.seen
                        /\ bundle.row.severity \in Nat /\ bundle.row.severity <= episode'.severity
                        /\ bundle.row.ended => episode'.ended
                        /\ since.explained \in Nat /\ since.explained <= explained'
    BY <1>1 DEF RowBehind
  <2>2. /\ episode # None
        /\ bundle.row.seen \in Nat /\ bundle.row.seen <= episode.seen
        /\ bundle.row.severity \in Nat /\ bundle.row.severity <= episode.severity
        /\ bundle.row.ended => episode.ended
        /\ since.explained \in Nat /\ since.explained <= explained
    BY <2>1 DEF BundleInv, RowBehind
  <2>3. /\ episode.seen \in Nat /\ episode'.seen \in Nat
        /\ episode.severity \in Nat /\ episode'.severity \in Nat
    BY <2>2 DEF BundleInv, Engine, Episodes, Severities
  <2>4. explained \in Nat
    BY DEF BundleInv, Shape
  <2>5. \A a, b, c \in Nat : a <= b /\ b <= c => a <= c
    OBVIOUS
  <2>6. bundle.row.ended => episode'.ended
    BY <2>2, Zenon
  <2> QED BY <2>2, <2>3, <2>4, <2>5, <2>6
<1>4. EventsReachRow' /\ ObservationsReachRow'
  BY <1>1 DEF BundleInv, EventsReachRow, ObservationsReachRow, Evidence, Kinds
<1>5. ExplanationSinceBegun'
  <2>1. Answered => since.explained \in Nat /\ bundle.explanation \in since.explained..explained
    BY DEF BundleInv, ExplanationSinceBegun, RowBehind, HasRow, HasEvents, HasObservations,
           HasChannel, HasSiblings
  <2>2. explained \in Nat
    BY DEF BundleInv, Shape
  <2> QED BY <1>1, <2>1, <2>2 DEF ExplanationSinceBegun
<1>6. RowOfCatalog'
  BY <1>1 DEF BundleInv, RowOfCatalog
<1>7. SiblingsOfCatalog'
  BY <1>1 DEF BundleInv, SiblingsOfCatalog, OwnDevice
<1> QED BY <1>2, <1>3, <1>4, <1>5, <1>6, <1>7 DEF BundleInv

\* The catalog may be imported again: nothing is said of what was read of it any more.
LEMMA BundleImport == ASSUME BundleInv, Import PROVE BundleInv'
<1>1. /\ UNCHANGED <<episode, events, observed, explained, bundle>>
      /\ catalog' \in Catalogs /\ since' = [since EXCEPT !.still = FALSE]
  BY DEF Import
<1>2. since'.explained = since.explained /\ since'.still = FALSE
      /\ since' = [explained |-> since'.explained, still |-> since'.still]
  BY <1>1 DEF BundleInv, Shape
<1>3. /\ Answered' = Answered /\ HasRow' = HasRow /\ HasEvents' = HasEvents
      /\ HasObservations' = HasObservations /\ HasChannel' = HasChannel
      /\ HasSiblings' = HasSiblings
  BY <1>1 DEF Answered, HasRow, HasEvents, HasObservations, HasChannel, HasSiblings
<1>4. Shape' /\ Engine'
  BY <1>1, <1>2, <1>3 DEF BundleInv, Shape, Engine, Evidence, Kinds
<1>5. RowBehind' /\ EventsReachRow' /\ ObservationsReachRow' /\ ExplanationSinceBegun'
  BY <1>1, <1>2, <1>3
  DEF BundleInv, RowBehind, EventsReachRow, ObservationsReachRow, ExplanationSinceBegun,
      Evidence, Kinds
<1>6. RowOfCatalog' /\ SiblingsOfCatalog'
  BY <1>2 DEF RowOfCatalog, SiblingsOfCatalog
<1> QED BY <1>4, <1>5, <1>6 DEF BundleInv

\* The episode appears, with its row and its event.
LEMMA BundleAppear ==
  ASSUME BundleInv, NEW kind \in {"channel", "room"}, NEW severity \in Severities,
         Appear(kind, severity)
  PROVE  BundleInv'
<1> DEFINE first == [kind |-> "appeared", time |-> 1, severity |-> severity]
<1>1. /\ UNCHANGED <<catalog, bundle, since, explained>> /\ episode = None
      /\ episode' = [kind |-> kind, seen |-> 1, severity |-> severity, ended |-> FALSE]
      /\ events' = {first} /\ observed' = {1}
  BY DEF Appear
<1>2. severity \in Nat
  BY DEF Severities
<1>3. /\ episode'.seen = 1 /\ episode'.severity = severity /\ episode'.ended = FALSE
      /\ episode' \in Episodes
  BY <1>1 DEF Episodes
<1>4. first \in events' /\ first.kind = "appeared" /\ first.severity = severity
  BY <1>1
<1> HIDE DEF first
<1>5. Evidence(episode, events)'
  BY <1>2, <1>3, <1>4 DEF Evidence, Kinds
<1>6. observed' = 1..1
  BY <1>1
<1>7. Engine'
  BY <1>3, <1>5, <1>6, BundleAssumption DEF Engine
<1>8. explained \in Nat
  BY DEF BundleInv, Shape
<1> QED BY <1>1, <1>7, <1>8, BundlePlatform

\* The engine goes one tick on and may escalate.
LEMMA BundleEvaluate ==
  ASSUME BundleInv, NEW severity \in Severities, Evaluate(severity)
  PROVE  BundleInv'
<1> DEFINE now == episode.seen + 1
           rise == [kind |-> "escalated", time |-> now, severity |-> severity]
<1>1. /\ UNCHANGED <<catalog, bundle, since, explained>> /\ episode # None
      /\ severity >= episode.severity
      /\ episode' = [episode EXCEPT !.seen = now, !.severity = severity]
      /\ observed' = observed \cup {now}
      /\ events' = IF severity > episode.severity /\ \A e \in events : e.kind # "escalated"
                   THEN events \cup {rise} ELSE events
  BY DEF Evaluate
<1>2. /\ episode \in Episodes /\ episode.seen # 0 /\ observed = 1..episode.seen
      /\ Evidence(episode, events)
  BY <1>1 DEF BundleInv, Engine
<1>3. episode.seen \in Nat /\ episode.severity \in Nat /\ severity \in Nat /\ now \in Nat
  BY <1>2 DEF Episodes, Severities
<1>4. /\ episode' \in Episodes /\ episode'.seen = now /\ episode'.severity = severity
      /\ episode'.ended = episode.ended
  BY <1>1, <1>2, <1>3 DEF Episodes
<1>5. observed' = 1..now
  <2>1. \A n \in Nat : (1..n) \cup {n + 1} = 1..(n + 1)
    OBVIOUS
  <2> QED BY <1>1, <1>2, <1>3, <2>1
<1> HIDE DEF now
<1>6. Kinds(events) \subseteq Kinds(events') /\ events \subseteq events'
  BY <1>1 DEF Kinds
<1>7. severity > episode.severity => "escalated" \in Kinds(events')
  <2>1. rise.kind = "escalated"
    OBVIOUS
  <2> HIDE DEF rise
  <2>2. CASE \E e \in events : e.kind = "escalated"
    BY <1>6, <2>2 DEF Kinds
  <2>3. CASE \A e \in events : e.kind # "escalated"
    BY <1>1, <2>1, <2>3 DEF Kinds
  <2> QED BY <2>2, <2>3
<1> HIDE DEF rise
<1>8. PICK e \in events : /\ e.kind = "appeared" /\ e.severity \in Nat
                          /\ episode.severity > e.severity => "escalated" \in Kinds(events)
  BY <1>2 DEF Evidence
<1>9. severity > e.severity => "escalated" \in Kinds(events')
  <2>1. severity > e.severity => severity > episode.severity \/ episode.severity > e.severity
    BY <1>3, <1>8
  <2> QED BY <1>6, <1>7, <1>8, <2>1
<1>10. episode.ended => "ended" \in Kinds(events')
  BY <1>2, <1>6 DEF Evidence
<1>11. Evidence(episode, events)'
  <2>1. \E d \in events' : /\ d.kind = "appeared" /\ d.severity \in Nat
                           /\ episode'.severity > d.severity => "escalated" \in Kinds(events')
    BY <1>4, <1>6, <1>8, <1>9
  <2>2. Kinds(events)' = Kinds(events')
    BY DEF Kinds
  <2>3. episode'.ended => "ended" \in Kinds(events')
    BY <1>4, <1>10, Zenon
  <2> QED BY <2>1, <2>2, <2>3 DEF Evidence
<1>12. Engine'
  <2>1. episode' # None /\ episode'.seen # 0
    BY <1>3, <1>4, BundleAssumption DEF now
  <2> QED BY <1>4, <1>5, <1>11, <2>1 DEF Engine
<1>13. explained \in Nat
  BY DEF BundleInv, Shape
<1>14. /\ episode' # None /\ episode.seen <= episode'.seen
       /\ episode.severity <= episode'.severity /\ (episode.ended => episode'.ended)
  <2>1. episode.seen <= now
    BY <1>3 DEF now
  <2>2. episode.ended => episode'.ended
    BY <1>4, Zenon
  <2> QED BY <1>1, <1>3, <1>4, <2>1, <2>2, BundleAssumption
<1> QED BY <1>1, <1>12, <1>13, <1>14, BundlePlatform

\* The engine ends the episode, with its event.
LEMMA BundleEnd == ASSUME BundleInv, End PROVE BundleInv'
<1> DEFINE last == [kind |-> "ended", time |-> episode.seen, severity |-> 0]
<1>1. /\ UNCHANGED <<catalog, bundle, since, explained, observed>> /\ episode # None
      /\ episode' = [episode EXCEPT !.ended = TRUE] /\ events' = events \cup {last}
  BY DEF End
<1>2. /\ episode \in Episodes /\ episode.seen # 0 /\ observed = 1..episode.seen
      /\ Evidence(episode, events)
  BY <1>1 DEF BundleInv, Engine
<1>3. /\ episode' \in Episodes /\ episode'.seen = episode.seen
      /\ episode'.severity = episode.severity /\ episode'.ended = TRUE
      /\ episode.seen \in Nat /\ episode.severity \in Nat
  <2>1. /\ episode.kind \in {"channel", "room"} /\ episode.seen \in Nat
        /\ episode.severity \in Severities
        /\ episode' = [kind |-> episode.kind, seen |-> episode.seen,
                       severity |-> episode.severity, ended |-> TRUE]
    BY <1>1, <1>2 DEF Episodes
  <2> QED BY <2>1 DEF Episodes, Severities
<1>4. Kinds(events) \subseteq Kinds(events') /\ events \subseteq events' /\ "ended" \in Kinds(events')
  <2>1. last.kind = "ended"
    OBVIOUS
  <2> HIDE DEF last
  <2> QED BY <1>1, <2>1 DEF Kinds
<1> HIDE DEF last
<1>5. Evidence(episode, events)'
  <2>1. PICK e \in events : /\ e.kind = "appeared" /\ e.severity \in Nat
                            /\ episode.severity > e.severity => "escalated" \in Kinds(events)
    BY <1>2 DEF Evidence
  <2>2. Kinds(events)' = Kinds(events')
    BY DEF Kinds
  <2> QED BY <1>3, <1>4, <2>1, <2>2 DEF Evidence
<1>6. Engine'
  BY <1>1, <1>2, <1>3, <1>5, BundleAssumption DEF Engine
<1>7. explained \in Nat
  BY DEF BundleInv, Shape
<1>8. episode.seen <= episode'.seen /\ episode.severity <= episode'.severity /\ explained <= explained'
  BY <1>1, <1>3, <1>7
<1>9. episode' # None
  BY <1>3, BundleAssumption
<1>10. episode.ended => episode'.ended
  BY <1>3
<1> QED BY <1>1, <1>6, <1>7, <1>8, <1>9, <1>10, BundlePlatform

-----------------------------------------------------------------------------
(* The statements of a call *)

\* The call's own state has all its fields after a step.
Fields(b) ==
  b = [pc |-> b.pc, row |-> b.row, events |-> b.events, observations |-> b.observations,
       cut |-> b.cut, channel |-> b.channel, siblings |-> b.siblings, more |-> b.more,
       explanation |-> b.explanation, outcome |-> b.outcome]

\* Before the end there is no answer.
LEMMA NoAnswerYet ==
  ASSUME Shape, bundle.pc # "done"
  PROVE  bundle.outcome = None /\ ~Answered
BY BundleAssumption DEF Shape, Answered

\* What a statement of the call leaves alone.
LEMMA PlatformStays ==
  ASSUME BundleInv, UNCHANGED platform
  PROVE  /\ UNCHANGED <<episode, events, observed, catalog, explained>>
         /\ Engine' /\ explained \in Nat /\ catalog \in Catalogs
<1>1. UNCHANGED <<episode, events, observed, catalog, explained>>
  BY DEF platform
<1>2. Engine'
  BY <1>1 DEF BundleInv, Engine, Evidence, Kinds
<1> QED BY <1>1, <1>2 DEF BundleInv, Shape

\* A call that is refused or fails tells of nothing.
LEMMA BundleNoAnswer ==
  ASSUME BundleInv, UNCHANGED platform, Fields(bundle'), bundle'.pc = "done",
         bundle'.outcome \in {"refused", "error"}, bundle'.siblings = {},
         since' = [explained |-> since'.explained, still |-> since'.still]
  PROVE  BundleInv'
<1>1. UNCHANGED <<episode, events, observed, catalog, explained>> /\ Engine'
      /\ explained \in Nat /\ catalog \in Catalogs
  BY PlatformStays
<1>2. /\ ~Answered' /\ ~HasRow' /\ ~HasEvents' /\ ~HasObservations' /\ ~HasChannel'
      /\ ~HasSiblings'
  BY DEF Answered, HasRow, HasEvents, HasObservations, HasChannel, HasSiblings
<1>3. Shape'
  BY <1>1, <1>2 DEF Shape, Fields
<1> QED BY <1>1, <1>2, <1>3
        DEF BundleInv, RowBehind, EventsReachRow, ObservationsReachRow, ExplanationSinceBegun,
            RowOfCatalog, SiblingsOfCatalog

\* The row is read: it is the engine's of now.
LEMMA BundleReadRow == ASSUME BundleInv, ReadRow PROVE BundleInv'
<1>1. bundle.pc = "row" /\ since' = [explained |-> explained, still |-> TRUE]
  BY DEF ReadRow
<1>2. bundle.outcome = None /\ ~Answered /\ ~HasSiblings /\ bundle.siblings = {}
  BY <1>1, NoAnswerYet DEF BundleInv, Shape, HasSiblings
<1>3. Fields(bundle)
  BY DEF BundleInv, Shape, Fields
<1>4. since'.explained = explained /\ since'.still = TRUE
      /\ since' = [explained |-> since'.explained, still |-> since'.still]
  BY <1>1
<1>5. CASE episode = None
  <2>1. /\ UNCHANGED platform
        /\ bundle' = [[bundle EXCEPT !.outcome = "refused"] EXCEPT !.pc = "done"]
    BY <1>5 DEF ReadRow, Go
  <2>2. /\ Fields(bundle') /\ bundle'.pc = "done" /\ bundle'.outcome = "refused"
        /\ bundle'.siblings = {}
    BY <1>2, <1>3, <2>1 DEF Fields
  <2> QED BY <1>4, <2>1, <2>2, BundleNoAnswer
<1>6. CASE episode # None
  <2>1. /\ UNCHANGED platform
        /\ bundle' = [[bundle EXCEPT !.row = Row] EXCEPT !.pc = "events"]
    BY <1>6 DEF ReadRow, Go
  <2>2. /\ Fields(bundle') /\ bundle'.pc = "events" /\ bundle'.outcome = None
        /\ bundle'.siblings = {} /\ bundle'.row = Row
    BY <1>2, <1>3, <2>1 DEF Fields
  <2>3. UNCHANGED <<episode, events, observed, catalog, explained>> /\ Engine'
        /\ explained \in Nat /\ catalog \in Catalogs
    BY <2>1, PlatformStays
  <2>4. /\ ~Answered' /\ HasRow' /\ ~HasEvents' /\ ~HasObservations' /\ ~HasChannel'
        /\ ~HasSiblings'
    BY <2>2, BundleAssumption
    DEF Answered, HasRow, HasEvents, HasObservations, HasChannel, HasSiblings
  <2>5. Shape'
    BY <1>4, <2>2, <2>3, <2>4 DEF Shape, Fields
  <2>6. /\ Row.seen = episode.seen /\ Row.severity = episode.severity /\ Row.ended = episode.ended
        /\ Row.channel = IF episode.kind = "channel" /\ catalog[Ref] # None THEN Ref ELSE None
        /\ Row.room = IF catalog[Ref] # None THEN catalog[Ref].room ELSE None
    BY DEF Row
  <2>7. episode.seen \in Nat /\ episode.severity \in Nat
    BY <1>6 DEF BundleInv, Engine, Episodes, Severities
  <2>8. RowBehind'
    <3>1. Row.ended => episode.ended
      BY <2>6, Zenon
    <3> QED BY <1>4, <1>6, <2>2, <2>3, <2>6, <2>7, <3>1 DEF RowBehind
  <2>9. RowOfCatalog'
    BY <1>4, <2>2, <2>3, <2>4, <2>6 DEF RowOfCatalog
  <2> QED BY <2>3, <2>4, <2>5, <2>8, <2>9
          DEF BundleInv, EventsReachRow, ObservationsReachRow, ExplanationSinceBegun,
              SiblingsOfCatalog
<1> QED BY <1>5, <1>6

\* The events are read, the row being behind the engine.
LEMMA BundleReadEvents == ASSUME BundleInv, ReadEvents PROVE BundleInv'
<1>1. /\ bundle.pc = "events" /\ UNCHANGED platform /\ since' = since
      /\ bundle' = [[bundle EXCEPT !.events = events] EXCEPT !.pc = "observations"]
  BY DEF ReadEvents, Go
<1>2. bundle.outcome = None /\ ~Answered /\ ~HasSiblings /\ bundle.siblings = {} /\ HasRow
  BY <1>1, NoAnswerYet DEF BundleInv, Shape, HasSiblings, HasRow
<1>3. /\ Fields(bundle') /\ bundle'.pc = "observations" /\ bundle'.outcome = None
      /\ bundle'.siblings = {} /\ bundle'.row = bundle.row /\ bundle'.events = events
  BY <1>1, <1>2 DEF BundleInv, Shape, Fields
<1>4. UNCHANGED <<episode, events, observed, catalog, explained>> /\ Engine'
      /\ explained \in Nat /\ catalog \in Catalogs
  BY <1>1, PlatformStays
<1>5. /\ ~Answered' /\ HasRow' /\ HasEvents' /\ ~HasObservations' /\ ~HasChannel'
      /\ ~HasSiblings'
  BY <1>3, BundleAssumption
  DEF Answered, HasRow, HasEvents, HasObservations, HasChannel, HasSiblings
<1>6. Shape'
  BY <1>1, <1>3, <1>4, <1>5 DEF BundleInv, Shape, Fields
<1>7. RowBehind' /\ RowOfCatalog'
  BY <1>1, <1>2, <1>3, <1>4, <1>5 DEF BundleInv, RowBehind, RowOfCatalog
<1>8. EventsReachRow'
  <2>1. /\ bundle.row.severity \in Nat /\ bundle.row.severity <= episode.severity
        /\ bundle.row.ended => episode.ended
        /\ episode.severity \in Nat /\ Evidence(episode, events)
    BY <1>2 DEF BundleInv, RowBehind, Engine, Episodes, Severities
  <2>2. PICK e \in events : /\ e.kind = "appeared" /\ e.severity \in Nat
                            /\ episode.severity > e.severity => "escalated" \in Kinds(events)
    BY <2>1 DEF Evidence
  <2>3. bundle.row.severity > e.severity => episode.severity > e.severity
    BY <2>1, <2>2
  <2>4. bundle.row.ended => "ended" \in Kinds(events)
    BY <2>1, Zenon DEF Evidence
  <2>5. Evidence(bundle.row, events)
    BY <2>2, <2>3, <2>4 DEF Evidence
  <2>6. Evidence(bundle.row, bundle.events)' = Evidence(bundle.row, events)
    BY <1>3 DEF Evidence, Kinds
  <2> QED BY <2>5, <2>6 DEF EventsReachRow
<1> QED BY <1>4, <1>5, <1>6, <1>7, <1>8
        DEF BundleInv, ObservationsReachRow, ExplanationSinceBegun, SiblingsOfCatalog

\* The newest observations are read, the row being behind the engine.
LEMMA BundleReadObservations == ASSUME BundleInv, ReadObservations PROVE BundleInv'
<1>1. PICK newest \in SUBSET observed :
        /\ \A t \in newest, u \in observed \ newest : u < t
        /\ Cardinality(newest) =
             IF Cardinality(observed) > ObservationLimit THEN ObservationLimit
                                                         ELSE Cardinality(observed)
        /\ bundle' = [[bundle EXCEPT !.observations = newest,
                                     !.cut = Cardinality(observed) > ObservationLimit]
                        EXCEPT !.pc = "channel"]
        /\ bundle.pc = "observations" /\ UNCHANGED platform /\ since' = since
  BY DEF ReadObservations, Go
<1> DEFINE cut == Cardinality(observed) > ObservationLimit
<1>2. /\ bundle.outcome = None /\ ~Answered /\ ~HasSiblings /\ bundle.siblings = {}
      /\ HasRow /\ HasEvents
  BY <1>1, NoAnswerYet DEF BundleInv, Shape, HasSiblings, HasRow, HasEvents
<1>3. episode # None /\ bundle.row.seen \in Nat /\ bundle.row.seen <= episode.seen
  BY <1>2 DEF BundleInv, RowBehind
<1>4. episode.seen \in Nat \ {0} /\ observed = 1..episode.seen
  BY <1>3 DEF BundleInv, Engine, Episodes
<1>5. Cardinality(observed) = episode.seen
  BY <1>4, FS_Interval
<1>6. /\ cut <=> 1 \notin newest
      /\ \A t, u \in newest : t..u \subseteq newest
      /\ episode.seen \in newest
  BY <1>1, <1>4, <1>5, NewestHaveNoHole
<1> HIDE DEF cut
<1>7. /\ Fields(bundle') /\ bundle'.pc = "channel" /\ bundle'.outcome = None
      /\ bundle'.siblings = {} /\ bundle'.row = bundle.row /\ bundle'.events = bundle.events
      /\ bundle'.observations = newest /\ bundle'.cut = cut
  BY <1>1, <1>2 DEF BundleInv, Shape, Fields, cut
<1>8. UNCHANGED <<episode, events, observed, catalog, explained>> /\ Engine'
      /\ explained \in Nat /\ catalog \in Catalogs
  BY <1>1, PlatformStays
<1>9. /\ ~Answered' /\ HasRow' /\ HasEvents' /\ HasObservations' /\ ~HasChannel'
      /\ ~HasSiblings'
  BY <1>7, BundleAssumption
  DEF Answered, HasRow, HasEvents, HasObservations, HasChannel, HasSiblings
<1>10. Shape'
  BY <1>1, <1>7, <1>8, <1>9 DEF BundleInv, Shape, Fields
<1>11. RowBehind' /\ RowOfCatalog' /\ EventsReachRow'
  BY <1>1, <1>2, <1>7, <1>8, <1>9
  DEF BundleInv, RowBehind, RowOfCatalog, EventsReachRow, Evidence, Kinds
<1>12. ObservationsReachRow'
  <2>1. \E t \in newest : t >= bundle.row.seen
    BY <1>3, <1>4, <1>6
  <2>2. bundle'.cut <=> 1 \notin newest
    BY <1>6, <1>7, Zenon
  <2> QED BY <1>6, <1>7, <2>1, <2>2 DEF ObservationsReachRow
<1> QED BY <1>8, <1>9, <1>10, <1>11, <1>12
        DEF BundleInv, ExplanationSinceBegun, SiblingsOfCatalog

\* The name of the row's channel is read.
LEMMA BundleReadChannel == ASSUME BundleInv, ReadChannel PROVE BundleInv'
<1> DEFINE channel == IF bundle.row.channel = None \/ catalog[bundle.row.channel] = None
                      THEN None ELSE catalog[bundle.row.channel].name
           pc == IF bundle.row.room = None THEN "explanation" ELSE "siblings"
<1>1. /\ bundle.pc = "channel" /\ UNCHANGED platform /\ since' = since
      /\ bundle' = [[bundle EXCEPT !.channel = channel] EXCEPT !.pc = pc]
  BY DEF ReadChannel, Go
<1> HIDE DEF channel
<1>2. pc \in {"explanation", "siblings"}
  OBVIOUS
<1> HIDE DEF pc
<1>3. /\ bundle.outcome = None /\ ~Answered /\ ~HasSiblings /\ bundle.siblings = {}
      /\ HasRow /\ HasEvents /\ HasObservations
  BY <1>1, NoAnswerYet DEF BundleInv, Shape, HasSiblings, HasRow, HasEvents, HasObservations
<1>4. /\ Fields(bundle') /\ bundle'.pc = pc /\ bundle'.outcome = None
      /\ bundle'.siblings = {} /\ bundle'.row = bundle.row /\ bundle'.events = bundle.events
      /\ bundle'.observations = bundle.observations /\ bundle'.cut = bundle.cut
      /\ bundle'.channel = channel
  BY <1>1, <1>3 DEF BundleInv, Shape, Fields
<1>5. UNCHANGED <<episode, events, observed, catalog, explained>> /\ Engine'
      /\ explained \in Nat /\ catalog \in Catalogs
  BY <1>1, PlatformStays
<1>6. ~Answered' /\ HasRow' /\ HasEvents' /\ HasObservations' /\ HasChannel'
  BY <1>2, <1>4, BundleAssumption
  DEF Answered, HasRow, HasEvents, HasObservations, HasChannel, HasSiblings
<1>7. Shape'
  BY <1>1, <1>2, <1>4, <1>5, <1>6 DEF BundleInv, Shape, Fields
<1>8. RowBehind' /\ EventsReachRow' /\ ObservationsReachRow'
  BY <1>1, <1>3, <1>4, <1>5, <1>6
  DEF BundleInv, RowBehind, EventsReachRow, ObservationsReachRow, Evidence, Kinds
<1>9. RowOfCatalog'
  <2>1. SUFFICES ASSUME since.still
                 PROVE  /\ bundle.row.channel \in {None, Ref}
                        /\ bundle.row.channel # None => catalog[Ref] # None
                        /\ bundle.row.room = IF catalog[Ref] # None THEN catalog[Ref].room ELSE None
                        /\ channel = IF bundle.row.channel = None THEN None ELSE catalog[Ref].name
    BY <1>1, <1>4, <1>5 DEF RowOfCatalog
  <2>2. /\ bundle.row.channel \in {None, Ref}
        /\ bundle.row.channel # None => catalog[Ref] # None
        /\ bundle.row.room = IF catalog[Ref] # None THEN catalog[Ref].room ELSE None
    BY <1>3, <2>1 DEF BundleInv, RowOfCatalog
  <2> QED BY <2>2 DEF channel
<1>10. SiblingsOfCatalog'
  BY <1>4 DEF SiblingsOfCatalog
<1> QED BY <1>5, <1>6, <1>7, <1>8, <1>9, <1>10 DEF BundleInv, ExplanationSinceBegun

\* The room's channels that report, where the row, the channel and the room are of one
\* catalog: the names the roles are judged by are all the room's.
LEMMA ReportedOfRoom ==
  ASSUME BundleInv, since.still, HasChannel
  PROVE  Reported(bundle.channel) =
           {g \in InRoom \ {bundle.row.channel} :
              RoleOf(catalog[g].name, {catalog[h].name : h \in InRoom}) # "command"}
<1> DEFINE beside == {g \in Gas : /\ catalog[g] # None
                                  /\ catalog[g].room = bundle.row.room
                                  /\ g # bundle.row.channel}
           names == {catalog[g].name : g \in beside} \cup ({bundle.channel} \ {None})
           all == {catalog[h].name : h \in InRoom}
<1>1. HasRow
  BY DEF HasRow, HasEvents, HasObservations
<1>2. /\ bundle.row.channel \in {None, Ref}
      /\ bundle.row.channel # None => catalog[Ref] # None
      /\ bundle.row.room = IF catalog[Ref] # None THEN catalog[Ref].room ELSE None
      /\ bundle.channel = IF bundle.row.channel = None THEN None ELSE catalog[Ref].name
  BY <1>1 DEF BundleInv, RowOfCatalog
<1>3. beside = InRoom \ {bundle.row.channel}
  BY DEF InRoom
<1>4. names = all
  <2>1. CASE bundle.row.channel = None
    <3>1. bundle.channel = None /\ None \notin InRoom
      BY <1>2, <2>1, BundleAssumption DEF InRoom
    <3>2. beside = InRoom
      BY <1>3, <2>1, <3>1
    <3> QED BY <3>1, <3>2
  <2>2. CASE bundle.row.channel = Ref
    <3>1. Ref # None /\ Ref \in Gas /\ catalog \in Catalogs
      BY BundleAssumption DEF BundleInv, Shape
    <3>2. /\ catalog[Ref] # None /\ catalog[Ref].room = bundle.row.room
          /\ bundle.channel = catalog[Ref].name
      BY <1>2, <2>2, <3>1
    <3>3. catalog[Ref].name # None /\ Ref \in InRoom
      BY <3>1, <3>2, BundleAssumption DEF InRoom
    <3> HIDE DEF beside
    <3>4. beside = InRoom \ {Ref}
      BY <1>3, <2>2
    <3>5. {bundle.channel} \ {None} = {catalog[Ref].name}
      BY <3>2, <3>3
    <3> QED BY <3>3, <3>4, <3>5
  <2> QED BY <1>2, <2>1, <2>2
<1>5. Reported(bundle.channel) = {g \in beside : RoleOf(catalog[g].name, names) # "command"}
  BY DEF Reported
<1> HIDE DEF beside, names, all
<1>6. Reported(bundle.channel) =
        {g \in InRoom \ {bundle.row.channel} : RoleOf(catalog[g].name, all) # "command"}
  BY <1>3, <1>4, <1>5
<1> QED BY <1>6 DEF all

\* The channels of the row's room are read, judged and cut.
LEMMA BundleReadSiblings == ASSUME BundleInv, ReadSiblings PROVE BundleInv'
<1> DEFINE own == bundle.channel
           reported == Reported(own)
           ofDevice == {g \in reported : own # None /\ catalog[g].name.device = own.device}
           many == Cardinality(reported) > SiblingLimit
<1>1. PICK shown \in SUBSET reported :
        /\ ofDevice \subseteq shown \/ shown \subseteq ofDevice
        /\ bundle' = [[bundle EXCEPT !.siblings = shown, !.more = many] EXCEPT !.pc = "explanation"]
        /\ bundle.pc = "siblings" /\ UNCHANGED platform /\ since' = since
  BY DEF ReadSiblings, Go
<1> HIDE DEF many
<1>2. /\ bundle.outcome = None /\ ~Answered
      /\ HasRow /\ HasEvents /\ HasObservations /\ HasChannel
  BY <1>1, NoAnswerYet DEF BundleInv, Shape, HasRow, HasEvents, HasObservations, HasChannel
<1>3. /\ Fields(bundle') /\ bundle'.pc = "explanation" /\ bundle'.outcome = None
      /\ bundle'.siblings = shown /\ bundle'.row = bundle.row /\ bundle'.events = bundle.events
      /\ bundle'.observations = bundle.observations /\ bundle'.cut = bundle.cut
      /\ bundle'.channel = bundle.channel
  BY <1>1, <1>2 DEF BundleInv, Shape, Fields
<1>4. UNCHANGED <<episode, events, observed, catalog, explained>> /\ Engine'
      /\ explained \in Nat /\ catalog \in Catalogs
  BY <1>1, PlatformStays
<1>5. ~Answered' /\ HasRow' /\ HasEvents' /\ HasObservations' /\ HasChannel' /\ HasSiblings'
  BY <1>3, BundleAssumption
  DEF Answered, HasRow, HasEvents, HasObservations, HasChannel, HasSiblings
<1>6. Shape'
  BY <1>1, <1>3, <1>4, <1>5 DEF BundleInv, Shape, Fields
<1>7. RowBehind' /\ EventsReachRow' /\ ObservationsReachRow' /\ RowOfCatalog'
  BY <1>1, <1>2, <1>3, <1>4, <1>5
  DEF BundleInv, RowBehind, EventsReachRow, ObservationsReachRow, RowOfCatalog, Evidence, Kinds
<1>8. InRoom' = InRoom /\ \A g : OwnDevice(g)' = OwnDevice(g)
  BY <1>3, <1>4 DEF InRoom, OwnDevice
<1>9. SiblingsOfCatalog'
  <2> DEFINE names == {catalog[h].name : h \in InRoom}
  <2>1. SUFFICES ASSUME since.still
                 PROVE  /\ shown \subseteq InRoom \ {bundle.row.channel}
                        /\ \A g \in shown : RoleOf(catalog[g].name, names) # "command"
                        /\ \A g \in InRoom \ {bundle.row.channel} :
                             g \notin shown /\ IsStatus(catalog[g].name) /\ OwnDevice(g) =>
                               \A h \in shown : OwnDevice(h)
    BY <1>1, <1>3, <1>4, <1>8 DEF SiblingsOfCatalog, OwnDevice
  <2>2. reported = {g \in InRoom \ {bundle.row.channel} : RoleOf(catalog[g].name, names) # "command"}
    BY <1>2, <2>1, ReportedOfRoom
  <2> HIDE DEF names
  <2>3. /\ shown \subseteq InRoom \ {bundle.row.channel}
        /\ \A g \in shown : RoleOf(catalog[g].name, names) # "command"
    BY <1>1, <2>2
  <2>4. ofDevice = {g \in reported : OwnDevice(g)}
    BY DEF OwnDevice
  <2> HIDE DEF ofDevice
  <2>5. ASSUME NEW g \in InRoom \ {bundle.row.channel}, g \notin shown,
               IsStatus(catalog[g].name), OwnDevice(g)
        PROVE  \A h \in shown : OwnDevice(h)
    <3>1. RoleOf(catalog[g].name, names) # "command"
      BY <2>5, StatusIsNoCommand
    <3>2. g \in ofDevice
      BY <2>2, <2>4, <2>5, <3>1
    <3> QED BY <1>1, <2>4, <2>5, <3>2
  <2> QED BY <2>3, <2>5
<1> QED BY <1>4, <1>5, <1>6, <1>7, <1>9 DEF BundleInv, ExplanationSinceBegun

\* The newest explanation is read and the call answers.
LEMMA BundleReadExplanation == ASSUME BundleInv, ReadExplanation PROVE BundleInv'
<1>1. /\ bundle.pc = "explanation" /\ UNCHANGED platform /\ since' = since
      /\ bundle' = [[bundle EXCEPT !.explanation = explained, !.outcome = "ok"] EXCEPT !.pc = "done"]
  BY DEF ReadExplanation, Go
<1>2. HasRow /\ HasEvents /\ HasObservations /\ HasChannel /\ HasSiblings
  BY <1>1 DEF HasRow, HasEvents, HasObservations, HasChannel, HasSiblings
<1>3. /\ Fields(bundle') /\ bundle'.pc = "done" /\ bundle'.outcome = "ok"
      /\ bundle'.siblings = bundle.siblings /\ bundle'.row = bundle.row
      /\ bundle'.events = bundle.events /\ bundle'.observations = bundle.observations
      /\ bundle'.cut = bundle.cut /\ bundle'.channel = bundle.channel
      /\ bundle'.explanation = explained
  BY <1>1 DEF BundleInv, Shape, Fields
<1>4. UNCHANGED <<episode, events, observed, catalog, explained>> /\ Engine'
      /\ explained \in Nat /\ catalog \in Catalogs
  BY <1>1, PlatformStays
<1>5. Answered' /\ HasRow' /\ HasEvents' /\ HasObservations' /\ HasChannel' /\ HasSiblings'
  BY <1>3 DEF Answered, HasRow, HasEvents, HasObservations, HasChannel, HasSiblings
<1>6. Shape'
  BY <1>1, <1>3, <1>4, <1>5 DEF BundleInv, Shape, Fields
<1>7. RowBehind' /\ EventsReachRow' /\ ObservationsReachRow' /\ RowOfCatalog'
  BY <1>1, <1>2, <1>3, <1>4, <1>5
  DEF BundleInv, RowBehind, EventsReachRow, ObservationsReachRow, RowOfCatalog, Evidence, Kinds
<1>8. InRoom' = InRoom
  BY <1>3, <1>4 DEF InRoom
<1>9. SiblingsOfCatalog'
  <2> DEFINE Told == /\ bundle.siblings \subseteq InRoom \ {bundle.row.channel}
                     /\ \A g \in bundle.siblings :
                          RoleOf(catalog[g].name, {catalog[h].name : h \in InRoom}) # "command"
                     /\ \A g \in InRoom \ {bundle.row.channel} :
                          g \notin bundle.siblings /\ IsStatus(catalog[g].name) /\ OwnDevice(g) =>
                            \A h \in bundle.siblings : OwnDevice(h)
  <2>1. since.still => Told
    BY <1>2 DEF BundleInv, SiblingsOfCatalog
  <2>2. Told' <=> Told
    BY <1>3, <1>4, <1>8 DEF OwnDevice
  <2>3. since'.still <=> since.still
    BY <1>1
  <2>4. since'.still /\ HasSiblings' => Told'
    BY <2>1, <2>2, <2>3, Zenon
  <2> HIDE DEF Told
  <2> QED BY <2>4 DEF SiblingsOfCatalog, Told
<1>10. ExplanationSinceBegun'
  BY <1>1, <1>2, <1>3, <1>4 DEF BundleInv, RowBehind, ExplanationSinceBegun
<1> QED BY <1>4, <1>6, <1>7, <1>9, <1>10 DEF BundleInv

\* A statement fails and the call tells nothing.
LEMMA BundleFail == ASSUME BundleInv, Fail PROVE BundleInv'
<1>1. /\ UNCHANGED platform /\ since' = since
      /\ bundle' = [[Empty EXCEPT !.outcome = "error"] EXCEPT !.pc = "done"]
  BY DEF Fail, Go
<1>2. /\ Fields(bundle') /\ bundle'.pc = "done" /\ bundle'.outcome = "error"
      /\ bundle'.siblings = {}
  BY <1>1 DEF Empty, Fields
<1>3. since' = [explained |-> since'.explained, still |-> since'.still]
  BY <1>1 DEF BundleInv, Shape
<1> QED BY <1>1, <1>2, <1>3, BundleNoAnswer

\* Every step of the call and of the platform.
LEMMA BundleNext == BundleInv /\ [Next]_vars => BundleInv'
<1> SUFFICES ASSUME BundleInv, [Next]_vars PROVE BundleInv'
  OBVIOUS
<1>0. explained \in Nat
  BY DEF BundleInv, Shape
<1>1. ASSUME NEW s \in Severities, Evaluate(s) PROVE BundleInv'
  BY <1>1, BundleEvaluate
<1>2. ASSUME NEW s \in Severities, NEW kind \in {"channel", "room"}, Appear(kind, s)
      PROVE  BundleInv'
  BY <1>2, BundleAppear
<1>3. CASE End
  BY <1>3, BundleEnd
<1>4. ASSUME UNCHANGED <<episode, events, observed, catalog, bundle, since>>,
             explained' \in Nat, explained <= explained'
      PROVE  BundleInv'
  <2>1. Engine'
    BY <1>4 DEF BundleInv, Engine, Evidence, Kinds
  <2>2. episode # None => /\ episode.seen <= episode.seen /\ episode.severity <= episode.severity
    BY DEF BundleInv, Engine, Episodes, Severities
  <2>3. episode # None => /\ episode' # None
                          /\ episode.seen <= episode'.seen /\ episode.severity <= episode'.severity
                          /\ episode.ended => episode'.ended
    BY <1>4, <2>2
  <2> QED BY <1>4, <2>1, <2>3, BundlePlatform
<1>5. CASE Explain
  BY <1>0, <1>4, <1>5 DEF Explain
<1>6. CASE Import
  BY <1>6, BundleImport
<1>7. CASE ReadRow
  BY <1>7, BundleReadRow
<1>8. CASE ReadEvents
  BY <1>8, BundleReadEvents
<1>9. CASE ReadObservations
  BY <1>9, BundleReadObservations
<1>10. CASE ReadChannel
  BY <1>10, BundleReadChannel
<1>11. CASE ReadSiblings
  BY <1>11, BundleReadSiblings
<1>12. CASE ReadExplanation
  BY <1>12, BundleReadExplanation
<1>13. CASE Fail
  BY <1>13, BundleFail
<1>14. CASE UNCHANGED vars
  BY <1>0, <1>4, <1>14 DEF vars
<1> QED BY <1>1, <1>2, <1>3, <1>5, <1>6, <1>7, <1>8, <1>9, <1>10, <1>11, <1>12, <1>13, <1>14
        DEF Next, Platform, Call

-----------------------------------------------------------------------------
(* Theorems *)

\* Each part of the bundle stands to the row and to the tables of now as it did when it
\* was read, in every reachable state.
THEOREM AlwaysBehindTheEngine == Spec => []BundleInv
<1> QED BY BundleInit, BundleNext, PTL DEF Spec

\* An answer has every part.
LEMMA AnsweredHasAll ==
  ASSUME Answered PROVE HasRow /\ HasEvents /\ HasObservations /\ HasChannel /\ HasSiblings
BY DEF HasRow, HasEvents, HasObservations, HasChannel, HasSiblings

\* What the row of get_episode tells is in the events and the trajectory read after it,
\* however the engine went on between the statements.
THEOREM RowsAreBorneOut == Spec => []EvidenceReachesRow
<1>1. ASSUME BundleInv PROVE EvidenceReachesRow
  <2>1. SUFFICES ASSUME Answered
                 PROVE  /\ bundle.row.ended => "ended" \in Kinds(bundle.events)
                        /\ \E e \in bundle.events :
                             /\ e.kind = "appeared"
                             /\ bundle.row.severity > e.severity => "escalated" \in Kinds(bundle.events)
                        /\ \E t \in bundle.observations : t >= bundle.row.seen
                        /\ bundle.explanation \in since.explained..explained
    BY DEF EvidenceReachesRow
  <2>2. Evidence(bundle.row, bundle.events)
    BY <1>1, <2>1, AnsweredHasAll DEF BundleInv, EventsReachRow
  <2>3. /\ \E t \in bundle.observations : t >= bundle.row.seen
        /\ bundle.explanation \in since.explained..explained
    BY <1>1, <2>1, AnsweredHasAll DEF BundleInv, ObservationsReachRow, ExplanationSinceBegun
  <2> QED BY <2>2, <2>3 DEF Evidence
<1> QED BY <1>1, AlwaysBehindTheEngine, PTL

\* observations_truncated is set exactly when the trajectory does not reach back to the
\* first tick, and the trajectory has no hole, wherever the limit is.
THEOREM TrajectoriesAreWhole == Spec => []TrajectoryIsWhole
<1>1. ASSUME BundleInv PROVE TrajectoryIsWhole
  BY <1>1, AnsweredHasAll DEF BundleInv, ObservationsReachRow, TrajectoryIsWhole
<1> QED BY <1>1, AlwaysBehindTheEngine, PTL

\* The siblings are the room's other channels that report, judged by all the names of
\* the room, and those of the episode's own device come first.
THEOREM SiblingsAreOfTheRoom == Spec => []SiblingsAreNeighbours
<1>1. ASSUME BundleInv PROVE SiblingsAreNeighbours
  <2> DEFINE neighbours == {g \in Gas \ {bundle.row.channel} :
                              catalog[g] # None /\ catalog[g].room = bundle.row.room}
             names == {catalog[g].name : g \in {h \in Gas : /\ catalog[h] # None
                                                           /\ catalog[h].room = bundle.row.room}}
  <2>1. SUFFICES ASSUME Answered, since.still
                 PROVE  /\ bundle.siblings \subseteq neighbours
                        /\ \A g \in bundle.siblings : RoleOf(catalog[g].name, names) # "command"
                        /\ \A g \in neighbours \ bundle.siblings :
                             IsStatus(catalog[g].name) /\ OwnDevice(g) =>
                               \A h \in bundle.siblings : OwnDevice(h)
    BY DEF SiblingsAreNeighbours, OwnDevice
  <2>2. neighbours = InRoom \ {bundle.row.channel} /\ names = {catalog[g].name : g \in InRoom}
    BY DEF InRoom
  <2> HIDE DEF neighbours, names
  <2>3. /\ bundle.siblings \subseteq InRoom \ {bundle.row.channel}
        /\ \A g \in bundle.siblings :
             RoleOf(catalog[g].name, {catalog[h].name : h \in InRoom}) # "command"
        /\ \A g \in InRoom \ {bundle.row.channel} :
             g \notin bundle.siblings /\ IsStatus(catalog[g].name) /\ OwnDevice(g) =>
               \A h \in bundle.siblings : OwnDevice(h)
    BY <1>1, <2>1, AnsweredHasAll DEF BundleInv, SiblingsOfCatalog
  <2> QED BY <2>2, <2>3
<1> QED BY <1>1, AlwaysBehindTheEngine, PTL
=============================================================================
