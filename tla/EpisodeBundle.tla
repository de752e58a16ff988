--------------------------- MODULE EpisodeBundle ---------------------------
(***************************************************************************)
(* get_episode reads one episode with up to six statements, each a         *)
(* transaction of its own on whatever connection the pool hands out, while *)
(* the detection chain goes on evaluating the episode, the trigger service *)
(* explains it and the catalog is imported again.  Calls only read, so one *)
(* call against the moving tables is every call.                           *)
(***************************************************************************)
EXTENDS Roles, FiniteSets

CONSTANTS
  Gas,               \* group addresses
  Catalogs,          \* the catalogs an import installs
  Ref,               \* the address the episode's subject resolves to
  ObservationLimit,  \* _OBSERVATION_LIMIT
  SiblingLimit,      \* _SIBLING_LIMIT
  MaxTick,           \* bound: evaluations of the episode
  MaxRuns,           \* bound: explanations of the episode
  None               \* SQL NULL, and an episode that does not exist yet

Severities == 1..3

\* The rows of episodes.
Episodes == [kind : {"channel", "room"}, seen : Nat, severity : Severities, ended : BOOLEAN]

ASSUME BundleAssumption ==
  /\ Ref \in Gas
  /\ {ObservationLimit, SiblingLimit} \subseteq Nat \ {0}
  /\ {MaxTick, MaxRuns} \subseteq Nat
  /\ None \notin Gas \cup Episodes \cup {"ok"}
  /\ \A c \in Catalogs, g \in Gas : c[g] # None => c[g].name # None

VARIABLES
  episode,   \* the row of episodes: [kind, seen, severity, ended], or None
  events,    \* episode_events: kind, time and severity
  observed,  \* episode_observations: the ticks, one observation each
  catalog,   \* ga_catalog: [name, room] by address, or None
  explained, \* the newest explanation, counted; 0 for none
  bundle,    \* the call: what it has read so far and where it stands
  since      \* history: the newest explanation when the call began, and whether
             \* the catalog is still the one it began with

vars == <<episode, events, observed, catalog, explained, bundle, since>>
platform == <<episode, events, observed, catalog, explained>>

Empty == [pc |-> "row", row |-> None, events |-> {}, observations |-> {}, cut |-> FALSE,
          channel |-> None, siblings |-> {}, more |-> FALSE, explanation |-> 0,
          outcome |-> None]

Init ==
  /\ episode = None
  /\ events = {}
  /\ observed = {}
  /\ catalog \in Catalogs
  /\ explained = 0
  /\ bundle = Empty
  /\ since = [explained |-> 0, still |-> TRUE]

-----------------------------------------------------------------------------
(* The platform: each evaluation is one transaction of the detection chain. *)

\* The fault was measured on a channel, or on a room.
Appear(kind, severity) ==
  /\ episode = None
  /\ MaxTick > 0
  /\ episode' = [kind |-> kind, seen |-> 1, severity |-> severity, ended |-> FALSE]
  /\ events' = {[kind |-> "appeared", time |-> 1, severity |-> severity]}
  /\ observed' = {1}
  /\ UNCHANGED <<catalog, explained, bundle, since>>

\* One more observation; the first rise of the severity is an event.
Evaluate(severity) ==
  /\ episode # None /\ ~episode.ended
  /\ episode.seen < MaxTick
  /\ severity >= episode.severity
  /\ LET now == episode.seen + 1 IN
       /\ episode' = [episode EXCEPT !.seen = now, !.severity = severity]
       /\ observed' = observed \cup {now}
       /\ events' = IF severity > episode.severity /\ \A e \in events : e.kind # "escalated"
                    THEN events \cup {[kind |-> "escalated", time |-> now, severity |-> severity]}
                    ELSE events
  /\ UNCHANGED <<catalog, explained, bundle, since>>

End ==
  /\ episode # None /\ ~episode.ended
  /\ episode' = [episode EXCEPT !.ended = TRUE]
  /\ events' = events \cup {[kind |-> "ended", time |-> episode.seen, severity |-> 0]}
  /\ UNCHANGED <<observed, catalog, explained, bundle, since>>

Explain ==
  /\ episode # None
  /\ explained < MaxRuns
  /\ explained' = explained + 1
  /\ UNCHANGED <<episode, events, observed, catalog, bundle, since>>

Import ==
  /\ catalog' \in Catalogs \ {catalog}
  /\ since' = [since EXCEPT !.still = FALSE]
  /\ UNCHANGED <<episode, events, observed, explained, bundle>>

-----------------------------------------------------------------------------
(* The call *)

\* The row as episode_view gives it: channel and room by the catalog of now.
Row ==
  LET at == catalog[Ref] IN
    [seen |-> episode.seen, severity |-> episode.severity, ended |-> episode.ended,
     channel |-> IF episode.kind = "channel" /\ at # None THEN Ref ELSE None,
     room |-> IF at # None THEN at.room ELSE None]

Go(pc, next) == bundle' = [next EXCEPT !.pc = pc] /\ UNCHANGED platform

ReadRow ==
  /\ bundle.pc = "row"
  /\ IF episode = None
     THEN Go("done", [bundle EXCEPT !.outcome = "refused"])
     ELSE Go("events", [bundle EXCEPT !.row = Row])
  /\ since' = [explained |-> explained, still |-> TRUE]

\* Mutant of ReadEvents: LIMIT 1 on the events.
ReadFirstEvent ==
  /\ bundle.pc = "events"
  /\ Go("observations", [bundle EXCEPT !.events = {e \in events : e.kind = "appeared"}])
  /\ UNCHANGED since

ReadEvents ==
  /\ bundle.pc = "events"
  /\ Go("observations", [bundle EXCEPT !.events = events])
  /\ UNCHANGED since

\* Mutant of ReadObservations: the statement asks for the limit, not one more.
ReadObservationsToLimit ==
  /\ bundle.pc = "observations"
  /\ LET newest == {t \in observed : t > episode.seen - ObservationLimit} IN
       Go("channel", [bundle EXCEPT !.observations = newest,
                                    !.cut = Cardinality(newest) > ObservationLimit])
  /\ UNCHANGED since

\* Newest first, LIMIT 48 + 1: the row too many is dropped and told.
ReadObservations ==
  /\ bundle.pc = "observations"
  /\ \E newest \in SUBSET observed :
       /\ \A t \in newest, u \in observed \ newest : u < t
       /\ Cardinality(newest) =
            IF Cardinality(observed) > ObservationLimit THEN ObservationLimit
                                                        ELSE Cardinality(observed)
       /\ Go("channel", [bundle EXCEPT !.observations = newest,
                                       !.cut = Cardinality(observed) > ObservationLimit])
  /\ UNCHANGED since

\* The catalog entry of the channel, where the row names one.
ReadChannel ==
  /\ bundle.pc = "channel"
  /\ Go(IF bundle.row.room = None THEN "explanation" ELSE "siblings",
        [bundle EXCEPT !.channel =
           IF bundle.row.channel = None \/ catalog[bundle.row.channel] = None
           THEN None ELSE catalog[bundle.row.channel].name])
  /\ UNCHANGED since

\* Mutant of Reported: the roles are judged without the channel's own name.
ReportedAmongThemselves(own) ==
  LET beside == {g \in Gas : /\ catalog[g] # None
                             /\ catalog[g].room = bundle.row.room
                             /\ g # bundle.row.channel}
      names == {catalog[g].name : g \in beside}
  IN {g \in beside : RoleOf(catalog[g].name, names) # "command"}

\* The room's other channels that report a state or a reading.
Reported(own) ==
  LET beside == {g \in Gas : /\ catalog[g] # None
                             /\ catalog[g].room = bundle.row.room
                             /\ g # bundle.row.channel}
      names == {catalog[g].name : g \in beside} \cup ({own} \ {None})
  IN {g \in beside : RoleOf(catalog[g].name, names) # "command"}

\* The channel's own device leads, and the cut comes after the sort.
ReadSiblings ==
  /\ bundle.pc = "siblings"
  /\ LET own == bundle.channel
         reported == Reported(own)
         ofDevice == {g \in reported : own # None /\ catalog[g].name.device = own.device}
         many == Cardinality(reported) > SiblingLimit
     IN \E shown \in SUBSET reported :
          /\ Cardinality(shown) = IF many THEN SiblingLimit ELSE Cardinality(reported)
          /\ ofDevice \subseteq shown \/ shown \subseteq ofDevice
          /\ Go("explanation", [bundle EXCEPT !.siblings = shown, !.more = many])
  /\ UNCHANGED since

ReadExplanation ==
  /\ bundle.pc = "explanation"
  /\ Go("done", [bundle EXCEPT !.explanation = explained, !.outcome = "ok"])
  /\ UNCHANGED since

\* A statement fails, and with it the call; what was read is dropped.
Fail ==
  /\ bundle.pc # "done"
  /\ Go("done", [Empty EXCEPT !.outcome = "error"])
  /\ UNCHANGED since

-----------------------------------------------------------------------------
Platform ==
  \/ \E s \in Severities : Evaluate(s) \/ \E kind \in {"channel", "room"} : Appear(kind, s)
  \/ End
  \/ Explain
  \/ Import

Call ==
  \/ ReadRow \/ ReadEvents \/ ReadObservations
  \/ ReadChannel \/ ReadSiblings \/ ReadExplanation
  \/ Fail

Next == Platform \/ Call

Spec == Init /\ [][Next]_vars

-----------------------------------------------------------------------------
(* Properties *)

Answered == bundle.outcome = "ok"

Kinds(es) == {e.kind : e \in es}

\* The row comes first, so the evidence read after it may be ahead of it but
\* never behind: what the row tells is in the events and the trajectory, however
\* the engine goes on between the statements, and the explanation is none older
\* than there was when the call began.
EvidenceReachesRow ==
  Answered =>
    /\ bundle.row.ended => "ended" \in Kinds(bundle.events)
    /\ \E e \in bundle.events :
         /\ e.kind = "appeared"
         /\ bundle.row.severity > e.severity => "escalated" \in Kinds(bundle.events)
    /\ \E t \in bundle.observations : t >= bundle.row.seen
    /\ bundle.explanation \in since.explained..explained

\* observations_truncated tells the truth: without it the trajectory reaches
\* back to the first tick, with it it does not, and it has no hole.
TrajectoryIsWhole ==
  Answered =>
    /\ bundle.cut <=> 1 \notin bundle.observations
    /\ \A t, u \in bundle.observations : t..u \subseteq bundle.observations

\* The neighbours: channels of the row's room other than its own, none of them a
\* command to a device whose state the room or the channel itself reports.  A cut
\* list leaves out a status of the episode's own device only when it shows nothing
\* else.  Held to the catalog where no import came between the statements.
SiblingsAreNeighbours ==
  Answered /\ since.still =>
    LET neighbours == {g \in Gas \ {bundle.row.channel} :
                         catalog[g] # None /\ catalog[g].room = bundle.row.room}
        names == {catalog[g].name : g \in {h \in Gas : /\ catalog[h] # None
                                                      /\ catalog[h].room = bundle.row.room}}
        Own(g) == bundle.channel # None /\ catalog[g].name.device = bundle.channel.device
    IN /\ bundle.siblings \subseteq neighbours
       /\ \A g \in bundle.siblings : RoleOf(catalog[g].name, names) # "command"
       /\ \A g \in neighbours \ bundle.siblings :
            IsStatus(catalog[g].name) /\ Own(g) => \A h \in bundle.siblings : Own(h)

=============================================================================
