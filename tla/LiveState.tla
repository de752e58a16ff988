----------------------------- MODULE LiveState -----------------------------
(***************************************************************************)
(* get_current_state answers for a domain from the last messages of its    *)
(* subjects, read from JetStream one after the other while they go on      *)
(* publishing.  The answer's age is that of the newest message read; a     *)
(* domain nothing was ever heard of is looked up in the database.  Calls   *)
(* only read, so one call is every call.                                   *)
(*                                                                         *)
(* A message is the time the stream stored it.                             *)
(***************************************************************************)
EXTENDS Naturals, Sequences, FiniteSetsExt

CONSTANTS
  LiveSubjects, \* the subjects that say how things are
  SubjectsOf,  \* SubjectsOf[q]: what question q reads, in order
  Cyclic,      \* the questions about _CYCLIC_DOMAINS
  Refused,     \* questions with an unknown domain or identifier
  StaleAfter,  \* live_stale_seconds
  MaxNow,      \* bound: the last moment
  Nothing      \* no message, no row, no flag, no outcome yet

Questions == DOMAIN SubjectsOf

ASSUME LiveAssumption ==
  /\ \A q \in Questions : SubjectsOf[q] \in Seq(LiveSubjects) /\ SubjectsOf[q] # <<>>
  /\ Cyclic \subseteq Questions
  /\ Refused \cap Questions = {}
  /\ {StaleAfter, MaxNow} \subseteq Nat
  /\ Nothing \notin Nat \cup BOOLEAN \cup {"ok", "unknown"}

VARIABLES
  now,     \* the time
  stream,  \* the last message of a subject, or Nothing
  lookup,  \* [pc, question, got, outcome, asOf, age, stale, row]
  began    \* history: the stream when the call began

liveVars == <<now, stream, lookup, began>>
platform == <<now, stream>>

LiveInit ==
  /\ now = 0
  /\ stream = [s \in LiveSubjects |-> Nothing]
  /\ lookup = [pc |-> "asked", question |-> Nothing, got |-> <<>>, outcome |-> Nothing,
               asOf |-> Nothing, age |-> Nothing, stale |-> Nothing, row |-> Nothing]
  /\ began = stream

-----------------------------------------------------------------------------
(* The platform *)

Tick ==
  /\ now < MaxNow
  /\ now' = now + 1
  /\ UNCHANGED <<stream, lookup, began>>

Store(s) ==
  /\ stream' = [stream EXCEPT ![s] = now]
  /\ UNCHANGED <<now, lookup, began>>

-----------------------------------------------------------------------------
(* The call *)

Refuse(q) ==
  /\ lookup.pc = "asked"
  /\ lookup' = [lookup EXCEPT !.pc = "done", !.outcome = "refused"]
  /\ UNCHANGED <<platform, began>>

Ask(q) ==
  /\ lookup.pc = "asked"
  /\ lookup' = [lookup EXCEPT !.pc = "reading", !.question = q]
  /\ began' = stream
  /\ UNCHANGED platform

\* last_msg: the server answers for the next subject, or with NotFound.
Read ==
  /\ lookup.pc = "reading"
  /\ LET asked == SubjectsOf[lookup.question]
         got == Append(lookup.got, stream[asked[Len(lookup.got) + 1]])
     IN lookup' = [lookup EXCEPT !.got = got,
                                 !.pc = IF Len(got) = Len(asked) THEN "merging" ELSE "reading"]
  /\ UNCHANGED <<platform, began>>

Heard == {lookup.got[i] : i \in DOMAIN lookup.got} \ {Nothing}

\* Mutant of Newest: the subject read last.
NewestRead ==
  IF lookup.got[Len(lookup.got)] = Nothing THEN Max(Heard) ELSE lookup.got[Len(lookup.got)]

\* Mutant of Newest: the oldest of the messages.
OldestHeard == Min(Heard)

Newest == Max(Heard)

\* No await lies between the last read and the answer but the answer's way back.
Merge ==
  /\ lookup.pc = "merging"
  /\ Heard # {}
  /\ lookup' = [lookup EXCEPT !.pc = "done", !.outcome = "ok", !.asOf = Newest, !.age = now - Newest,
                              !.stale = IF lookup.question \in Cyclic
                                        THEN now - Newest > StaleAfter ELSE Nothing]
  /\ UNCHANGED <<platform, began>>

\* _tsdb_fallback: the newest row of the domain's table, if there is one; a
\* statement that fails is no row either, and the call goes on.
FallBack ==
  /\ lookup.pc = "merging"
  /\ Heard = {}
  /\ \E row \in {"row", Nothing} :
       lookup' = [lookup EXCEPT !.pc = "done", !.outcome = "unknown", !.row = row]
  /\ UNCHANGED <<platform, began>>

\* A read times out, or the connection is closed.
Fail ==
  /\ lookup.pc = "reading"
  /\ lookup' = [lookup EXCEPT !.pc = "done", !.outcome = "error"]
  /\ UNCHANGED <<platform, began>>

-----------------------------------------------------------------------------
LiveNext ==
  \/ Tick
  \/ \E s \in LiveSubjects : Store(s)
  \/ \E q \in Refused : Refuse(q)
  \/ \E q \in Questions : Ask(q)
  \/ Read \/ Merge \/ FallBack \/ Fail

LiveSpec == LiveInit /\ [][LiveNext]_liveVars

-----------------------------------------------------------------------------
(* Properties *)

Answered == lookup.outcome = "ok"

\* The subjects of the question.
SubjectsAsked == {SubjectsOf[lookup.question][i] : i \in DOMAIN SubjectsOf[lookup.question]}

\* An answer is as new as the stream was when the call began: no message the
\* stream held then, on any of the subjects, is newer than as_of, although they
\* were read at different times; and "unknown", with the database's word in place
\* of the bus's, is only told where it held none.
AsNewAsAsked ==
  /\ Answered => \A s \in SubjectsAsked : began[s] # Nothing => lookup.asOf >= began[s]
  /\ lookup.outcome = "unknown" => \A s \in SubjectsAsked : began[s] = Nothing

\* stale raises no false alarm: no subject of the domain had spoken, when the call
\* began, within the threshold of the answer.
StaleMeansQuiet ==
  Answered /\ lookup.stale = TRUE =>
    \A s \in SubjectsAsked : began[s] # Nothing => lookup.asOf + lookup.age - began[s] > StaleAfter

=============================================================================
