------------------------------ MODULE NatsTail ------------------------------
(***************************************************************************)
(* subscribe_nats watches a subject for a while: a core subscription whose *)
(* callback puts every message on a queue, and a loop that takes them off  *)
(* until it has enough or the time is up.  Around it messages are          *)
(* published, the link to the server breaks and comes back, the client     *)
(* cancels the call and the bridge drains the connection.  Each call has   *)
(* its own subscription and queue, so one call is every call.              *)
(*                                                                         *)
(* A subject is the sequence of its tokens.                                *)
(***************************************************************************)
EXTENDS Integers, Sequences, SequencesExt

CONSTANTS
  Subjects,      \* the subjects the platform publishes on
  Asked,         \* the subjects clients ask to watch
  AllowedPrefixes, \* _ALLOWED_PREFIXES, without the dot
  Durations,     \* the durations clients ask for
  MaxDuration,   \* max_duration_seconds
  MaxMessages,   \* _SUBSCRIBE_MAX_MESSAGES
  MaxPublished,  \* bound: messages published
  None           \* no outcome yet

ASSUME TailAssumption ==
  /\ MaxDuration \in Nat \ {0}
  /\ MaxMessages \in Nat \ {0}
  /\ MaxPublished \in Nat

VARIABLES
  link,       \* the connection: "up", "down", or "closed" (drained)
  offered,    \* the module still holds the connection (_nc)
  published,  \* the subjects of the messages published so far, in order
  interest,   \* the subscription: "none", "sent" or "known" to the server
  pending,    \* messages the client library has not yet given to the callback
  queue,      \* the queue of the call; messages are their place in `published`
  call,       \* [pc, subject, late, out, outcome]
  missed,     \* history: what was published while the server could not deliver
  overtime    \* history: messages the call took after its deadline

vars == <<link, offered, published, interest, pending, queue, call, missed, overtime>>
connection == <<link, offered, published, missed>>

Wildcards == {"*", ">"}

\* What a subscription with wildcards matches at the server.
Matches(pattern, subject) ==
  \/ /\ Len(pattern) = Len(subject)
     /\ \A i \in DOMAIN pattern : pattern[i] \in {"*", subject[i]}
  \/ /\ pattern # <<>> /\ Last(pattern) = ">"
     /\ Len(pattern) <= Len(subject)
     /\ \A i \in 1..(Len(pattern) - 1) : pattern[i] \in {"*", subject[i]}

Init ==
  /\ link \in {"up", "down"}
  /\ offered = TRUE
  /\ published = <<>>
  /\ interest = "none"
  /\ pending = <<>>
  /\ queue = <<>>
  /\ call = [pc |-> "asked", subject |-> <<>>, late |-> FALSE, out |-> <<>>, outcome |-> None]
  /\ missed = {}
  /\ overtime = 0

-----------------------------------------------------------------------------
(* The platform and the connection *)

\* A message reaches the client when the server knows the subscription.
Publish(subject) ==
  /\ Len(published) < MaxPublished
  /\ published' = Append(published, subject)
  /\ LET this == Len(published) + 1
         wanted == interest # "none" /\ Matches(call.subject, subject)
     IN IF wanted /\ interest = "known" /\ link = "up"
        THEN pending' = Append(pending, this) /\ UNCHANGED missed
        ELSE /\ missed' = IF wanted THEN missed \cup {this} ELSE missed
             /\ UNCHANGED pending
  /\ UNCHANGED <<link, offered, interest, queue, call, overtime>>

\* The server takes note of the subscription.
Register ==
  /\ link = "up" /\ interest = "sent"
  /\ interest' = "known"
  /\ UNCHANGED <<connection, pending, queue, call, overtime>>

LinkDown ==
  /\ link = "up"
  /\ link' = "down"
  /\ UNCHANGED <<offered, published, missed, interest, pending, queue, call, overtime>>

\* max_reconnect_attempts is -1: the client always comes back, and subscribes anew.
LinkUp ==
  /\ link = "down"
  /\ link' = "up"
  /\ interest' = IF interest = "known" THEN "sent" ELSE interest
  /\ UNCHANGED <<offered, published, missed, pending, queue, call, overtime>>

\* close(): the drain ends every subscription once its pending messages went to
\* the callback.  A client that is reconnecting refuses to drain, which is
\* suppressed: it is dropped as it is and goes on by itself.
Close ==
  /\ offered
  /\ offered' = FALSE
  /\ IF link = "up"
     THEN pending = <<>> /\ link' = "closed" /\ interest' = "none"
     ELSE UNCHANGED <<link, interest>>
  /\ UNCHANGED <<published, missed, pending, queue, call, overtime>>

\* The call's time is up.
Deadline ==
  /\ call.pc \in {"checking", "waiting"}
  /\ ~call.late
  /\ call' = [call EXCEPT !.late = TRUE]
  /\ UNCHANGED <<connection, interest, pending, queue, overtime>>

\* _on_message: the queue has no bound, put never waits.
OnMessage ==
  /\ pending # <<>>
  /\ pending' = Tail(pending)
  /\ queue' = Append(queue, Head(pending))
  /\ UNCHANGED <<connection, interest, call, overtime>>

-----------------------------------------------------------------------------
(* The call *)

\* A known stream, two concrete tokens before any wildcard, a duration in range.
Admitted(subject, duration) ==
  /\ Len(subject) >= 2
  /\ subject[1] \in AllowedPrefixes
  /\ \A i \in 1..2 : subject[i] \notin Wildcards
  /\ duration \in 1..MaxDuration

Finish(outcome) == call' = [call EXCEPT !.pc = "done", !.outcome = outcome]

\* The arguments, then the subscription, which a module without its connection refuses.  The
\* client library keeps a subscription made while the link is down.
Subscribe(subject, duration) ==
  /\ call.pc = "asked"
  /\ IF ~Admitted(subject, duration) THEN Finish("refused") /\ UNCHANGED interest
     ELSE IF ~offered                THEN Finish("error") /\ UNCHANGED interest
     ELSE /\ call' = [call EXCEPT !.pc = "checking", !.subject = subject]
          /\ interest' = "sent"
  /\ UNCHANGED <<connection, pending, queue, overtime>>

\* Mutant of Check: one round too many.
CheckLate ==
  /\ call.pc = "checking"
  /\ call' = IF Len(call.out) > MaxMessages \/ call.late
             THEN [call EXCEPT !.pc = "leaving", !.outcome = "ok"]
             ELSE [call EXCEPT !.pc = "waiting"]
  /\ UNCHANGED <<connection, interest, pending, queue, overtime>>

\* Mutant of Check: only the count ends the loop, not the time.
CheckCount ==
  /\ call.pc = "checking"
  /\ call' = IF Len(call.out) >= MaxMessages
             THEN [call EXCEPT !.pc = "leaving", !.outcome = "ok"]
             ELSE [call EXCEPT !.pc = "waiting"]
  /\ UNCHANGED <<connection, interest, pending, queue, overtime>>

\* The head of the loop.
Check ==
  /\ call.pc = "checking"
  /\ call' = IF Len(call.out) >= MaxMessages \/ call.late
             THEN [call EXCEPT !.pc = "leaving", !.outcome = "ok"]
             ELSE [call EXCEPT !.pc = "waiting"]
  /\ UNCHANGED <<connection, interest, pending, queue, overtime>>

\* Mutant of Receive: the newest message first.
ReceiveNewest ==
  /\ call.pc = "waiting"
  /\ queue # <<>>
  /\ queue' = Front(queue)
  /\ call' = [call EXCEPT !.pc = "checking", !.out = Append(@, Last(queue))]
  /\ overtime' = overtime + (IF call.late THEN 1 ELSE 0)
  /\ UNCHANGED <<connection, interest, pending>>

\* queue.get() answers before its timeout cancels it, which may be just after the
\* deadline.
Receive ==
  /\ call.pc = "waiting"
  /\ queue # <<>>
  /\ queue' = Tail(queue)
  /\ call' = [call EXCEPT !.pc = "checking", !.out = Append(@, Head(queue))]
  /\ overtime' = overtime + (IF call.late THEN 1 ELSE 0)
  /\ UNCHANGED <<connection, interest, pending>>

\* Mutant of Timeout: queue.get() without a timeout.
TimeoutNever ==
  /\ call.pc = "waiting" /\ call.late /\ queue # <<>>
  /\ call' = [call EXCEPT !.pc = "leaving", !.outcome = "ok"]
  /\ UNCHANGED <<connection, interest, pending, queue, overtime>>

\* The timeout wins; what is still queued is not answered.
Timeout ==
  /\ call.pc = "waiting" /\ call.late
  /\ call' = [call EXCEPT !.pc = "leaving", !.outcome = "ok"]
  /\ UNCHANGED <<connection, interest, pending, queue, overtime>>

\* The loop's only suspension is its wait, so that is where a cancel arrives.
Cancel ==
  /\ call.pc = "waiting"
  /\ call' = [call EXCEPT !.pc = "leaving", !.outcome = "cancelled"]
  /\ UNCHANGED <<connection, interest, pending, queue, overtime>>

\* Mutant of Unsubscribe: after the loop rather than in a finally.
UnsubscribeWhenOk ==
  /\ call.pc = "leaving"
  /\ Finish(call.outcome)
  /\ IF call.outcome = "ok" THEN interest' = "none" /\ pending' = <<>>
                            ELSE UNCHANGED <<interest, pending>>
  /\ UNCHANGED <<connection, queue, overtime>>

\* The finally: what the library holds for the subscription goes with it, and a
\* connection closed meanwhile is no error.
Unsubscribe ==
  /\ call.pc = "leaving"
  /\ Finish(call.outcome)
  /\ interest' = "none"
  /\ pending' = <<>>
  /\ UNCHANGED <<connection, queue, overtime>>

-----------------------------------------------------------------------------
Platform ==
  \/ \E s \in Subjects : Publish(s)
  \/ Register \/ LinkDown \/ LinkUp \/ Close

Loop == Check \/ Receive \/ Timeout \/ Unsubscribe

Next ==
  \/ Platform
  \/ \E s \in Asked, d \in Durations : Subscribe(s, d)
  \/ Deadline
  \/ OnMessage
  \/ Cancel
  \/ Loop

\* The event loop runs the call whenever it can go on, and time passes.  Nothing
\* is promised of the publishers, the server or the link.
Fairness == WF_vars(Loop) /\ WF_vars(Deadline)

Spec == Init /\ [][Next]_vars /\ Fairness

-----------------------------------------------------------------------------
(* Properties *)

Given == ToSet(call.out)

TypeOK ==
  /\ link \in {"up", "down", "closed"}
  /\ offered => link # "closed"
  /\ published \in Seq(Subjects)
  /\ interest \in {"none", "sent", "known"}
  /\ ToSet(pending) \cup ToSet(queue) \cup Given \cup missed \subseteq DOMAIN published
  /\ call.pc \in {"asked", "checking", "waiting", "leaving", "done"}
  /\ call.outcome \in {None, "ok", "refused", "error", "cancelled"}
  /\ Len(call.out) <= MaxMessages

\* The answer is what was published on the subject, oldest first, and a message
\* is left out between two others only where the link was down: neither the queue
\* nor the loop loses one or swaps two.
Gapless ==
  \A i \in 1..(Len(call.out) - 1) :
    LET this == call.out[i]
        next == call.out[i + 1]
    IN /\ this < next
       /\ \A m \in (this + 1)..(next - 1) :
            Matches(call.subject, published[m]) => m \in missed

\* However many messages wait, the time that is up ends the call: it takes at most
\* the one its wait was already given.
OneAfterDeadline == overtime <= 1

\* No subscription outlives its call, whether it answered, was cancelled or lost
\* the connection: nothing is queued for a call that is over.
NoSubscriptionLeft ==
  call.pc = "done" => interest = "none" /\ pending = <<>>

\* A watch that began ends, on a silent subject, a flooded one, a lost link and a
\* closed connection alike.
WatchEnds == (call.pc = "checking") ~> (call.pc = "done")
=============================================================================
