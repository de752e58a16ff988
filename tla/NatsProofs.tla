----------------------------- MODULE NatsProofs -----------------------------
(***************************************************************************)
(* Theorems about the two tools that read NATS: subscribe_nats, for every  *)
(* set of subjects, every number of messages and every limit, and          *)
(* get_current_state, for every domain and every threshold.  They share no *)
(* state and each has its specification.                                   *)
(*                                                                         *)
(* subscribe_nats: what the call has, what waits in its queue and what the *)
(* client library still holds are one sequence: the messages delivered.    *)
(* The inductive invariant is about that sequence, which only grows at its *)
(* end and is cut only when the call is over; how a subject matches a      *)
(* pattern does not matter to it.                                          *)
(*                                                                         *)
(* get_current_state: the subjects are read one after the other while they *)
(* go on publishing: the inductive invariant says that a subject's time    *)
(* only grows, so that what was read of it is no older than what the       *)
(* stream held when the call began.                                        *)
(***************************************************************************)
EXTENDS NatsTail, LiveState, SequenceTheorems, WellFoundedInduction, NaturalsInduction, TLAPS

-----------------------------------------------------------------------------
(* subscribe_nats *)

Delivered == call.out \o queue \o pending

CallRecord ==
  [pc : {"asked", "checking", "waiting", "leaving", "done"}, subject : Asked \cup {<<>>},
   late : BOOLEAN, out : Seq(Nat), outcome : {None, "ok", "refused", "error", "cancelled"}]

Shape ==
  /\ link \in {"up", "down", "closed"}
  /\ offered \in BOOLEAN /\ (offered => link # "closed")
  /\ published \in Seq(Subjects)
  /\ interest \in {"none", "sent", "known"}
  /\ pending \in Seq(Nat) /\ queue \in Seq(Nat)
  /\ call \in CallRecord
  /\ missed \subseteq 1..Len(published)
  /\ overtime \in Nat

\* What was delivered was published, in this order, and between two messages that were
\* delivered none that was wanted is left out but for a lost link.
InSequence(s, subject, messages, absent) ==
  /\ \A i \in 1..Len(s) : s[i] \in 1..Len(messages)
  /\ \A i \in 1..(Len(s) - 1) :
       /\ s[i] < s[i + 1]
       /\ \A m \in (s[i] + 1)..(s[i + 1] - 1) : Matches(subject, messages[m]) => m \in absent

\* The same of what came after the last message delivered.
UpToDate(s, subject, messages, absent) ==
  Len(s) > 0 =>
    \A m \in (s[Len(s)] + 1)..Len(messages) : Matches(subject, messages[m]) => m \in absent

\* A call subscribes once, takes no more than it may, and goes into its wait before the
\* deadline.
Placed ==
  /\ call.pc \in {"asked", "done"} => interest = "none" /\ pending = <<>>
  /\ call.pc = "asked" => queue = <<>> /\ call.out = <<>>
  /\ Len(call.out) <= MaxMessages
  /\ call.pc = "waiting" => Len(call.out) < MaxMessages
  /\ overtime <= 1
  /\ ~call.late \/ call.pc = "waiting" => overtime = 0

TailInv ==
  /\ Shape
  /\ Placed
  /\ InSequence(Delivered, call.subject, published, missed)
  /\ interest # "none" => UpToDate(Delivered, call.subject, published, missed)

-----------------------------------------------------------------------------
(* Lemmas about what is delivered *)

\* The three parts of a sequence keep their places in it.
LEMMA ThreeParts ==
  ASSUME NEW a \in Seq(Nat), NEW b \in Seq(Nat), NEW d \in Seq(Nat)
  PROVE  LET s == a \o b \o d
         IN /\ s \in Seq(Nat) /\ Len(s) = Len(a) + Len(b) + Len(d)
            /\ \A i \in 1..Len(a) : i \in 1..Len(s) /\ s[i] = a[i]
            /\ \A i \in 1..Len(b) : Len(a) + i \in 1..Len(s) /\ s[Len(a) + i] = b[i]
            /\ \A i \in 1..Len(d) : Len(a) + Len(b) + i \in 1..Len(s) /\ s[Len(a) + Len(b) + i] = d[i]
<1> DEFINE t == a \o b
           s == t \o d
<1>1. Len(a) \in Nat /\ Len(b) \in Nat /\ Len(d) \in Nat
  BY LenProperties
<1>c. ASSUME NEW x \in Seq(Nat), NEW y \in Seq(Nat)
      PROVE  /\ x \o y \in Seq(Nat) /\ Len(x \o y) = Len(x) + Len(y)
             /\ \A i \in 1..(Len(x) + Len(y)) :
                  (x \o y)[i] = IF i <= Len(x) THEN x[i] ELSE y[i - Len(x)]
  BY ConcatProperties
<1>2. /\ t \in Seq(Nat) /\ Len(t) = Len(a) + Len(b)
      /\ \A i \in 1..(Len(a) + Len(b)) : t[i] = IF i <= Len(a) THEN a[i] ELSE b[i - Len(a)]
  BY <1>c
<1> HIDE DEF t
<1>3. /\ s \in Seq(Nat) /\ Len(s) = Len(t) + Len(d)
      /\ \A i \in 1..(Len(t) + Len(d)) : s[i] = IF i <= Len(t) THEN t[i] ELSE d[i - Len(t)]
  BY <1>c, <1>2, Zenon
<1> HIDE DEF s
<1>4. ASSUME NEW i \in 1..Len(a) PROVE i \in 1..Len(s) /\ s[i] = a[i]
  <2>1. i \in 1..(Len(a) + Len(b)) /\ i <= Len(t) /\ i \in 1..(Len(t) + Len(d)) /\ i <= Len(a)
    BY <1>1, <1>2
  <2> QED BY <1>2, <1>3, <2>1
<1>5. ASSUME NEW i \in 1..Len(b) PROVE Len(a) + i \in 1..Len(s) /\ s[Len(a) + i] = b[i]
  <2>1. /\ Len(a) + i \in 1..(Len(a) + Len(b)) /\ Len(a) + i <= Len(t) /\ ~(Len(a) + i <= Len(a))
        /\ Len(a) + i \in 1..(Len(t) + Len(d)) /\ (Len(a) + i) - Len(a) = i
    BY <1>1, <1>2
  <2> QED BY <1>2, <1>3, <2>1
<1>6. ASSUME NEW i \in 1..Len(d)
      PROVE  Len(a) + Len(b) + i \in 1..Len(s) /\ s[Len(a) + Len(b) + i] = d[i]
  <2>1. /\ Len(t) + i \in 1..(Len(t) + Len(d)) /\ ~(Len(t) + i <= Len(t)) /\ (Len(t) + i) - Len(t) = i
    BY <1>1, <1>2
  <2>2. Len(a) + Len(b) + i = Len(t) + i
    BY <1>1, <1>2
  <2> QED BY <1>3, <2>1, <2>2
<1>7. Len(s) = Len(a) + Len(b) + Len(d)
  BY <1>1, <1>2, <1>3
<1> QED BY <1>3, <1>4, <1>5, <1>6, <1>7 DEF s, t

\* A message taken off the front of one part and put at the end of the part before
\* stays where it was.
LEMMA HandedOn ==
  ASSUME NEW a \in Seq(Nat), NEW b \in Seq(Nat), b # <<>>
  PROVE  /\ Append(a, Head(b)) \in Seq(Nat) /\ Tail(b) \in Seq(Nat)
         /\ Append(a, Head(b)) \o Tail(b) = a \o b
<1> DEFINE h == <<Head(b)>>
<1>1. Head(b) \in Nat /\ Tail(b) \in Seq(Nat) /\ h \in Seq(Nat)
  BY HeadTailProperties
<1>2. b = h \o Tail(b)
  OBVIOUS
<1>3. Append(a, Head(b)) = a \o h
  BY <1>1, AppendIsConcat
<1>4. (a \o h) \o Tail(b) = a \o (h \o Tail(b))
  BY <1>1, ConcatAssociative
<1> QED BY <1>1, <1>2, <1>3, <1>4, AppendProperties

-----------------------------------------------------------------------------
(* Every step keeps the invariant *)

\* What is delivered is a sequence of messages.
LEMMA DeliveredTyped ==
  ASSUME Shape
  PROVE  /\ Delivered \in Seq(Nat) /\ Len(Delivered) \in Nat
         /\ call.out \in Seq(Nat) /\ queue \in Seq(Nat) /\ pending \in Seq(Nat)
         /\ Len(published) \in Nat
<1>1. call.out \in Seq(Nat) /\ queue \in Seq(Nat) /\ pending \in Seq(Nat)
  BY DEF Shape, CallRecord
<1>2. Delivered \in Seq(Nat)
  BY <1>1, ThreeParts DEF Delivered
<1> QED BY <1>1, <1>2, LenProperties DEF Shape

\* A step that delivers nothing and publishes nothing.
LEMMA NothingDelivered ==
  ASSUME TailInv, Shape', Placed', Delivered' = Delivered, call'.subject = call.subject,
         published' = published, missed' = missed, interest' # "none" => interest # "none"
  PROVE  TailInv'
<1>1. InSequence(Delivered, call.subject, published, missed)'
  BY DEF TailInv, InSequence
<1>2. (interest # "none" => UpToDate(Delivered, call.subject, published, missed))'
  BY DEF TailInv, UpToDate
<1> QED BY <1>1, <1>2 DEF TailInv

\* What the link and the time do.
LEMMA AroundTheCall ==
  ASSUME TailInv, Register \/ LinkDown \/ LinkUp \/ Close \/ Deadline
  PROVE  TailInv'
<1>1. Shape /\ Placed
  BY DEF TailInv
<1>2. /\ published' = published /\ missed' = missed /\ pending' = pending /\ queue' = queue
      /\ overtime' = overtime /\ (interest' # "none" => interest # "none")
      /\ interest' \in {"none", "sent", "known"} /\ link' \in {"up", "down", "closed"}
      /\ offered' \in BOOLEAN /\ (offered' => link' # "closed")
  <2>1. CASE Close
    <3>1. link' \in {link, "closed"} /\ interest' \in {interest, "none"} /\ offered' = FALSE
      BY <2>1 DEF Close
    <3> QED BY <1>1, <2>1, <3>1 DEF Shape, Close
  <2>2. CASE Register \/ LinkDown \/ LinkUp \/ Deadline
    <3>1. /\ offered' = offered /\ link' \in {link, "up", "down"}
          /\ (interest' = interest \/ (interest # "none" /\ interest' \in {"sent", "known"}))
          /\ published' = published /\ missed' = missed /\ pending' = pending /\ queue' = queue
          /\ overtime' = overtime /\ (offered => link' # "closed")
      BY <1>1, <2>2 DEF Shape, Register, LinkDown, LinkUp, Deadline, connection
    <3> QED BY <1>1, <3>1 DEF Shape
  <2> QED BY <2>1, <2>2
<1>3. /\ call' \in CallRecord /\ call'.pc = call.pc /\ call'.subject = call.subject
      /\ call'.out = call.out /\ (call.late => call'.late)
  <2>1. CASE call' = call
    BY <1>1, <2>1 DEF Shape
  <2>2. CASE call' = [call EXCEPT !.late = TRUE]
    BY <1>1, <2>2 DEF Shape, CallRecord
  <2> QED BY <2>1, <2>2 DEF Register, LinkDown, LinkUp, Close, Deadline
<1>4. Shape'
  BY <1>1, <1>2, <1>3 DEF Shape
<1>5. Placed'
  BY <1>1, <1>2, <1>3 DEF Placed
<1>6. Delivered' = Delivered
  BY <1>2, <1>3 DEF Delivered
<1> QED BY <1>2, <1>3, <1>4, <1>5, <1>6, NothingDelivered

\* The steps of the loop that take no message.
LEMMA LoopWithoutMessage ==
  ASSUME TailInv, Check \/ Timeout \/ Cancel
  PROVE  TailInv'
<1>1. Shape /\ Placed
  BY DEF TailInv
<1>2. /\ published' = published /\ missed' = missed /\ pending' = pending /\ queue' = queue
      /\ overtime' = overtime /\ interest' = interest /\ link' = link /\ offered' = offered
  BY DEF Check, Timeout, Cancel, connection
<1>3. /\ call' \in CallRecord /\ call'.subject = call.subject /\ call'.out = call.out
      /\ call'.late = call.late
      /\ \/ call.pc = "checking" /\ call'.pc = "leaving"
         \/ /\ call.pc = "checking" /\ call'.pc = "waiting"
            /\ ~(Len(call.out) >= MaxMessages) /\ ~call.late
         \/ call.pc = "waiting" /\ call'.pc = "leaving"
  BY <1>1 DEF Shape, CallRecord, Check, Timeout, Cancel
<1>4. Shape'
  BY <1>1, <1>2, <1>3 DEF Shape
<1>5. Len(call.out) \in Nat /\ MaxMessages \in Nat
  BY <1>1, DeliveredTyped, LenProperties, TailAssumption
<1>6. Placed'
  BY <1>1, <1>2, <1>3, <1>5 DEF Placed
<1>7. Delivered' = Delivered
  BY <1>2, <1>3 DEF Delivered
<1> QED BY <1>2, <1>3, <1>4, <1>6, <1>7, NothingDelivered

\* The callback hands a message to the queue.
LEMMA OnMessageKeeps ==
  ASSUME TailInv, OnMessage
  PROVE  TailInv'
<1>1. Shape /\ Placed
  BY DEF TailInv
<1>2. /\ pending # <<>> /\ pending' = Tail(pending) /\ queue' = Append(queue, Head(pending))
      /\ published' = published /\ missed' = missed /\ overtime' = overtime
      /\ interest' = interest /\ link' = link /\ offered' = offered /\ call' = call
  BY DEF OnMessage, connection
<1>3. /\ call.out \in Seq(Nat) /\ queue \in Seq(Nat) /\ pending \in Seq(Nat)
  BY <1>1, DeliveredTyped
<1>4. /\ queue' \in Seq(Nat) /\ pending' \in Seq(Nat) /\ queue' \o pending' = queue \o pending
  BY <1>2, <1>3, HandedOn
<1>5. Shape'
  BY <1>1, <1>2, <1>4 DEF Shape
<1>6. Placed'
  BY <1>1, <1>2 DEF Placed
<1>7. Delivered' = Delivered
  <2>1. ASSUME NEW a \in Seq(Nat), NEW b \in Seq(Nat), NEW d \in Seq(Nat)
        PROVE  (a \o b) \o d = a \o (b \o d)
    BY ConcatAssociative
  <2>2. (call.out \o queue') \o pending' = call.out \o (queue' \o pending')
    BY <1>3, <1>4, <2>1
  <2>3. (call.out \o queue) \o pending = call.out \o (queue \o pending)
    BY <1>3, <2>1
  <2> QED BY <1>2, <1>4, <2>2, <2>3, Zenon DEF Delivered
<1> QED BY <1>2, <1>5, <1>6, <1>7, NothingDelivered

\* The loop takes the oldest message.
LEMMA ReceiveKeeps ==
  ASSUME TailInv, Receive
  PROVE  TailInv'
<1>1. Shape /\ Placed
  BY DEF TailInv
<1>2. /\ call.pc = "waiting" /\ queue # <<>> /\ queue' = Tail(queue)
      /\ call' = [call EXCEPT !.pc = "checking", !.out = Append(call.out, Head(queue))]
      /\ overtime' = overtime + (IF call.late THEN 1 ELSE 0)
      /\ published' = published /\ missed' = missed /\ pending' = pending
      /\ interest' = interest /\ link' = link /\ offered' = offered
  BY DEF Receive, connection
<1>3. /\ call.out \in Seq(Nat) /\ queue \in Seq(Nat) /\ pending \in Seq(Nat)
      /\ call \in CallRecord /\ overtime \in Nat
  BY <1>1, DeliveredTyped DEF Shape
<1> DEFINE out == Append(call.out, Head(queue))
<1>4. /\ out \in Seq(Nat) /\ queue' \in Seq(Nat) /\ out \o queue' = call.out \o queue
  BY <1>2, <1>3, HandedOn
<1>5. Len(out) = Len(call.out) + 1 /\ Len(call.out) \in Nat
  <2>1. Head(queue) \in Nat
    BY <1>2, <1>3, HeadTailProperties
  <2> QED BY <1>3, <2>1, AppendProperties, LenProperties
<1> HIDE DEF out
<1>6. /\ call' \in CallRecord /\ call'.pc = "checking" /\ call'.out = out
      /\ call'.subject = call.subject /\ call'.late = call.late
  BY <1>2, <1>3, <1>4 DEF CallRecord, out
<1>7. overtime = 0 /\ overtime' \in {0, 1} /\ (~call.late => overtime' = 0)
  BY <1>1, <1>2 DEF Placed
<1>8. Shape'
  BY <1>1, <1>2, <1>4, <1>6, <1>7 DEF Shape
<1>9. Placed'
  BY <1>1, <1>2, <1>5, <1>6, <1>7, TailAssumption DEF Placed
<1>10. Delivered' = Delivered
  BY <1>2, <1>4, <1>6 DEF Delivered
<1> QED BY <1>2, <1>6, <1>8, <1>9, <1>10, NothingDelivered

\* A message is published: it is delivered as the newest, or it is missed, or nobody
\* watches it.
LEMMA PublishKeeps ==
  ASSUME TailInv, NEW subject \in Subjects, Publish(subject)
  PROVE  TailInv'
<1> DEFINE this == Len(published) + 1
           n == Len(Delivered)
           wanted == interest # "none" /\ Matches(call.subject, subject)
<1>1. Shape /\ Placed /\ InSequence(Delivered, call.subject, published, missed)
      /\ (interest # "none" => UpToDate(Delivered, call.subject, published, missed))
  BY DEF TailInv
<1>2. /\ published' = Append(published, subject)
      /\ interest' = interest /\ link' = link /\ offered' = offered
      /\ call' = call /\ queue' = queue /\ overtime' = overtime
      /\ \/ interest = "known" /\ pending' = Append(pending, this) /\ missed' = missed
         \/ pending' = pending /\ missed' = IF wanted THEN missed \cup {this} ELSE missed
  BY DEF Publish
<1>3. /\ Len(published) \in Nat /\ Delivered \in Seq(Nat) /\ n \in Nat /\ this \in Nat
      /\ call.out \in Seq(Nat) /\ queue \in Seq(Nat) /\ pending \in Seq(Nat)
      /\ this = Len(published) + 1
  BY <1>1, DeliveredTyped
<1> HIDE DEF this
<1>4. /\ published' \in Seq(Subjects) /\ Len(published') = this /\ published'[this] = subject
      /\ \A m \in 1..Len(published) : published'[m] = published[m]
  BY <1>1, <1>2, <1>3, AppendProperties DEF Shape
<1>5. missed \subseteq missed' /\ missed' \subseteq 1..Len(published') /\ pending' \in Seq(Nat)
  <2>1. missed \subseteq 1..this /\ this \in 1..this
    BY <1>1, <1>3 DEF Shape
  <2>2. pending' \in Seq(Nat)
    <3>1. Append(pending, this) \in Seq(Nat)
      BY <1>3, AppendProperties
    <3> QED BY <1>2, <1>3, <3>1
  <2> QED BY <1>2, <1>4, <2>1, <2>2
<1>6. Shape'
  BY <1>1, <1>2, <1>4, <1>5 DEF Shape
<1>7. Placed'
  <2>1. call.pc \in {"asked", "done"} => pending' = pending
    BY <1>1, <1>2 DEF Placed
  <2> QED BY <1>1, <1>2, <2>1 DEF Placed
<1> DEFINE held == InSequence(Delivered, call.subject, published', missed')
<1>8. held
  <2>1. ASSUME NEW i \in 1..n PROVE Delivered[i] \in 1..Len(published')
    BY <1>1, <1>3, <1>4, <2>1 DEF InSequence
  <2>2. ASSUME NEW i \in 1..(n - 1)
        PROVE  /\ Delivered[i] < Delivered[i + 1]
               /\ \A m \in (Delivered[i] + 1)..(Delivered[i + 1] - 1) :
                    Matches(call.subject, published'[m]) => m \in missed'
    <3>1. i \in 1..n /\ i + 1 \in 1..n
      BY <1>3
    <3>2. Delivered[i] \in 1..Len(published) /\ Delivered[i + 1] \in 1..Len(published)
      BY <1>1, <3>1 DEF InSequence
    <3>3. ASSUME NEW m \in (Delivered[i] + 1)..(Delivered[i + 1] - 1) PROVE m \in 1..Len(published)
      <4>1. \A k \in Nat : \A a, b \in 1..k : \A j \in (a + 1)..(b - 1) : j \in 1..k
        OBVIOUS
      <4> QED BY <1>3, <3>2, <3>3, <4>1
    <3> QED BY <1>1, <1>4, <1>5, <3>3 DEF InSequence
  <2> QED BY <2>1, <2>2 DEF InSequence
<1> HIDE DEF held
<1>9. CASE interest = "known" /\ pending' = Append(pending, this) /\ missed' = missed
  <2>1. Delivered' = Append(Delivered, this)
    <3>1. (call.out \o queue) \in Seq(Nat)
      BY <1>3, ConcatProperties
    <3>2. <<this>> \in Seq(Nat)
      BY <1>3
    <3>3. Append(pending, this) = pending \o <<this>>
      BY <1>3, AppendIsConcat
    <3>4. ((call.out \o queue) \o pending) \o <<this>> = (call.out \o queue) \o (pending \o <<this>>)
      <4>1. \A a, b, d \in Seq(Nat) : (a \o b) \o d = a \o (b \o d)
        BY ConcatAssociative
      <4> QED BY <1>3, <3>1, <3>2, <4>1
    <3>5. Append(Delivered, this) = Delivered \o <<this>>
      BY <1>3, AppendIsConcat
    <3> QED BY <1>2, <1>9, <3>3, <3>4, <3>5, Zenon DEF Delivered
  <2>2. /\ Len(Delivered') = n + 1 /\ Delivered'[n + 1] = this
        /\ \A i \in 1..n : Delivered'[i] = Delivered[i]
    BY <1>3, <2>1, AppendProperties
  <2>3. ASSUME NEW i \in 1..(n + 1) PROVE Delivered'[i] \in 1..Len(published')
    <3>1. CASE i = n + 1
      BY <1>3, <1>4, <2>2, <3>1
    <3>2. CASE i # n + 1
      <4>1. i \in 1..n
        BY <1>3, <3>2
      <4> QED BY <1>8, <2>2, <4>1 DEF held, InSequence
    <3> QED BY <3>1, <3>2
  <2>4. ASSUME NEW i \in 1..n
        PROVE  /\ Delivered'[i] < Delivered'[i + 1]
               /\ \A m \in (Delivered'[i] + 1)..(Delivered'[i + 1] - 1) :
                    Matches(call.subject, published'[m]) => m \in missed'
    <3>1. CASE i = n
      <4>1. Delivered'[i] = Delivered[n] /\ Delivered[n] \in 1..Len(published) /\ Delivered'[i + 1] = this
        BY <1>1, <2>2, <3>1 DEF InSequence
      <4>2. Delivered'[i] < Delivered'[i + 1]
        BY <1>3, <4>1
      <4>3. ASSUME NEW m \in (Delivered'[i] + 1)..(Delivered'[i + 1] - 1)
            PROVE  m \in (Delivered[n] + 1)..Len(published) /\ m \in 1..Len(published)
        BY <1>3, <4>1
      <4>4. n > 0
        BY <1>3, <3>1
      <4> QED BY <1>1, <1>4, <1>9, <4>2, <4>3, <4>4 DEF UpToDate
    <3>2. CASE i # n
      <4>1. i \in 1..(n - 1) /\ i + 1 \in 1..n
        BY <1>3, <3>2
      <4> QED BY <1>8, <2>2, <4>1 DEF held, InSequence
    <3> QED BY <3>1, <3>2
  <2>5. InSequence(Delivered, call.subject, published, missed)'
    <3>1. Len(Delivered') - 1 = n
      BY <1>3, <2>2
    <3> QED BY <1>2, <2>2, <2>3, <2>4, <3>1 DEF InSequence
  <2>6. UpToDate(Delivered, call.subject, published, missed)'
    <3>1. \A m \in (this + 1)..this : FALSE
      BY <1>3
    <3> QED BY <1>4, <2>2, <3>1 DEF UpToDate
  <2> QED BY <1>6, <1>7, <2>5, <2>6 DEF TailInv
<1>10. CASE pending' = pending /\ missed' = IF wanted THEN missed \cup {this} ELSE missed
  <2>1. Delivered' = Delivered
    BY <1>2, <1>10 DEF Delivered
  <2>2. InSequence(Delivered, call.subject, published, missed)'
    BY <1>2, <1>8, <2>1 DEF held
  <2>3. ASSUME interest # "none", n > 0, NEW m \in (Delivered[n] + 1)..Len(published'),
               Matches(call.subject, published'[m])
        PROVE  m \in missed'
    <3>1. Delivered[n] \in 1..Len(published)
      BY <1>1, <1>3, <2>3 DEF InSequence
    <3>2. CASE m = this
      BY <1>4, <1>10, <2>3, <3>2
    <3>3. CASE m # this
      <4>1. m \in (Delivered[n] + 1)..Len(published) /\ m \in 1..Len(published)
        BY <1>3, <1>4, <3>1, <3>3
      <4> QED BY <1>1, <1>4, <1>5, <2>3, <4>1 DEF UpToDate
    <3> QED BY <3>2, <3>3
  <2>4. (interest # "none" => UpToDate(Delivered, call.subject, published, missed))'
    BY <1>2, <2>1, <2>3 DEF UpToDate
  <2> QED BY <1>6, <1>7, <2>2, <2>4 DEF TailInv
<1> QED BY <1>2, <1>9, <1>10

\* A call begins with nothing delivered.
LEMMA SubscribeKeeps ==
  ASSUME TailInv, NEW subject \in Asked, NEW duration, Subscribe(subject, duration)
  PROVE  TailInv'
<1>1. Shape /\ Placed /\ call.pc = "asked"
  BY DEF TailInv, Subscribe
<1>2. /\ interest = "none" /\ pending = <<>> /\ queue = <<>> /\ call.out = <<>>
  BY <1>1 DEF Placed
<1>3. /\ published' = published /\ missed' = missed /\ pending' = pending /\ queue' = queue
      /\ overtime' = overtime /\ link' = link /\ offered' = offered
      /\ interest' \in {"none", "sent"} /\ (call'.pc = "done" => interest' = "none")
      /\ call' \in CallRecord /\ call'.pc \in {"checking", "done"} /\ call'.out = <<>>
      /\ call'.late = call.late
  <2>1. CASE call' = [call EXCEPT !.pc = "checking", !.subject = subject] /\ interest' = "sent"
    BY <1>1, <1>2, <2>1 DEF Subscribe, Shape, CallRecord, connection
  <2>2. CASE (Finish("refused") \/ Finish("error")) /\ interest' = interest
    BY <1>1, <1>2, <2>2 DEF Subscribe, Finish, Shape, CallRecord, connection
  <2> QED BY <2>1, <2>2 DEF Subscribe
<1>4. Shape'
  BY <1>1, <1>3 DEF Shape
<1>5. Placed'
  BY <1>1, <1>2, <1>3 DEF Placed
<1>6. Len(Delivered') = 0
  BY <1>2, <1>3, ThreeParts, EmptySeq DEF Delivered
<1>7. InSequence(Delivered, call.subject, published, missed)'
      /\ UpToDate(Delivered, call.subject, published, missed)'
  <2>1. \A i \in 1..0 : FALSE
    OBVIOUS
  <2>2. \A i \in 1..(0 - 1) : FALSE
    OBVIOUS
  <2> QED BY <1>6, <2>1, <2>2 DEF InSequence, UpToDate
<1> QED BY <1>4, <1>5, <1>7 DEF TailInv

\* The end of a call drops what the client library still held for it.
LEMMA UnsubscribeKeeps ==
  ASSUME TailInv, Unsubscribe
  PROVE  TailInv'
<1>1. Shape /\ Placed /\ InSequence(Delivered, call.subject, published, missed)
  BY DEF TailInv
<1>2. /\ published' = published /\ missed' = missed /\ pending' = <<>> /\ queue' = queue
      /\ overtime' = overtime /\ link' = link /\ offered' = offered /\ interest' = "none"
      /\ call' = [call EXCEPT !.pc = "done"]
  <2>1. call' = [call EXCEPT !.pc = "done", !.outcome = call.outcome]
    BY DEF Unsubscribe, Finish
  <2> QED BY <1>1, <2>1 DEF Unsubscribe, connection, Shape, CallRecord
<1>3. /\ call' \in CallRecord /\ call'.pc = "done" /\ call'.out = call.out
      /\ call'.late = call.late /\ call'.subject = call.subject
  BY <1>1, <1>2 DEF Shape, CallRecord
<1>4. Shape'
  BY <1>1, <1>2, <1>3 DEF Shape
<1>5. Placed'
  <2>1. overtime <= 1 /\ (~call.late => overtime = 0) /\ Len(call.out) <= MaxMessages
    BY <1>1 DEF Placed
  <2> QED BY <1>2, <1>3, <2>1 DEF Placed
<1> DEFINE s == Delivered
           t == Delivered'
<1>6. Len(t) \in Nat /\ Len(s) \in Nat /\ Len(t) <= Len(s) /\ \A i \in 1..Len(t) : t[i] = s[i]
  <2> DEFINE front == call.out \o queue
  <2>1. /\ call.out \in Seq(Nat) /\ queue \in Seq(Nat) /\ pending \in Seq(Nat)
    BY <1>1, DeliveredTyped
  <2>2. front \in Seq(Nat)
    BY <2>1, ConcatProperties
  <2>3. s = front \o pending /\ t = front \o <<>>
    BY <1>2, <1>3 DEF Delivered
  <2> HIDE DEF front, s, t
  <2>4. t = front
    BY <2>2, <2>3, ConcatEmptySeq
  <2>5. Len(front) \in Nat /\ Len(pending) \in Nat
    BY <2>1, <2>2, LenProperties
  <2>6. /\ Len(s) = Len(front) + Len(pending)
        /\ \A i \in 1..(Len(front) + Len(pending)) :
             s[i] = IF i <= Len(front) THEN front[i] ELSE pending[i - Len(front)]
    BY <2>1, <2>2, <2>3, ConcatProperties
  <2>7. \A i \in 1..Len(front) : i \in 1..(Len(front) + Len(pending)) /\ i <= Len(front)
    BY <2>5
  <2> QED BY <2>4, <2>5, <2>6, <2>7
<1> HIDE DEF s, t
<1>7. InSequence(t, call.subject, published, missed)
  <2>1. InSequence(s, call.subject, published, missed)
    BY <1>1 DEF s
  <2>2. ASSUME NEW i \in 1..Len(t) PROVE i \in 1..Len(s)
    BY <1>6
  <2>3. ASSUME NEW i \in 1..(Len(t) - 1)
        PROVE  i \in 1..(Len(s) - 1) /\ t[i] = s[i] /\ t[i + 1] = s[i + 1]
    <3>1. i \in 1..Len(t) /\ i + 1 \in 1..Len(t)
      BY <1>6
    <3>2. i \in 1..(Len(s) - 1)
      BY <1>6
    <3> QED BY <1>6, <3>1, <3>2
  <2> QED BY <1>6, <2>1, <2>2, <2>3 DEF InSequence
<1>8. InSequence(Delivered, call.subject, published, missed)'
  BY <1>2, <1>3, <1>7 DEF t
<1> QED BY <1>2, <1>4, <1>5, <1>8 DEF TailInv

-----------------------------------------------------------------------------
(* The theorems *)

\* Before the call nothing is delivered.
LEMMA InitInSequence == Init => TailInv
<1> SUFFICES ASSUME Init PROVE TailInv
  OBVIOUS
<1>1. /\ link \in {"up", "down"} /\ offered = TRUE /\ published = <<>> /\ interest = "none"
      /\ pending = <<>> /\ queue = <<>> /\ missed = {} /\ overtime = 0
      /\ call = [pc |-> "asked", subject |-> <<>>, late |-> FALSE, out |-> <<>>, outcome |-> None]
  BY DEF Init
<1>2. <<>> \in Seq(Nat) /\ <<>> \in Seq(Subjects) /\ Len(<<>>) = 0
  BY EmptySeq
<1>3. call \in CallRecord /\ call.pc = "asked" /\ call.out = <<>> /\ call.late = FALSE
  <2> DEFINE none == <<>>
  <2>1. none \in Seq(Nat) /\ none \in Asked \cup {<<>>}
    OBVIOUS
  <2>2. call = [pc |-> "asked", subject |-> none, late |-> FALSE, out |-> none, outcome |-> None]
        /\ none = <<>>
    BY <1>1
  <2> HIDE DEF none
  <2> QED BY <2>1, <2>2 DEF CallRecord
<1>4. Shape
  BY <1>1, <1>2, <1>3 DEF Shape
<1>5. Placed
  BY <1>1, <1>2, <1>3, TailAssumption DEF Placed
<1>6. Len(Delivered) = 0
  BY <1>1, <1>2, <1>3, ThreeParts DEF Delivered
<1>7. InSequence(Delivered, call.subject, published, missed)
  <2>1. (\A i \in 1..0 : FALSE) /\ (\A i \in 1..(0 - 1) : FALSE)
    OBVIOUS
  <2> QED BY <1>6, <2>1 DEF InSequence
<1> QED BY <1>1, <1>4, <1>5, <1>7 DEF TailInv

\* Every step of the call, the callback, the link and the publishers.
LEMMA NextKeeps == TailInv /\ [Next]_vars => TailInv'
<1> SUFFICES ASSUME TailInv, [Next]_vars PROVE TailInv'
  OBVIOUS
<1>1. ASSUME NEW s \in Subjects, Publish(s) PROVE TailInv'
  BY <1>1, PublishKeeps
<1>2. ASSUME NEW s \in Asked, NEW d \in Durations, Subscribe(s, d) PROVE TailInv'
  BY <1>2, SubscribeKeeps
<1>3. CASE UNCHANGED vars
  <2>1. Shape' /\ Placed' /\ Delivered' = Delivered
    BY <1>3 DEF TailInv, Shape, Placed, Delivered, vars
  <2> QED BY <1>3, <2>1, NothingDelivered DEF vars
<1> QED
  BY <1>1, <1>2, <1>3, AroundTheCall, LoopWithoutMessage, OnMessageKeeps, ReceiveKeeps,
     UnsubscribeKeeps DEF Next, Platform, Loop

\* What was delivered and not yet given up is in sequence at every moment: the
\* inductive invariant.
THEOREM AlwaysInSequence == Spec => []TailInv
<1> QED BY InitInSequence, NextKeeps, PTL DEF Spec

\* The answer holds messages that were published and no more of them than the tool
\* gives (_SUBSCRIBE_MAX_MESSAGES); a module that gives its connection away has one.
THEOREM TailTypes == Spec => []TypeOK
<1>1. ASSUME TailInv PROVE TypeOK
  <2>1. Shape /\ Placed /\ InSequence(Delivered, call.subject, published, missed)
    BY <1>1 DEF TailInv
  <2>2. DOMAIN published = 1..Len(published)
    BY <2>1, LenProperties DEF Shape
  <2>3. /\ call.out \in Seq(Nat) /\ queue \in Seq(Nat) /\ pending \in Seq(Nat)
    BY <2>1, DeliveredTyped
  <2>4. ASSUME NEW s \in Seq(Nat), \A i \in 1..Len(s) : s[i] \in 1..Len(published)
        PROVE  ToSet(s) \subseteq 1..Len(published)
    <3>1. DOMAIN s = 1..Len(s)
      BY LenProperties
    <3> QED BY <2>4, <3>1 DEF ToSet
  <2>5. \A i \in 1..Len(Delivered) : Delivered[i] \in 1..Len(published)
    BY <2>1 DEF InSequence
  <2>6. /\ \A i \in 1..Len(call.out) : i \in 1..Len(Delivered) /\ Delivered[i] = call.out[i]
        /\ \A i \in 1..Len(queue) : LET k == Len(call.out) + i
                                     IN k \in 1..Len(Delivered) /\ Delivered[k] = queue[i]
        /\ \A i \in 1..Len(pending) : LET k == Len(call.out) + Len(queue) + i
                                       IN k \in 1..Len(Delivered) /\ Delivered[k] = pending[i]
    BY <2>3, ThreeParts DEF Delivered
  <2>7. /\ \A i \in 1..Len(call.out) : call.out[i] \in 1..Len(published)
        /\ \A i \in 1..Len(queue) : queue[i] \in 1..Len(published)
        /\ \A i \in 1..Len(pending) : pending[i] \in 1..Len(published)
    BY <2>5, <2>6
  <2>8. ToSet(pending) \cup ToSet(queue) \cup Given \cup missed \subseteq DOMAIN published
    BY <2>1, <2>2, <2>3, <2>4, <2>7 DEF Given, Shape
  <2> QED BY <2>1, <2>8 DEF TypeOK, Shape, Placed, CallRecord
<1> QED BY <1>1, AlwaysInSequence, PTL

\* The answer is what was published on the subject, oldest first; between two of its
\* messages one is left out only where the link was down.
THEOREM AnswersAreGapless == Spec => []Gapless
<1>1. ASSUME TailInv PROVE Gapless
  <2>1. Shape /\ InSequence(Delivered, call.subject, published, missed)
    BY <1>1 DEF TailInv
  <2>2. /\ call.out \in Seq(Nat) /\ queue \in Seq(Nat) /\ pending \in Seq(Nat)
        /\ Len(Delivered) \in Nat /\ Len(call.out) \in Nat
    BY <2>1, DeliveredTyped, LenProperties
  <2>3. \A i \in 1..Len(call.out) : i \in 1..Len(Delivered) /\ Delivered[i] = call.out[i]
    BY <2>2, ThreeParts DEF Delivered
  <2>4. ASSUME NEW i \in 1..(Len(call.out) - 1)
        PROVE  /\ call.out[i] < call.out[i + 1]
               /\ \A m \in (call.out[i] + 1)..(call.out[i + 1] - 1) :
                    Matches(call.subject, published[m]) => m \in missed
    <3>1. i \in 1..Len(call.out) /\ i + 1 \in 1..Len(call.out)
      BY <2>2
    <3>2. /\ i \in 1..Len(Delivered) /\ i + 1 \in 1..Len(Delivered)
          /\ Delivered[i] = call.out[i] /\ Delivered[i + 1] = call.out[i + 1]
      BY <2>3, <3>1
    <3>3. i \in 1..(Len(Delivered) - 1)
      BY <2>2, <3>2
    <3> QED BY <2>1, <3>2, <3>3 DEF InSequence
  <2> QED BY <2>4 DEF Gapless
<1> QED BY <1>1, AlwaysInSequence, PTL

\* The time that is up ends a watch however many messages wait: it takes at most the one
\* its wait was already given.
THEOREM OneMessageAfterDeadline == Spec => []OneAfterDeadline
<1>1. TailInv => OneAfterDeadline
  BY DEF TailInv, Placed, OneAfterDeadline
<1> QED BY <1>1, AlwaysInSequence, PTL

\* A call that is over has no subscription at the server and nothing held for it by the
\* client library.
THEOREM NothingLeftBehind == Spec => []NoSubscriptionLeft
<1>1. TailInv => NoSubscriptionLeft
  BY DEF TailInv, Placed, NoSubscriptionLeft
<1> QED BY <1>1, AlwaysInSequence, PTL

-----------------------------------------------------------------------------
(* get_current_state *)

Times == Nat \cup {Nothing}

LiveShape ==
  /\ now \in Nat
  /\ stream \in [LiveSubjects -> Times] /\ began \in [LiveSubjects -> Times]
  /\ lookup.pc \in {"asked", "reading", "merging", "done"}
  /\ lookup.got \in Seq(Times)
  /\ lookup = [pc |-> lookup.pc, question |-> lookup.question, got |-> lookup.got,
             outcome |-> lookup.outcome, asOf |-> lookup.asOf, age |-> lookup.age,
             stale |-> lookup.stale, row |-> lookup.row]

\* Nothing was stored in the future, and what a subject held it holds or has followed.
NeverBack ==
  /\ \A s \in LiveSubjects : stream[s] # Nothing => stream[s] <= now
  /\ \A s \in LiveSubjects : began[s] # Nothing => stream[s] # Nothing /\ began[s] <= stream[s]

\* A call reads its subjects in order, each no earlier than it began.
ReadInTurn ==
  /\ lookup.pc # "done" => lookup.outcome = Nothing
  /\ lookup.pc = "asked" => lookup.got = <<>>
  /\ lookup.pc \in {"reading", "merging"} =>
       /\ lookup.question \in Questions
       /\ \A i \in 1..Len(lookup.got) :
            /\ lookup.got[i] # Nothing => lookup.got[i] <= now
            /\ began[SubjectsOf[lookup.question][i]] # Nothing =>
                 /\ lookup.got[i] # Nothing
                 /\ began[SubjectsOf[lookup.question][i]] <= lookup.got[i]
  /\ lookup.pc = "reading" => Len(lookup.got) < Len(SubjectsOf[lookup.question])
  /\ lookup.pc = "merging" => Len(lookup.got) = Len(SubjectsOf[lookup.question])

LiveInv == LiveShape /\ NeverBack /\ ReadInTurn /\ AsNewAsAsked /\ StaleMeansQuiet

-----------------------------------------------------------------------------
(* Lemmas about maxima and questions *)

\* Times that are bounded have a newest.
LEMMA MaxIsNewest ==
  ASSUME NEW T \in SUBSET Nat, T # {}, NEW n \in Nat, \A t \in T : t <= n
  PROVE  Max(T) \in T /\ \A t \in T : t <= Max(T)
<1> DEFINE from == {n - t : t \in T}
           R == OpToRel(<, Nat)
<1>0. \A t \in T : t \in Nat /\ n - t \in Nat
  OBVIOUS
<1>1. from \subseteq Nat /\ from # {}
  <2>1. PICK t \in T : TRUE
    OBVIOUS
  <2>2. n - t \in from
    OBVIOUS
  <2> QED BY <1>0, <2>2
<1>2. IsWellFoundedOn(R, Nat)
  BY NatLessThanWellFounded
<1>3. \A x, y \in Nat : <<y, x>> \in R <=> y < x
  BY DEF OpToRel
<1> HIDE DEF R
<1>4. \E x \in from : \A y \in from : ~(<<y, x>> \in R)
  <2> HIDE DEF from
  <2> QED BY <1>1, <1>2, WFMin
<1>5. PICK x \in from : \A y \in from : ~(y < x)
  BY <1>1, <1>3, <1>4
<1>6. PICK m \in T : x = n - m
  OBVIOUS
<1>7. \A t \in T : t <= m
  <2> TAKE t \in T
  <2>1. n - t \in from
    OBVIOUS
  <2>2. ~(n - t < n - m)
    BY <1>5, <1>6, <2>1
  <2>3. \A a, b \in Nat : ~(n - a < n - b) => a <= b
    OBVIOUS
  <2> QED BY <1>0, <2>2, <2>3
<1>8. \E y \in T : \A t \in T : y >= t
  BY <1>7
<1>9. \A t \in T : Max(T) >= t
  BY <1>8 DEF Max
<1>10. Max(T) \in T
  BY <1>8 DEF Max
<1> QED BY <1>9, <1>10

\* The subjects of a question, in order.
LEMMA SubjectsOfQuestion ==
  ASSUME NEW q \in Questions
  PROVE  /\ SubjectsOf[q] \in Seq(LiveSubjects) /\ Len(SubjectsOf[q]) \in Nat \ {0}
         /\ DOMAIN SubjectsOf[q] = 1..Len(SubjectsOf[q])
         /\ \A i \in 1..Len(SubjectsOf[q]) : SubjectsOf[q][i] \in LiveSubjects
BY LiveAssumption

-----------------------------------------------------------------------------
(* Every step keeps the invariant *)

\* Before the call nothing is read.
LEMMA LiveInitKeeps == LiveInit => LiveInv
<1> SUFFICES ASSUME LiveInit PROVE LiveInv
  OBVIOUS
<1>1. <<>> \in Seq(Times)
  OBVIOUS
<1>2. LiveShape
  BY <1>1 DEF LiveInit, LiveShape, Times
<1>3. NeverBack
  BY DEF LiveInit, NeverBack
<1>4. ReadInTurn /\ AsNewAsAsked /\ StaleMeansQuiet
  BY LiveAssumption DEF LiveInit, ReadInTurn, AsNewAsAsked, StaleMeansQuiet, Answered
<1> QED BY <1>2, <1>3, <1>4 DEF LiveInv

\* The platform goes on: nothing that was read or held becomes newer than now.
LEMMA LivePlatform ==
  ASSUME LiveInv, UNCHANGED <<lookup, began>>, now' \in Nat, now <= now',
         stream' \in [LiveSubjects -> Times],
         \A s \in LiveSubjects : stream'[s] = stream[s] \/ stream'[s] = now,
         \A s \in LiveSubjects : stream[s] # Nothing => stream'[s] # Nothing
  PROVE  LiveInv'
<1>1. LiveShape'
  BY DEF LiveInv, LiveShape
<1>2. \A t \in Times : t # Nothing /\ t <= now => t <= now'
  BY LiveAssumption DEF LiveInv, LiveShape, Times
<1>3. \A s \in LiveSubjects : stream[s] \in Times /\ stream'[s] \in Times /\ began[s] \in Times
  BY DEF LiveInv, LiveShape
<1>4. NeverBack'
  <2>1. \A s \in LiveSubjects : stream'[s] # Nothing => stream'[s] <= now'
    BY <1>2, <1>3 DEF LiveInv, NeverBack, LiveShape
  <2>2. ASSUME NEW s \in LiveSubjects, began[s] # Nothing
        PROVE  stream'[s] # Nothing /\ began[s] <= stream'[s]
    <3>1. stream[s] # Nothing /\ began[s] <= stream[s] /\ stream[s] <= now
      BY <2>2 DEF LiveInv, NeverBack
    <3>2. began[s] \in Nat /\ stream[s] \in Nat /\ now \in Nat
      BY <1>3, <2>2, <3>1 DEF Times, LiveInv, LiveShape
    <3>3. began[s] <= now
      BY <3>1, <3>2
    <3> QED BY <3>1, <3>3
  <2> QED BY <2>1, <2>2 DEF NeverBack
<1>5. \A i \in 1..Len(lookup.got) : lookup.got[i] \in Times
  BY DEF LiveInv, LiveShape
<1>6. ReadInTurn'
  BY <1>2, <1>5 DEF LiveInv, ReadInTurn
<1> QED BY <1>1, <1>4, <1>6
        DEF LiveInv, AsNewAsAsked, StaleMeansQuiet, Answered, SubjectsAsked

\* The stream is remembered as it is when the call begins.
LEMMA LiveAsk == ASSUME LiveInv, NEW q \in Questions, Ask(q) PROVE LiveInv'
<1>1. /\ UNCHANGED <<now, stream>> /\ began' = stream /\ lookup.pc = "asked"
      /\ lookup' = [lookup EXCEPT !.pc = "reading", !.question = q]
  BY DEF Ask, platform
<1>2. lookup.got = <<>> /\ lookup.outcome = Nothing
  BY <1>1 DEF LiveInv, ReadInTurn
<1>3. /\ lookup'.pc = "reading" /\ lookup'.question = q /\ lookup'.got = <<>> /\ lookup'.outcome = Nothing
      /\ lookup' = [pc |-> lookup'.pc, question |-> lookup'.question, got |-> lookup'.got,
                  outcome |-> lookup'.outcome, asOf |-> lookup'.asOf, age |-> lookup'.age,
                  stale |-> lookup'.stale, row |-> lookup'.row]
  BY <1>1, <1>2 DEF LiveInv, LiveShape
<1>4. LiveShape'
  <2>1. <<>> \in Seq(Times)
    OBVIOUS
  <2> QED BY <1>1, <1>3, <2>1 DEF LiveInv, LiveShape
<1>5. NeverBack'
  <2>1. \A s \in LiveSubjects : stream[s] # Nothing => stream[s] <= stream[s]
    BY DEF LiveInv, LiveShape, Times
  <2> QED BY <1>1, <2>1 DEF LiveInv, NeverBack
<1>6. ReadInTurn'
  <2>1. Len(SubjectsOf[q]) \in Nat \ {0} /\ Len(<<>>) = 0
    BY SubjectsOfQuestion
  <2>2. Len(<<>>) < Len(SubjectsOf[q]) /\ 1..Len(<<>>) = {}
    BY <2>1
  <2> QED BY <1>3, <2>2 DEF ReadInTurn
<1>7. AsNewAsAsked' /\ StaleMeansQuiet'
  BY <1>3, LiveAssumption DEF AsNewAsAsked, StaleMeansQuiet, Answered
<1> QED BY <1>4, <1>5, <1>6, <1>7 DEF LiveInv

\* The subject that is next is read as it is now.
LEMMA LiveRead == ASSUME LiveInv, Read PROVE LiveInv'
<1> DEFINE asked == SubjectsOf[lookup.question]
           n == Len(lookup.got)
           got == Append(lookup.got, stream[asked[n + 1]])
<1>1. /\ UNCHANGED <<now, stream, began>> /\ lookup.pc = "reading"
      /\ lookup' = [lookup EXCEPT !.got = got,
                              !.pc = IF Len(got) = Len(asked) THEN "merging" ELSE "reading"]
  BY DEF Read, platform
<1>2. /\ lookup.question \in Questions /\ n < Len(asked) /\ lookup.outcome = Nothing
      /\ lookup.got \in Seq(Times) /\ n \in Nat
  BY <1>1 DEF LiveInv, ReadInTurn, LiveShape
<1>3. Len(asked) \in Nat /\ n + 1 \in 1..Len(asked)
  BY <1>2, SubjectsOfQuestion
<1>4. asked[n + 1] \in LiveSubjects
  BY <1>2, <1>3, SubjectsOfQuestion
<1>5. stream[asked[n + 1]] \in Times
  BY <1>4 DEF LiveInv, LiveShape
<1>6. /\ got \in Seq(Times) /\ Len(got) = n + 1
      /\ \A i \in 1..n : got[i] = lookup.got[i]
      /\ got[n + 1] = stream[asked[n + 1]]
  BY <1>2, <1>5
<1> HIDE DEF got, asked
<1>7. /\ lookup'.pc = IF Len(got) = Len(asked) THEN "merging" ELSE "reading"
      /\ lookup'.question = lookup.question /\ lookup'.got = got /\ lookup'.outcome = Nothing
      /\ lookup' = [pc |-> lookup'.pc, question |-> lookup'.question, got |-> lookup'.got,
                  outcome |-> lookup'.outcome, asOf |-> lookup'.asOf, age |-> lookup'.age,
                  stale |-> lookup'.stale, row |-> lookup'.row]
  BY <1>1, <1>2 DEF LiveInv, LiveShape
<1>8. LiveShape' /\ NeverBack'
  BY <1>1, <1>6, <1>7 DEF LiveInv, LiveShape, NeverBack
<1>9. ASSUME NEW i \in 1..(n + 1)
      PROVE  /\ got[i] # Nothing => got[i] <= now
             /\ began[asked[i]] # Nothing => got[i] # Nothing /\ began[asked[i]] <= got[i]
  <2>1. CASE i \in 1..n
    <3>1. got[i] = lookup.got[i]
      BY <1>6, <2>1
    <3> QED BY <1>1, <2>1, <3>1 DEF LiveInv, ReadInTurn, asked
  <2>2. CASE i = n + 1
    BY <1>4, <1>6, <2>2 DEF LiveInv, NeverBack
  <2>3. i \in 1..n \/ i = n + 1
    BY <1>2
  <2> QED BY <2>1, <2>2, <2>3
<1>10. ReadInTurn'
  <2>1. Len(got) < Len(asked) \/ Len(got) = Len(asked)
    BY <1>2, <1>3, <1>6
  <2>2. /\ lookup'.pc \in {"reading", "merging"}
        /\ lookup'.pc = "reading" => Len(got) < Len(asked)
        /\ lookup'.pc = "merging" => Len(got) = Len(asked)
    BY <1>7, <2>1
  <2>3. asked = SubjectsOf[lookup'.question]
    BY <1>7 DEF asked
  <2> HIDE DEF n
  <2> QED BY <1>1, <1>2, <1>6, <1>7, <1>9, <2>2, <2>3 DEF ReadInTurn
<1>11. AsNewAsAsked' /\ StaleMeansQuiet'
  BY <1>7, LiveAssumption DEF AsNewAsAsked, StaleMeansQuiet, Answered
<1> QED BY <1>8, <1>10, <1>11 DEF LiveInv

\* What was heard: times no later than now, and none older than what a subject of the
\* question held when the call began.
LEMMA HeardSinceAsked ==
  ASSUME LiveInv, lookup.pc = "merging"
  PROVE  /\ Heard \in SUBSET Nat /\ \A t \in Heard : t <= now
         /\ \A s \in SubjectsAsked : began[s] # Nothing =>
              began[s] \in Nat /\ \E t \in Heard : began[s] <= t
<1>1. /\ lookup.question \in Questions /\ lookup.got \in Seq(Times)
      /\ Len(lookup.got) = Len(SubjectsOf[lookup.question])
  BY DEF LiveInv, LiveShape, ReadInTurn
<1>2. DOMAIN lookup.got = 1..Len(lookup.got)
  BY <1>1
<1>3. \A i \in 1..Len(lookup.got) : lookup.got[i] \in Times
  BY <1>1
<1>4. \A i \in 1..Len(lookup.got) :
        /\ lookup.got[i] # Nothing => lookup.got[i] <= now
        /\ began[SubjectsOf[lookup.question][i]] # Nothing =>
             /\ lookup.got[i] # Nothing
             /\ began[SubjectsOf[lookup.question][i]] <= lookup.got[i]
  BY DEF LiveInv, ReadInTurn
<1>5. Heard \in SUBSET Nat /\ \A t \in Heard : t <= now
  BY <1>2, <1>3, <1>4 DEF Heard, Times
<1>6. ASSUME NEW s \in SubjectsAsked, began[s] # Nothing
      PROVE  began[s] \in Nat /\ \E t \in Heard : began[s] <= t
  <2>1. PICK i \in 1..Len(lookup.got) : s = SubjectsOf[lookup.question][i]
    BY <1>1, SubjectsOfQuestion DEF SubjectsAsked
  <2>2. s \in LiveSubjects
    BY <1>1, <2>1, SubjectsOfQuestion
  <2>3. began[s] \in Nat
    BY <1>6, <2>2 DEF LiveInv, LiveShape, Times
  <2>4. lookup.got[i] # Nothing /\ began[s] <= lookup.got[i]
    BY <1>4, <1>6, <2>1
  <2>5. lookup.got[i] \in Heard
    BY <1>2, <2>4 DEF Heard
  <2> QED BY <2>3, <2>4, <2>5
<1> QED BY <1>5, <1>6

\* The newest of what was read is told, with its age.
LEMMA LiveMerge == ASSUME LiveInv, Merge PROVE LiveInv'
<1> DEFINE cyclic == lookup.question \in Cyclic
           late == now - Newest > StaleAfter
           stale == IF cyclic THEN late ELSE Nothing
<1>1. /\ UNCHANGED <<now, stream, began>> /\ lookup.pc = "merging" /\ Heard # {}
      /\ lookup' = [lookup EXCEPT !.pc = "done", !.outcome = "ok", !.asOf = Newest,
                              !.age = now - Newest, !.stale = stale]
  BY DEF Merge, platform
<1>2. /\ Heard \in SUBSET Nat /\ \A t \in Heard : t <= now
      /\ \A s \in SubjectsAsked : began[s] # Nothing =>
           began[s] \in Nat /\ \E t \in Heard : began[s] <= t
  BY <1>1, HeardSinceAsked
<1>3. now \in Nat
  BY DEF LiveInv, LiveShape
<1>4. Newest \in Heard /\ \A t \in Heard : t <= Newest
  BY <1>1, <1>2, <1>3, MaxIsNewest DEF Newest
<1>5. Newest \in Nat /\ Newest <= now /\ now - Newest \in Nat
  <2>1. Newest \in Nat /\ Newest <= now
    BY <1>2, <1>4
  <2>2. \A a, b \in Nat : b <= a => a - b \in Nat
    OBVIOUS
  <2> QED BY <1>3, <2>1, <2>2
<1> HIDE DEF stale
<1>6. /\ lookup'.pc = "done" /\ lookup'.outcome = "ok" /\ lookup'.asOf = Newest
      /\ lookup'.age = now - Newest /\ lookup'.stale = stale
      /\ lookup'.question = lookup.question /\ lookup'.got = lookup.got
      /\ lookup' = [pc |-> lookup'.pc, question |-> lookup'.question, got |-> lookup'.got,
                  outcome |-> lookup'.outcome, asOf |-> lookup'.asOf, age |-> lookup'.age,
                  stale |-> lookup'.stale, row |-> lookup'.row]
  BY <1>1 DEF LiveInv, LiveShape
<1>7. LiveShape' /\ NeverBack' /\ ReadInTurn'
  BY <1>1, <1>6 DEF LiveInv, LiveShape, NeverBack, ReadInTurn
<1>8. \A s \in SubjectsAsked : began[s] # Nothing => began[s] \in Nat /\ began[s] <= Newest
  BY <1>2, <1>4, <1>5
<1>9. SubjectsAsked' = SubjectsAsked
  BY <1>6 DEF SubjectsAsked
<1>10. AsNewAsAsked'
  <2>1. \A s \in SubjectsAsked : began[s] # Nothing => Newest >= began[s]
    BY <1>5, <1>8
  <2> QED BY <1>1, <1>6, <1>9, <2>1 DEF AsNewAsAsked
<1>11. stale = TRUE => late
  <2>1. CASE cyclic
    BY <2>1, Zenon DEF stale
  <2>2. CASE ~cyclic
    <3>1. Nothing # TRUE
      BY LiveAssumption
    <3>2. stale = Nothing
      BY <2>2 DEF stale
    <3> QED BY <3>1, <3>2
  <2> QED BY <2>1, <2>2
<1>12. ASSUME stale = TRUE, NEW s \in SubjectsAsked, began[s] # Nothing
       PROVE  Newest + (now - Newest) - began[s] > StaleAfter
  <2>1. late
    BY <1>11, <1>12, Zenon
  <2>2. began[s] \in Nat /\ began[s] <= Newest
    BY <1>8, <1>12
  <2>3. \A a, b, d \in Nat : b <= a /\ a <= now /\ now - a > d => a + (now - a) - b > d
    BY <1>3
  <2>4. StaleAfter \in Nat
    BY LiveAssumption
  <2> QED BY <1>5, <2>1, <2>2, <2>3, <2>4
<1>13. StaleMeansQuiet'
  <2>1. \A s \in SubjectsAsked : stale = TRUE /\ began[s] # Nothing =>
          Newest + (now - Newest) - began[s] > StaleAfter
    BY <1>12
  <2> QED BY <1>1, <1>6, <1>9, <2>1 DEF StaleMeansQuiet
<1> QED BY <1>7, <1>10, <1>13 DEF LiveInv

\* Nothing was heard of any subject: then the stream held nothing of them either.
LEMMA LiveFallBack == ASSUME LiveInv, FallBack PROVE LiveInv'
<1>1. PICK row \in {"row", Nothing} :
        /\ UNCHANGED <<now, stream, began>> /\ lookup.pc = "merging" /\ Heard = {}
        /\ lookup' = [lookup EXCEPT !.pc = "done", !.outcome = "unknown", !.row = row]
  BY DEF FallBack, platform
<1>2. \A s \in SubjectsAsked : began[s] = Nothing
  BY <1>1, HeardSinceAsked
<1>3. /\ lookup'.pc = "done" /\ lookup'.outcome = "unknown"
      /\ lookup'.question = lookup.question /\ lookup'.got = lookup.got
      /\ lookup' = [pc |-> lookup'.pc, question |-> lookup'.question, got |-> lookup'.got,
                  outcome |-> lookup'.outcome, asOf |-> lookup'.asOf, age |-> lookup'.age,
                  stale |-> lookup'.stale, row |-> lookup'.row]
  BY <1>1 DEF LiveInv, LiveShape
<1>4. LiveShape' /\ NeverBack' /\ ReadInTurn'
  BY <1>1, <1>3 DEF LiveInv, LiveShape, NeverBack, ReadInTurn
<1>5. SubjectsAsked' = SubjectsAsked
  BY <1>3 DEF SubjectsAsked
<1> QED BY <1>1, <1>2, <1>3, <1>4, <1>5 DEF LiveInv, AsNewAsAsked, StaleMeansQuiet, Answered

\* A call that is refused or fails says nothing of the platform.
LEMMA LiveNoAnswer ==
  ASSUME LiveInv, UNCHANGED <<now, stream, began>>, NEW outcome \in {"refused", "error"},
         lookup' = [lookup EXCEPT !.pc = "done", !.outcome = outcome]
  PROVE  LiveInv'
<1>1. /\ lookup'.pc = "done" /\ lookup'.outcome = outcome /\ lookup'.got = lookup.got
      /\ lookup' = [pc |-> lookup'.pc, question |-> lookup'.question, got |-> lookup'.got,
                  outcome |-> lookup'.outcome, asOf |-> lookup'.asOf, age |-> lookup'.age,
                  stale |-> lookup'.stale, row |-> lookup'.row]
  BY DEF LiveInv, LiveShape
<1>2. LiveShape' /\ NeverBack' /\ ReadInTurn'
  BY <1>1 DEF LiveInv, LiveShape, NeverBack, ReadInTurn
<1> QED BY <1>1, <1>2 DEF LiveInv, AsNewAsAsked, StaleMeansQuiet, Answered

\* Every step of the call, the publishers and the clock.
LEMMA LiveNextKeeps == LiveInv /\ [LiveNext]_liveVars => LiveInv'
<1> SUFFICES ASSUME LiveInv, [LiveNext]_liveVars PROVE LiveInv'
  OBVIOUS
<1>0. now \in Nat /\ stream \in [LiveSubjects -> Times]
  BY DEF LiveInv, LiveShape
<1>1. CASE Tick
  <2>1. now' \in Nat /\ now <= now' /\ UNCHANGED <<stream, lookup, began>>
    BY <1>0, <1>1 DEF Tick
  <2> QED BY <1>0, <2>1, LivePlatform
<1>2. ASSUME NEW s \in LiveSubjects, Store(s) PROVE LiveInv'
  <2>1. /\ now' = now /\ UNCHANGED <<lookup, began>> /\ now <= now
        /\ stream' = [stream EXCEPT ![s] = now]
    BY <1>0, <1>2 DEF Store
  <2>2. /\ stream' \in [LiveSubjects -> Times]
        /\ \A t \in LiveSubjects : stream'[t] = stream[t] \/ stream'[t] = now
    BY <1>0, <2>1 DEF Times
  <2>3. \A t \in LiveSubjects : stream[t] # Nothing => stream'[t] # Nothing
    BY <1>0, <2>2, LiveAssumption
  <2> QED BY <1>0, <2>1, <2>2, <2>3, LivePlatform
<1>3. ASSUME NEW q \in Refused, Refuse(q) PROVE LiveInv'
  BY <1>3, LiveNoAnswer DEF Refuse, platform
<1>4. ASSUME NEW q \in Questions, Ask(q) PROVE LiveInv'
  BY <1>4, LiveAsk
<1>5. CASE Read
  BY <1>5, LiveRead
<1>6. CASE Merge
  BY <1>6, LiveMerge
<1>7. CASE FallBack
  BY <1>7, LiveFallBack
<1>8. CASE Fail
  BY <1>8, LiveNoAnswer DEF Fail, platform
<1>9. CASE UNCHANGED liveVars
  <2>1. UNCHANGED <<now, stream, lookup, began>> /\ now <= now
    BY <1>0, <1>9 DEF liveVars
  <2> QED BY <1>0, <2>1, LivePlatform
<1> QED BY <1>1, <1>2, <1>3, <1>4, <1>5, <1>6, <1>7, <1>8, <1>9 DEF LiveNext

-----------------------------------------------------------------------------
(* Theorems *)

\* What a call has read is no older than what the stream held when it began, in every
\* reachable state.
THEOREM AlwaysReadInTurn == LiveSpec => []LiveInv
<1> QED BY LiveInitKeeps, LiveNextKeeps, PTL DEF LiveSpec

\* as_of of get_current_state is as new as anything the stream held of the question's
\* subjects when the call began, and "unknown" is told only where it held nothing.
THEOREM AnswersAreAsNewAsAsked == LiveSpec => []AsNewAsAsked
<1>1. LiveInv => AsNewAsAsked
  BY DEF LiveInv
<1> QED BY <1>1, AlwaysReadInTurn, PTL

\* stale is set only where every subject of the question had been quiet for longer
\* than the threshold.
THEOREM StaleIsNoFalseAlarm == LiveSpec => []StaleMeansQuiet
<1>1. LiveInv => StaleMeansQuiet
  BY DEF LiveInv
<1> QED BY <1>1, AlwaysReadInTurn, PTL
=============================================================================
