-------------------------- MODULE WikiPagesProofs --------------------------
(***************************************************************************)
(* Theorems about get_wiki_page and update_wiki_page, for every wiki and   *)
(* any number of calls and of edits by people.  Both tools act on what an  *)
(* earlier request found: the inductive invariant keeps, with each call,   *)
(* that what it found stood in the wiki at some moment since it was asked. *)
(***************************************************************************)
EXTENDS WikiPages, TLAPS

CallRecord ==
  [pc : {"idle", "finding", "source", "looking", "creating", "updating", "done"},
   req : Reads \cup Writes \cup {None}, id : PageIds \cup {None}, entry : Page \cup {None},
   text : Texts \cup {None}, wrote : BOOLEAN, outcome : {None, "ok", "refused", "error"}]

TypeInv ==
  /\ pages \in [PageIds -> Page \cup {None}]
  /\ call \in [Calls -> CallRecord]
  /\ was \in [Calls -> SUBSET (PageIds \X Page)]
  /\ edits \in Nat

\* Where a write names its page.
Named(req) == [locale |-> WriteLocale, path |-> req.path]

\* An open call has seen every page that stands now; it has read or written nothing
\* before it is done; an update has in hand a row that stood where the write names it.
OpenInv(k, seen, wiki) ==
  /\ k.pc \notin {"idle", "done"} => Standing(wiki) \subseteq seen
  /\ k.pc # "done" => k.text = None /\ k.wrote = FALSE
  /\ k.pc \in {"looking", "creating", "updating"} => k.req \in Writes
  /\ k.pc = "updating" =>
       /\ k.id \in PageIds /\ k.entry \in Page
       /\ <<k.id, k.entry>> \in seen /\ k.entry.at = Named(k.req)

\* What a call answered with or wrote to stood there.
DoneInv(k, seen) ==
  /\ k.text # None => \E w \in seen : w[2].at = k.entry.at /\ w[2].text = k.text
  /\ k.wrote = TRUE => \E w \in seen : w[1] = k.id /\ w[2].at = Named(k.req)

WikiInv ==
  /\ TypeInv
  /\ \A c \in Calls : OpenInv(call[c], was[c], pages) /\ DoneInv(call[c], was[c])

-----------------------------------------------------------------------------
(* Lemmas about what a call has seen *)

\* What stands in the wiki are its pages, by id.
LEMMA StandingIsTyped ==
  ASSUME NEW wiki \in [PageIds -> Page \cup {None}]
  PROVE  /\ Standing(wiki) \subseteq PageIds \X Page
         /\ \A p \in PageIds : wiki[p] # None => <<p, wiki[p]>> \in Standing(wiki)
BY DEF Standing

\* What was said of a call stays true when it sees more, and the call itself stands.
LEMMA SeenMore ==
  ASSUME NEW k, NEW seen, NEW more, NEW wiki, NEW next, seen \subseteq more,
         OpenInv(k, seen, wiki), DoneInv(k, seen),
         k.pc \notin {"idle", "done"} => Standing(next) \subseteq more
  PROVE  OpenInv(k, more, next) /\ DoneInv(k, more)
<1>1. OpenInv(k, more, next)
  BY DEF OpenInv
<1>2. DoneInv(k, more)
  BY DEF DoneInv
<1> QED BY <1>1, <1>2

\* Remember: nothing is forgotten, and the open calls see the wiki given.
LEMMA Remembered ==
  ASSUME TypeInv, NEW wiki \in [PageIds -> Page \cup {None}],
         was' = [c \in Calls |-> IF call[c].pc = "done" \/ call'[c].pc = "idle" THEN was[c]
                                 ELSE was[c] \cup Standing(wiki)]
  PROVE  /\ was' \in [Calls -> SUBSET (PageIds \X Page)]
         /\ \A c \in Calls : was[c] \subseteq was'[c]
         /\ \A c \in Calls : call[c].pc # "done" /\ call'[c].pc # "idle" =>
              Standing(wiki) \subseteq was'[c]
<1>1. Standing(wiki) \subseteq PageIds \X Page
  BY StandingIsTyped
<1>2. \A c \in Calls : was[c] \in SUBSET (PageIds \X Page)
  BY DEF TypeInv
<1> QED BY <1>1, <1>2

-----------------------------------------------------------------------------
(* Every step keeps the invariant *)

\* Before any call nothing is found or written.
LEMMA WikiInit == Init => WikiInv
<1> SUFFICES ASSUME Init PROVE WikiInv
  OBVIOUS
<1>1. Idle \in CallRecord
  BY DEF Idle, CallRecord
<1>2. TypeInv
  BY <1>1 DEF Init, TypeInv
<1>3. ASSUME NEW c \in Calls PROVE OpenInv(call[c], was[c], pages) /\ DoneInv(call[c], was[c])
  <2>1. call[c] = Idle
    BY DEF Init
  <2>2. /\ Idle.pc = "idle" /\ Idle.text = None /\ Idle.wrote = FALSE
    BY DEF Idle
  <2> QED BY <2>1, <2>2 DEF OpenInv, DoneInv
<1> QED BY <1>2, <1>3 DEF WikiInv

\* A step of people: every open call sees the wiki as they leave it.
LEMMA WikiPeople ==
  ASSUME WikiInv, pages' \in [PageIds -> Page \cup {None}], Edited
  PROVE  WikiInv' /\ call' = call
<1>1. edits' = edits + 1 /\ call' = call /\ Remember(pages')
  BY DEF Edited
<1>2. TypeInv
  BY DEF WikiInv
<1>3. /\ was' \in [Calls -> SUBSET (PageIds \X Page)]
      /\ \A c \in Calls : was[c] \subseteq was'[c]
      /\ \A c \in Calls : call[c].pc # "done" /\ call'[c].pc # "idle" =>
           Standing(pages') \subseteq was'[c]
  <2>1. \A wiki \in [PageIds -> Page \cup {None}] :
          was' = [c \in Calls |-> IF call[c].pc = "done" \/ call'[c].pc = "idle" THEN was[c]
                                  ELSE was[c] \cup Standing(wiki)] =>
            /\ was' \in [Calls -> SUBSET (PageIds \X Page)]
            /\ \A c \in Calls : was[c] \subseteq was'[c]
            /\ \A c \in Calls : call[c].pc # "done" /\ call'[c].pc # "idle" =>
                 Standing(wiki) \subseteq was'[c]
    BY <1>2, Remembered
  <2> QED BY <1>1, <2>1 DEF Remember
<1>4. TypeInv'
  BY <1>1, <1>2, <1>3 DEF TypeInv
<1>5. ASSUME NEW c \in Calls
      PROVE  OpenInv(call[c], was'[c], pages') /\ DoneInv(call[c], was'[c])
  <2>1. OpenInv(call[c], was[c], pages) /\ DoneInv(call[c], was[c])
    BY DEF WikiInv
  <2>2. call[c].pc \notin {"idle", "done"} => Standing(pages') \subseteq was'[c]
    BY <1>1, <1>3
  <2> QED BY <1>3, <2>1, <2>2, SeenMore
<1> QED BY <1>1, <1>4, <1>5 DEF WikiInv

\* One call makes a step: the others see no less than before.
LEMMA OneCallSteps ==
  ASSUME WikiInv, NEW c \in Calls, NEW next \in CallRecord, Step(c, next),
         pages' \in [PageIds -> Page \cup {None}], edits' \in Nat,
         was' \in [Calls -> SUBSET (PageIds \X Page)],
         \A d \in Calls : was[d] \subseteq was'[d],
         \A d \in Calls : call[d].pc \notin {"idle", "done"} => Standing(pages') \subseteq was'[d],
         OpenInv(next, was'[c], pages'), DoneInv(next, was'[c])
  PROVE  /\ WikiInv' /\ call'[c] = next
         /\ \A d \in Calls : d # c => call'[d] = call[d]
<1>1. call' = [call EXCEPT ![c] = next] /\ call \in [Calls -> CallRecord]
  BY DEF Step, WikiInv, TypeInv
<1>2. /\ call' \in [Calls -> CallRecord] /\ call'[c] = next
      /\ \A d \in Calls : d # c => call'[d] = call[d]
  BY <1>1
<1>3. TypeInv'
  BY <1>2 DEF TypeInv
<1>4. ASSUME NEW d \in Calls PROVE OpenInv(call'[d], was'[d], pages') /\ DoneInv(call'[d], was'[d])
  <2>1. CASE d = c
    BY <1>2, <2>1
  <2>2. CASE d # c
    <3>1. OpenInv(call[d], was[d], pages) /\ DoneInv(call[d], was[d])
      BY DEF WikiInv
    <3>2. OpenInv(call[d], was'[d], pages') /\ DoneInv(call[d], was'[d])
      BY <3>1, SeenMore
    <3> QED BY <1>2, <2>2, <3>2
  <2> QED BY <2>1, <2>2
<1> QED BY <1>2, <1>3, <1>4 DEF WikiInv

\* A step of a call that asks or reads, and leaves the wiki alone.
LEMMA OneCallReads ==
  ASSUME WikiInv, NEW c \in Calls, NEW next \in CallRecord, Step(c, next),
         UNCHANGED <<pages, was, edits>>,
         OpenInv(next, was[c], pages), DoneInv(next, was[c])
  PROVE  /\ WikiInv' /\ call'[c] = next
         /\ \A d \in Calls : d # c => call'[d] = call[d]
<1>1. /\ pages \in [PageIds -> Page \cup {None}] /\ edits \in Nat
      /\ was \in [Calls -> SUBSET (PageIds \X Page)]
  BY DEF WikiInv, TypeInv
<1>2. \A d \in Calls : call[d].pc \notin {"idle", "done"} => Standing(pages) \subseteq was[d]
  BY DEF WikiInv, OpenInv
<1>3. /\ pages' = pages /\ was' = was /\ edits' = edits
  OBVIOUS
<1>4. OpenInv(next, was'[c], pages') /\ DoneInv(next, was'[c])
  BY <1>3
<1> QED BY <1>1, <1>2, <1>3, <1>4, OneCallSteps

\* The step itself: a call that writes now leaves the page a meta it had been seen with.
Carries(c) ==
  LET p == call'[c].id IN
    ~call[c].wrote /\ call'[c].wrote /\ pages[p] # None =>
      \E w \in was[c] : w[1] = p /\ w[2].meta = pages'[p].meta

\* Nobody else writes in a step of one call.
LEMMA OthersCarry ==
  ASSUME NEW c \in Calls, \A d \in Calls : d # c => call'[d] = call[d], Carries(c)
  PROVE  \A d \in Calls : Carries(d)
<1> TAKE d \in Calls
<1>1. CASE d = c
  BY <1>1
<1>2. CASE d # c
  BY <1>2, Zenon DEF Carries
<1> QED BY <1>1, <1>2

\* A call that is open, has written nothing yet, and ends or goes on without writing.
LEMMA OpenCall ==
  ASSUME WikiInv, NEW c \in Calls, call[c].pc # "done"
  PROVE  /\ call[c] \in CallRecord /\ call[c].text = None /\ call[c].wrote = FALSE
         /\ OpenInv(call[c], was[c], pages)
BY DEF WikiInv, TypeInv, OpenInv

\* A step that writes nothing carries nothing over.
LEMMA NothingWritten ==
  ASSUME NEW c \in Calls, NEW next, call'[c] = next, next.wrote = FALSE
  PROVE  Carries(c)
<1>1. call'[c].wrote = FALSE
  OBVIOUS
<1> QED BY <1>1 DEF Carries

\* End, with an error or a refusal.
LEMMA CallEnds ==
  ASSUME WikiInv, NEW c \in Calls, call[c].pc # "done", NEW outcome \in {"error", "refused"},
         End(c, outcome), UNCHANGED <<pages, was, edits>>
  PROVE  WikiInv' /\ \A d \in Calls : Carries(d)
<1> DEFINE next == [call[c] EXCEPT !.pc = "done", !.outcome = outcome]
<1>1. call[c] \in CallRecord /\ call[c].text = None /\ call[c].wrote = FALSE
  BY OpenCall
<1>2. next \in CallRecord /\ next.pc = "done" /\ next.text = None /\ next.wrote = FALSE
  BY <1>1 DEF CallRecord
<1>3. Step(c, next)
  BY DEF End
<1> HIDE DEF next
<1>4. OpenInv(next, was[c], pages) /\ DoneInv(next, was[c])
  BY <1>2 DEF OpenInv, DoneInv
<1>5. /\ WikiInv' /\ call'[c] = next
      /\ \A d \in Calls : d # c => call'[d] = call[d]
  BY <1>2, <1>3, <1>4, OneCallReads
<1> QED BY <1>2, <1>5, NothingWritten, OthersCarry

\* A call is asked, or refused at once.
LEMMA CallAsked ==
  ASSUME WikiInv, NEW c \in Calls, call[c].pc = "idle", NEW next \in CallRecord, Step(c, next),
         next.pc \in {"finding", "looking", "done"}, next.text = None, next.wrote = FALSE,
         next.pc = "looking" => next.req \in Writes, Remember(pages), UNCHANGED <<pages, edits>>
  PROVE  WikiInv' /\ \A d \in Calls : Carries(d)
<1>1. TypeInv /\ pages \in [PageIds -> Page \cup {None}] /\ edits \in Nat
  BY DEF WikiInv, TypeInv
<1>2. /\ was' \in [Calls -> SUBSET (PageIds \X Page)]
      /\ \A d \in Calls : was[d] \subseteq was'[d]
      /\ \A d \in Calls : call[d].pc # "done" /\ call'[d].pc # "idle" =>
           Standing(pages) \subseteq was'[d]
  BY <1>1, Remembered DEF Remember
<1>3. \A d \in Calls : call[d].pc \notin {"idle", "done"} => Standing(pages') \subseteq was'[d]
  BY <1>2 DEF WikiInv, OpenInv
<1>4. call'[c] = next
  BY <1>1 DEF Step, TypeInv
<1>5. Standing(pages') \subseteq was'[c]
  BY <1>2, <1>4
<1>6. OpenInv(next, was'[c], pages')
  BY <1>5 DEF OpenInv
<1>7. DoneInv(next, was'[c])
  BY DEF DoneInv
<1>8. pages' \in [PageIds -> Page \cup {None}] /\ edits' \in Nat
  BY <1>1
<1>9. WikiInv' /\ \A d \in Calls : d # c => call'[d] = call[d]
  BY <1>2, <1>3, <1>6, <1>7, <1>8, OneCallSteps
<1> QED BY <1>4, <1>9, NothingWritten, OthersCarry

\* A read begins with the wiki as it stands.
LEMMA WikiAskRead ==
  ASSUME WikiInv, NEW c \in Calls, NEW q \in Reads, AskRead(c, q)
  PROVE  WikiInv' /\ \A d \in Calls : Carries(d)
<1>1. call[c].pc = "idle" /\ Remember(pages) /\ UNCHANGED <<pages, edits>>
  BY DEF AskRead
<1>2. CASE (q.path = None) = (q.id = None)
  <2> DEFINE next == [Idle EXCEPT !.pc = "done", !.outcome = "refused"]
  <2>1. next \in CallRecord /\ next.pc = "done" /\ next.text = None /\ next.wrote = FALSE
    BY DEF Idle, CallRecord
  <2>2. Step(c, next)
    BY <1>2 DEF AskRead
  <2> HIDE DEF next
  <2> QED BY <1>1, <2>1, <2>2, CallAsked
<1>3. CASE (q.path = None) # (q.id = None)
  <2> DEFINE next == [Idle EXCEPT !.pc = "finding", !.req = q]
  <2>1. next \in CallRecord /\ next.pc = "finding" /\ next.text = None /\ next.wrote = FALSE
    BY DEF Idle, CallRecord
  <2>2. Step(c, next)
    BY <1>3 DEF AskRead
  <2> HIDE DEF next
  <2> QED BY <1>1, <2>1, <2>2, CallAsked
<1> QED BY <1>2, <1>3

\* A write begins with the wiki as it stands.
LEMMA WikiAskWrite ==
  ASSUME WikiInv, NEW c \in Calls, NEW q \in Writes, AskWrite(c, q)
  PROVE  WikiInv' /\ \A d \in Calls : Carries(d)
<1> DEFINE next == [Idle EXCEPT !.pc = "looking", !.req = q]
<1>1. call[c].pc = "idle" /\ Remember(pages) /\ UNCHANGED <<pages, edits>> /\ Step(c, next)
  BY DEF AskWrite
<1>2. /\ next \in CallRecord /\ next.pc = "looking" /\ next.text = None /\ next.wrote = FALSE
      /\ next.req \in Writes
  BY DEF Idle, CallRecord
<1> HIDE DEF next
<1> QED BY <1>1, <1>2, CallAsked

\* The row a read goes on with; what matters of it is checked when its text is read.
LEMMA WikiFind ==
  ASSUME WikiInv, NEW c \in Calls, Find(c)
  PROVE  WikiInv' /\ \A d \in Calls : Carries(d)
<1>1. call[c].pc = "finding" /\ UNCHANGED <<pages, was, edits>>
  BY DEF Find
<1>2. /\ call[c] \in CallRecord /\ call[c].text = None /\ call[c].wrote = FALSE
      /\ OpenInv(call[c], was[c], pages)
  BY <1>1, OpenCall
<1>3. ASSUME NEW p \in Existing,
             Step(c, [call[c] EXCEPT !.pc = "source", !.id = p, !.entry = pages[p]])
      PROVE  WikiInv' /\ \A d \in Calls : Carries(d)
  <2> DEFINE next == [call[c] EXCEPT !.pc = "source", !.id = p, !.entry = pages[p]]
  <2>1. p \in PageIds /\ pages[p] \in Page
    BY DEF Existing, WikiInv, TypeInv
  <2>2. next \in CallRecord /\ next.pc = "source" /\ next.text = None /\ next.wrote = FALSE
    BY <1>2, <2>1 DEF CallRecord
  <2>3. Step(c, next)
    BY <1>3
  <2> HIDE DEF next
  <2>4. OpenInv(next, was[c], pages) /\ DoneInv(next, was[c])
    BY <1>1, <1>2, <2>2 DEF OpenInv, DoneInv
  <2>5. /\ WikiInv' /\ call'[c] = next
        /\ \A d \in Calls : d # c => call'[d] = call[d]
    BY <1>1, <2>2, <2>3, <2>4, OneCallReads
  <2> QED BY <2>2, <2>5, NothingWritten, OthersCarry
<1>4. CASE End(c, "error")
  BY <1>1, <1>4, CallEnds
<1>5. End(c, "error") \/ \E p \in Existing :
        Step(c, [call[c] EXCEPT !.pc = "source", !.id = p, !.entry = pages[p]])
  BY DEF Find
<1> QED BY <1>3, <1>4, <1>5

\* What is read stands at the row's place now, and the call sees it there.
LEMMA WikiSource ==
  ASSUME WikiInv, NEW c \in Calls, Source(c)
  PROVE  WikiInv' /\ \A d \in Calls : Carries(d)
<1>1. call[c].pc = "source" /\ UNCHANGED <<pages, was, edits>>
  BY DEF Source
<1>2. /\ call[c] \in CallRecord /\ call[c].text = None /\ call[c].wrote = FALSE
      /\ OpenInv(call[c], was[c], pages)
  BY <1>1, OpenCall
<1>3. ASSUME NEW p \in Existing, pages[p].at = call[c].entry.at,
             Step(c, [call[c] EXCEPT !.pc = "done", !.text = pages[p].text, !.outcome = "ok"])
      PROVE  WikiInv' /\ \A d \in Calls : Carries(d)
  <2> DEFINE next == [call[c] EXCEPT !.pc = "done", !.text = pages[p].text, !.outcome = "ok"]
  <2>1. p \in PageIds /\ pages[p] \in Page /\ pages[p].text \in Texts /\ pages[p] # None
    BY DEF Existing, WikiInv, TypeInv, Page
  <2>2. /\ next \in CallRecord /\ next.pc = "done" /\ next.text = pages[p].text
        /\ next.wrote = FALSE /\ next.entry = call[c].entry
    BY <1>2, <2>1 DEF CallRecord
  <2>3. Step(c, next)
    BY <1>3
  <2> HIDE DEF next
  <2>4. <<p, pages[p]>> \in was[c]
    <3>1. <<p, pages[p]>> \in Standing(pages)
      BY <2>1 DEF Standing
    <3> QED BY <1>1, <1>2, <3>1 DEF OpenInv
  <2>5. OpenInv(next, was[c], pages)
    BY <2>2 DEF OpenInv
  <2>6. DoneInv(next, was[c])
    <3>1. <<p, pages[p]>>[2].at = next.entry.at /\ <<p, pages[p]>>[2].text = next.text
      BY <1>3, <2>2
    <3> QED BY <2>2, <2>4, <3>1 DEF DoneInv
  <2>7. /\ WikiInv' /\ call'[c] = next
        /\ \A d \in Calls : d # c => call'[d] = call[d]
    BY <1>1, <2>2, <2>3, <2>5, <2>6, OneCallReads
  <2> QED BY <2>2, <2>7, NothingWritten, OthersCarry
<1>4. CASE End(c, "error")
  BY <1>1, <1>4, CallEnds
<1>5. End(c, "error") \/ \E p \in Existing :
        /\ pages[p].at = call[c].entry.at
        /\ Step(c, [call[c] EXCEPT !.pc = "done", !.text = pages[p].text, !.outcome = "ok"])
  BY DEF Source
<1> QED BY <1>3, <1>4, <1>5

\* The page in the write locale at the path, as it stands now.
LEMMA WikiLook ==
  ASSUME WikiInv, NEW c \in Calls, Look(c)
  PROVE  WikiInv' /\ \A d \in Calls : Carries(d)
<1> DEFINE at == [locale |-> WriteLocale, path |-> call[c].req.path]
<1>1. call[c].pc = "looking" /\ UNCHANGED <<pages, was, edits>>
  BY DEF Look
<1>2. /\ call[c] \in CallRecord /\ call[c].text = None /\ call[c].wrote = FALSE
      /\ OpenInv(call[c], was[c], pages) /\ call[c].req \in Writes
  BY <1>1, OpenCall DEF OpenInv
<1>3. ASSUME NEW p \in Existing, pages[p].at = at,
             Step(c, [call[c] EXCEPT !.pc = "updating", !.id = p, !.entry = pages[p]])
      PROVE  WikiInv' /\ \A d \in Calls : Carries(d)
  <2> DEFINE next == [call[c] EXCEPT !.pc = "updating", !.id = p, !.entry = pages[p]]
  <2>1. p \in PageIds /\ pages[p] \in Page /\ pages[p] # None
    BY DEF Existing, WikiInv, TypeInv
  <2>2. /\ next \in CallRecord /\ next.pc = "updating" /\ next.text = None /\ next.wrote = FALSE
        /\ next.req = call[c].req /\ next.id = p /\ next.entry = pages[p]
    BY <1>2, <2>1 DEF CallRecord
  <2>3. Step(c, next)
    BY <1>3
  <2> HIDE DEF next
  <2>4. <<p, pages[p]>> \in was[c]
    <3>1. <<p, pages[p]>> \in Standing(pages)
      BY <2>1 DEF Standing
    <3> QED BY <1>1, <1>2, <3>1 DEF OpenInv
  <2>5. next.entry.at = Named(next.req)
    BY <1>3, <2>2 DEF Named
  <2>6. OpenInv(next, was[c], pages) /\ DoneInv(next, was[c])
    BY <1>1, <1>2, <2>1, <2>2, <2>4, <2>5 DEF OpenInv, DoneInv
  <2>7. /\ WikiInv' /\ call'[c] = next
        /\ \A d \in Calls : d # c => call'[d] = call[d]
    BY <1>1, <2>2, <2>3, <2>6, OneCallReads
  <2> QED BY <2>2, <2>7, NothingWritten, OthersCarry
<1>4. CASE Step(c, [call[c] EXCEPT !.pc = "creating"])
  <2> DEFINE next == [call[c] EXCEPT !.pc = "creating"]
  <2>1. /\ next \in CallRecord /\ next.pc = "creating" /\ next.text = None /\ next.wrote = FALSE
        /\ next.req = call[c].req
    BY <1>2 DEF CallRecord
  <2>2. Step(c, next)
    BY <1>4
  <2> HIDE DEF next
  <2>3. OpenInv(next, was[c], pages) /\ DoneInv(next, was[c])
    BY <1>1, <1>2, <2>1 DEF OpenInv, DoneInv
  <2>4. /\ WikiInv' /\ call'[c] = next
        /\ \A d \in Calls : d # c => call'[d] = call[d]
    BY <1>1, <2>1, <2>2, <2>3, OneCallReads
  <2> QED BY <2>1, <2>4, NothingWritten, OthersCarry
<1>5. \/ Step(c, [call[c] EXCEPT !.pc = "creating"])
      \/ \E p \in Existing : /\ pages[p].at = at
                             /\ Step(c, [call[c] EXCEPT !.pc = "updating", !.id = p, !.entry = pages[p]])
  BY DEF Look
<1> QED BY <1>3, <1>4, <1>5

\* A mutation is done: the page that was written has been seen where it was named.
LEMMA CallWrites ==
  ASSUME WikiInv, NEW c \in Calls, call[c].pc \in {"creating", "updating"},
         NEW p \in PageIds, NEW new \in Page, pages' = [pages EXCEPT ![p] = new], Wrote(c, p),
         \/ new.at = Named(call[c].req)
         \/ \E w \in was[c] : w[1] = p /\ w[2].at = Named(call[c].req)
  PROVE  /\ WikiInv' /\ call'[c].id = p
         /\ \A d \in Calls : d # c => call'[d] = call[d]
<1>1. call[c] \in CallRecord /\ call[c].text = None /\ call[c].wrote = FALSE
  BY OpenCall
<1>2. /\ TypeInv /\ pages \in [PageIds -> Page \cup {None}] /\ edits \in Nat
      /\ was \in [Calls -> SUBSET (PageIds \X Page)]
  BY DEF WikiInv, TypeInv
<1>3. PICK outcome \in {"ok", "error"} :
        Step(c, [call[c] EXCEPT !.pc = "done", !.id = p, !.wrote = TRUE, !.outcome = outcome])
  BY DEF Wrote
<1> DEFINE next == [call[c] EXCEPT !.pc = "done", !.id = p, !.wrote = TRUE, !.outcome = outcome]
<1>4. /\ next \in CallRecord /\ next.pc = "done" /\ next.id = p /\ next.text = None
      /\ next.req = call[c].req
  BY <1>1 DEF CallRecord
<1>5. Step(c, next)
  BY <1>3
<1> HIDE DEF next
<1>6. edits' = edits /\ Remember(pages')
  BY DEF Wrote
<1>7. /\ pages' \in [PageIds -> Page \cup {None}] /\ pages'[p] = new /\ new # None
  BY <1>2, WikiAssumption
<1>8. /\ was' \in [Calls -> SUBSET (PageIds \X Page)]
      /\ \A d \in Calls : was[d] \subseteq was'[d]
      /\ \A d \in Calls : call[d].pc # "done" /\ call'[d].pc # "idle" =>
           Standing(pages') \subseteq was'[d]
  <2>1. \A wiki \in [PageIds -> Page \cup {None}] :
          was' = [d \in Calls |-> IF call[d].pc = "done" \/ call'[d].pc = "idle" THEN was[d]
                                  ELSE was[d] \cup Standing(wiki)] =>
            /\ was' \in [Calls -> SUBSET (PageIds \X Page)]
            /\ \A d \in Calls : was[d] \subseteq was'[d]
            /\ \A d \in Calls : call[d].pc # "done" /\ call'[d].pc # "idle" =>
                 Standing(wiki) \subseteq was'[d]
    BY <1>2, Remembered
  <2> QED BY <1>6, <1>7, <2>1 DEF Remember
<1>9. /\ call'[c] = next /\ \A d \in Calls : d # c => call'[d] = call[d]
  BY <1>2, <1>5 DEF Step, TypeInv
<1>10. \A d \in Calls : call[d].pc \notin {"idle", "done"} => Standing(pages') \subseteq was'[d]
  <2> TAKE d \in Calls
  <2>1. call[d].pc \notin {"idle", "done"} => call'[d].pc # "idle"
    BY <1>4, <1>9
  <2> QED BY <1>8, <2>1
<1>11. <<p, new>> \in was'[c]
  <2>1. <<p, pages'[p]>> \in Standing(pages')
    BY <1>7 DEF Standing
  <2> QED BY <1>7, <1>10, <2>1
<1>12. \E w \in was'[c] : w[1] = next.id /\ w[2].at = Named(next.req)
  <2>1. CASE new.at = Named(call[c].req)
    <3>1. <<p, new>>[1] = p /\ <<p, new>>[2].at = Named(call[c].req)
      BY <2>1
    <3> QED BY <1>4, <1>11, <3>1
  <2>2. CASE \E w \in was[c] : w[1] = p /\ w[2].at = Named(call[c].req)
    BY <1>4, <1>8, <2>2
  <2> QED BY <2>1, <2>2
<1>13. OpenInv(next, was'[c], pages') /\ DoneInv(next, was'[c])
  BY <1>4, <1>12 DEF OpenInv, DoneInv
<1>14. edits' \in Nat
  BY <1>2, <1>6
<1>15. WikiInv'
  BY <1>4, <1>5, <1>7, <1>8, <1>10, <1>13, <1>14, OneCallSteps
<1> QED BY <1>4, <1>9, <1>15

\* A page is created where the request names it, if nobody was there first.
LEMMA WikiCreate ==
  ASSUME WikiInv, NEW c \in Calls, Create(c)
  PROVE  WikiInv' /\ \A d \in Calls : Carries(d)
<1> DEFINE at == [locale |-> WriteLocale, path |-> call[c].req.path]
           new == [at |-> at, meta |-> Plain, text |-> call[c].req.text]
<1>1. call[c].pc = "creating"
  BY DEF Create
<1>2. call[c].req \in Writes
  BY <1>1, OpenCall DEF OpenInv
<1>3. at \in Address /\ new \in Page /\ new.at = Named(call[c].req)
  BY <1>2, WikiAssumption DEF Address, Page, Named
<1>4. \/ \E p \in PageIds : pages[p] = None /\ pages' = [pages EXCEPT ![p] = new] /\ Wrote(c, p)
      \/ End(c, "error") /\ UNCHANGED <<pages, was, edits>>
  BY DEF Create
<1> HIDE DEF new
<1>5. ASSUME NEW p \in PageIds, pages[p] = None, pages' = [pages EXCEPT ![p] = new], Wrote(c, p)
      PROVE  WikiInv' /\ \A d \in Calls : Carries(d)
  <2>1. /\ WikiInv' /\ call'[c].id = p
        /\ \A d \in Calls : d # c => call'[d] = call[d]
    BY <1>1, <1>3, <1>5, CallWrites
  <2>2. Carries(c)
    BY <1>5, <2>1 DEF Carries
  <2> QED BY <2>1, <2>2, OthersCarry
<1>6. CASE End(c, "error") /\ UNCHANGED <<pages, was, edits>>
  BY <1>1, <1>6, CallEnds
<1> QED BY <1>4, <1>5, <1>6

\* The update resets nothing: the meta it sends is the listed row's, which the call has
\* seen on this page.
LEMMA WikiUpdate ==
  ASSUME WikiInv, NEW c \in Calls, Update(c)
  PROVE  WikiInv' /\ \A d \in Calls : Carries(d)
<1> DEFINE p == call[c].id
           new == [at |-> pages[p].at, meta |-> call[c].entry.meta, text |-> call[c].req.text]
<1>1. call[c].pc = "updating"
  BY DEF Update
<1>2. /\ call[c].req \in Writes /\ p \in PageIds /\ call[c].entry \in Page
      /\ <<p, call[c].entry>> \in was[c] /\ call[c].entry.at = Named(call[c].req)
  BY <1>1, OpenCall DEF OpenInv
<1>3. CASE pages[p] # None
  <2>1. /\ pages' = [pages EXCEPT ![p].text = call[c].req.text, ![p].meta = call[c].entry.meta]
        /\ Wrote(c, p)
    BY <1>3 DEF Update
  <2>2. pages[p] \in Page /\ pages \in [PageIds -> Page \cup {None}]
    BY <1>2, <1>3 DEF WikiInv, TypeInv
  <2>3. new \in Page /\ new.meta = call[c].entry.meta
    BY <1>2, <2>2, WikiAssumption DEF Page
  <2>4. pages' = [pages EXCEPT ![p] = new]
    <3>1. [[pages[p] EXCEPT !.text = call[c].req.text] EXCEPT !.meta = call[c].entry.meta] = new
      <4>1. ASSUME NEW g \in Page, NEW t, NEW m
            PROVE  [[g EXCEPT !.text = t] EXCEPT !.meta = m] = [at |-> g.at, meta |-> m, text |-> t]
        <5>1. g = [at |-> g.at, meta |-> g.meta, text |-> g.text]
          BY DEF Page
        <5>2. [g EXCEPT !.text = t] = [at |-> g.at, meta |-> g.meta, text |-> t]
          BY <5>1
        <5>3. [[at |-> g.at, meta |-> g.meta, text |-> t] EXCEPT !.meta = m]
                = [at |-> g.at, meta |-> m, text |-> t]
          OBVIOUS
        <5> QED BY <5>2, <5>3
      <4> HIDE DEF p
      <4>2. [[pages[p] EXCEPT !.text = call[c].req.text] EXCEPT !.meta = call[c].entry.meta]
              = [at |-> pages[p].at, meta |-> call[c].entry.meta, text |-> call[c].req.text]
        BY <2>2, <4>1
      <4> QED BY <4>2
    <3> DEFINE text == call[c].req.text
               meta == call[c].entry.meta
               half == [pages EXCEPT ![p].text = text]
    <3>2. pages' = [half EXCEPT ![p].meta = meta]
      BY <2>1
    <3>3. half = [q \in PageIds |-> IF q = p THEN [pages[p] EXCEPT !.text = text] ELSE pages[q]]
      BY <2>2
    <3> HIDE DEF half
    <3>4. pages' = [q \in PageIds |-> IF q = p THEN [half[p] EXCEPT !.meta = meta] ELSE half[q]]
      BY <3>2, <3>3
    <3>5. half[p] = [pages[p] EXCEPT !.text = text]
      BY <1>2, <3>3
    <3> HIDE DEF new
    <3>6. pages' = [q \in PageIds |-> IF q = p THEN new ELSE pages[q]]
      BY <3>1, <3>3, <3>4, <3>5
    <3> QED BY <2>2, <3>6
  <2> HIDE DEF new, p
  <2>5. <<p, call[c].entry>>[1] = p /\ <<p, call[c].entry>>[2] = call[c].entry
    OBVIOUS
  <2>6. \E w \in was[c] : w[1] = p /\ w[2].at = Named(call[c].req)
    BY <1>2, <2>5
  <2>7. /\ WikiInv' /\ call'[c].id = p
        /\ \A d \in Calls : d # c => call'[d] = call[d]
    BY <1>1, <1>2, <2>1, <2>3, <2>4, <2>6, CallWrites
  <2>8. pages'[p].meta = call[c].entry.meta
    BY <1>2, <2>2, <2>3, <2>4
  <2>9. Carries(c)
    BY <1>2, <2>5, <2>7, <2>8 DEF Carries
  <2> QED BY <2>7, <2>9, OthersCarry
<1>4. CASE pages[p] = None
  <2>1. End(c, "error") /\ UNCHANGED <<pages, was, edits>>
    BY <1>4 DEF Update
  <2> QED BY <1>1, <2>1, CallEnds
<1> QED BY <1>3, <1>4

\* People create, edit, move and delete pages.
LEMMA WikiPersonSteps ==
  ASSUME WikiInv, People
  PROVE  WikiInv' /\ \A d \in Calls : Carries(d)
<1>1. pages \in [PageIds -> Page \cup {None}]
  BY DEF WikiInv, TypeInv
<1>2. PICK p \in PageIds : \/ \E page \in Page : PersonCreates(p, page) \/ PersonEdits(p, page)
                           \/ PersonDeletes(p)
  BY DEF People
<1>3. /\ Edited
      /\ \E entry \in Page \cup {None} : pages' = [pages EXCEPT ![p] = entry]
  BY <1>2 DEF PersonCreates, PersonEdits, PersonDeletes
<1>4. pages' \in [PageIds -> Page \cup {None}]
  BY <1>1, <1>3
<1>5. WikiInv' /\ call' = call
  BY <1>3, <1>4, WikiPeople
<1>6. ASSUME NEW d \in Calls PROVE Carries(d)
  <2>1. call'[d] = call[d]
    BY <1>5
  <2> QED BY <2>1, Zenon DEF Carries
<1> QED BY <1>5, <1>6

\* Every step keeps the invariant, and carries over what people set.
LEMMA WikiNext ==
  ASSUME WikiInv, [Next]_vars
  PROVE  WikiInv' /\ \A d \in Calls : Carries(d)
<1>1. CASE People
  BY <1>1, WikiPersonSteps
<1>2. ASSUME NEW c \in Calls, Ask(c) PROVE WikiInv' /\ \A d \in Calls : Carries(d)
  BY <1>2, WikiAskRead, WikiAskWrite DEF Ask
<1>3. ASSUME NEW c \in Calls, Proceed(c) PROVE WikiInv' /\ \A d \in Calls : Carries(d)
  <2>1. CASE Find(c)
    BY <2>1, WikiFind
  <2>2. CASE Source(c)
    BY <2>2, WikiSource
  <2>3. CASE Look(c)
    BY <2>3, WikiLook
  <2>4. CASE Create(c)
    BY <2>4, WikiCreate
  <2>5. CASE Update(c)
    BY <2>5, WikiUpdate
  <2>6. CASE Fail(c)
    BY <2>6, CallEnds DEF Fail
  <2> QED BY <1>3, <2>1, <2>2, <2>3, <2>4, <2>5, <2>6 DEF Proceed
<1>4. CASE UNCHANGED vars
  <2>1. UNCHANGED <<pages, call, was, edits>>
    BY <1>4 DEF vars
  <2>2. WikiInv'
    BY <2>1 DEF WikiInv, TypeInv, OpenInv, DoneInv
  <2>3. ASSUME NEW d \in Calls PROVE Carries(d)
    <3>1. call'[d] = call[d]
      BY <2>1
    <3> QED BY <3>1, Zenon DEF Carries
  <2> QED BY <2>2, <2>3
<1> QED BY <1>1, <1>2, <1>3, <1>4 DEF Next

-----------------------------------------------------------------------------
(* Theorems *)

\* What a call found stood in the wiki since it was asked, in every reachable state.
THEOREM AlwaysAsFound == Spec => []WikiInv
<1>1. WikiInv /\ [Next]_vars => WikiInv'
  BY WikiNext
<1> QED BY WikiInit, <1>1, PTL DEF Spec

\* The content get_wiki_page answers with stood, since the call began, at the place of
\* the row it answers with, though people move pages between its two requests.
THEOREM ReadsStoodThere == Spec => []ReadStoodThere
<1>1. WikiInv => ReadStoodThere
  BY DEF WikiInv, DoneInv, ReadStoodThere
<1> QED BY <1>1, AlwaysAsFound, PTL

\* A write of update_wiki_page lands on a page that was, since the call began, at the
\* path it names in the write locale.
THEOREM WritesLandWhereNamed == Spec => []WroteWhereNamed
<1>1. ASSUME WikiInv PROVE WroteWhereNamed
  <2>1. SUFFICES ASSUME NEW c \in Calls, call[c].wrote
                 PROVE  \E w \in was[c] :
                          /\ w[1] = call[c].id
                          /\ w[2].at = [locale |-> WriteLocale, path |-> call[c].req.path]
    BY DEF WroteWhereNamed
  <2>2. call[c].wrote \in BOOLEAN
    BY <1>1 DEF WikiInv, TypeInv, CallRecord
  <2>3. call[c].wrote = TRUE
    BY <2>1, <2>2, Zenon
  <2> QED BY <1>1, <2>3 DEF WikiInv, DoneInv, Named
<1> QED BY <1>1, AlwaysAsFound, PTL

\* No step of an update resets the description, tags or flag of a page: it leaves those
\* the page had at some moment of the call.
THEOREM UpdatesCarryOver == Spec => MetaCarriedOver
<1>1. WikiInv /\ [Next]_vars => [\A c \in Calls : Carries(c)]_vars
  BY WikiNext
<1>2. [\A c \in Calls : Carries(c)]_vars <=>
        [\A c \in Calls :
           LET p == call'[c].id IN
             ~call[c].wrote /\ call'[c].wrote /\ pages[p] # None =>
               \E w \in was[c] : w[1] = p /\ w[2].meta = pages'[p].meta]_vars
  BY Zenon DEF Carries
<1> QED BY <1>1, <1>2, AlwaysAsFound, PTL DEF Spec, MetaCarriedOver
=============================================================================
