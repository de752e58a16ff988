----------------------------- MODULE WikiPages -----------------------------
(***************************************************************************)
(* get_wiki_page and update_wiki_page against a wiki that people edit      *)
(* meanwhile.  Both tools take two requests: the list of pages first, and  *)
(* then the page the list led to, addressed by locale and path for a read, *)
(* by id for an update.  A request may fail, and a write may be done       *)
(* without its answer reaching the bridge within the timeout.              *)
(***************************************************************************)
EXTENDS Naturals, FiniteSets

CONSTANTS
  PageIds,      \* the ids the wiki hands out
  Locales,      \* the wiki's locales
  WriteLocale,  \* MCP_WIKIJS_LOCALE
  Paths,
  Metas,        \* a description, tags and a publish flag, taken together
  Plain,        \* what a created page gets: no description, no tags, published
  Texts,        \* a title and a content, taken together
  Calls,        \* the tool calls of a behaviour; each is made once
  Reads,        \* the arguments callers read with: [path, id], either may be None
  Writes,       \* the arguments callers write with: [path, text]
  MaxEdits,     \* bound: what people do to pages in a behaviour
  None          \* no page, and an argument that was left out

Address == [locale: Locales, path: Paths]
Page == [at: Address, meta: Metas, text: Texts]

ASSUME WikiAssumption ==
  /\ WriteLocale \in Locales
  /\ Plain \in Metas
  /\ None \notin Page \cup PageIds \cup Paths
  /\ Reads \subseteq [path: Paths \cup {None}, id: PageIds \cup {None}]
  /\ Writes \subseteq [path: Paths, text: Texts]
  /\ MaxEdits \in Nat

VARIABLES
  pages, \* the wiki: a page by its id, or None
  call,  \* the calls and where each stands
  was,   \* history: every page as it stood at some moment of each open call
  edits  \* how much people have edited so far

vars == <<pages, call, was, edits>>

Idle == [pc |-> "idle", req |-> None, id |-> None, entry |-> None, text |-> None,
         wrote |-> FALSE, outcome |-> None]

Existing == {p \in PageIds : pages[p] # None}

Occupied(at) == \E p \in Existing : pages[p].at = at

\* Every page of `wiki` as it stands.
Standing(wiki) == {<<p, wiki[p]>> : p \in {q \in PageIds : wiki[q] # None}}

Init ==
  /\ pages = [p \in PageIds |-> None]
  /\ call = [c \in Calls |-> Idle]
  /\ was = [c \in Calls |-> {}]
  /\ edits = 0

-----------------------------------------------------------------------------
(* People and their editor.  The wiki has one page per locale and path. *)

\* The open calls, the one that ends with this step included, remember how every
\* page of `wiki` stands.
Remember(wiki) ==
  was' = [c \in Calls |-> IF call[c].pc = "done" \/ call'[c].pc = "idle" THEN was[c]
                          ELSE was[c] \cup Standing(wiki)]

Edited ==
  /\ edits < MaxEdits
  /\ edits' = edits + 1
  /\ UNCHANGED call
  /\ Remember(pages')

PersonCreates(p, page) ==
  /\ pages[p] = None /\ ~Occupied(page.at)
  /\ pages' = [pages EXCEPT ![p] = page]
  /\ Edited

\* A person changes the tags, the text or the place of a page.
PersonEdits(p, page) ==
  /\ pages[p] \notin {None, page}
  /\ page.at = pages[p].at \/ ~Occupied(page.at)
  /\ pages' = [pages EXCEPT ![p] = page]
  /\ Edited

PersonDeletes(p) ==
  /\ pages[p] # None
  /\ pages' = [pages EXCEPT ![p] = None]
  /\ Edited

-----------------------------------------------------------------------------
Step(c, next) == call' = [call EXCEPT ![c] = next]
End(c, outcome) == Step(c, [call[c] EXCEPT !.pc = "done", !.outcome = outcome])

\* get_wiki_page refuses anything but exactly one of path and id.
AskRead(c, q) ==
  /\ call[c].pc = "idle"
  /\ IF (q.path = None) = (q.id = None)
     THEN Step(c, [Idle EXCEPT !.pc = "done", !.outcome = "refused"])
     ELSE Step(c, [Idle EXCEPT !.pc = "finding", !.req = q])
  /\ Remember(pages)
  /\ UNCHANGED <<pages, edits>>

\* pages.list under the read key, over every locale: nothing found and a path in
\* several locales are both errors.
Find(c) ==
  /\ call[c].pc = "finding"
  /\ LET q == call[c].req
         matches == {p \in Existing : IF q.id # None THEN p = q.id ELSE pages[p].at.path = q.path}
     IN IF Cardinality(matches) = 1
        THEN \E p \in matches :
               Step(c, [call[c] EXCEPT !.pc = "source", !.id = p, !.entry = pages[p]])
        ELSE End(c, "error")
  /\ UNCHANGED <<pages, was, edits>>

\* Mutant of Source: the source view is asked in the locale writes go to.
SourceInWriteLocale(c) ==
  /\ call[c].pc = "source"
  /\ LET at == [call[c].entry.at EXCEPT !.locale = WriteLocale] IN
       \/ \E p \in Existing :
            /\ pages[p].at = at
            /\ Step(c, [call[c] EXCEPT !.pc = "done", !.text = pages[p].text, !.outcome = "ok"])
       \/ ~Occupied(at) /\ End(c, "error")
  /\ UNCHANGED <<pages, was, edits>>

\* The source view of whatever stands at the row's locale and path now.
Source(c) ==
  /\ call[c].pc = "source"
  /\ LET at == call[c].entry.at IN
       \/ \E p \in Existing :
            /\ pages[p].at = at
            /\ Step(c, [call[c] EXCEPT !.pc = "done", !.text = pages[p].text, !.outcome = "ok"])
       \/ ~Occupied(at) /\ End(c, "error")
  /\ UNCHANGED <<pages, was, edits>>

AskWrite(c, q) ==
  /\ call[c].pc = "idle"
  /\ Step(c, [Idle EXCEPT !.pc = "looking", !.req = q])
  /\ Remember(pages)
  /\ UNCHANGED <<pages, edits>>

\* Mutant of Look: the list is not narrowed to the locale writes go to.
LookEverywhere(c) ==
  /\ call[c].pc = "looking"
  /\ LET there == {p \in Existing : pages[p].at.path = call[c].req.path} IN
       \/ \E p \in there :
            Step(c, [call[c] EXCEPT !.pc = "updating", !.id = p, !.entry = pages[p]])
       \/ there = {} /\ Step(c, [call[c] EXCEPT !.pc = "creating"])
  /\ UNCHANGED <<pages, was, edits>>

\* pages.list under the write key, in the write locale: the page there, or none.
Look(c) ==
  /\ call[c].pc = "looking"
  /\ LET there == {p \in Existing : pages[p].at = [locale |-> WriteLocale, path |-> call[c].req.path]} IN
       \/ \E p \in there :
            Step(c, [call[c] EXCEPT !.pc = "updating", !.id = p, !.entry = pages[p]])
       \/ there = {} /\ Step(c, [call[c] EXCEPT !.pc = "creating"])
  /\ UNCHANGED <<pages, was, edits>>

\* The mutation is done; its answer arrives, or the call times out.
Wrote(c, p) ==
  /\ \E outcome \in {"ok", "error"} :
       Step(c, [call[c] EXCEPT !.pc = "done", !.id = p, !.wrote = TRUE, !.outcome = outcome])
  /\ Remember(pages')
  /\ UNCHANGED edits

\* Create: refused by the wiki where somebody was faster.
Create(c) ==
  /\ call[c].pc = "creating"
  /\ LET at == [locale |-> WriteLocale, path |-> call[c].req.path] IN
       \/ \E p \in PageIds :
            /\ pages[p] = None /\ ~Occupied(at)
            /\ pages' = [pages EXCEPT ![p] = [at |-> at, meta |-> Plain, text |-> call[c].req.text]]
            /\ Wrote(c, p)
       \/ Occupied(at) /\ End(c, "error") /\ UNCHANGED <<pages, was, edits>>

\* Mutant of Update: the fields an update leaves out are not carried over.
UpdateBare(c) ==
  /\ call[c].pc = "updating"
  /\ LET p == call[c].id IN
       IF pages[p] # None
       THEN /\ pages' = [pages EXCEPT ![p].text = call[c].req.text, ![p].meta = Plain]
            /\ Wrote(c, p)
       ELSE End(c, "error") /\ UNCHANGED <<pages, was, edits>>

\* Update by id: the fields the mutation would reset are those of the listed row;
\* the page's place is not among them, so it stays where it is now.
Update(c) ==
  /\ call[c].pc = "updating"
  /\ LET p == call[c].id IN
       IF pages[p] # None
       THEN /\ pages' = [pages EXCEPT ![p].text = call[c].req.text,
                                      ![p].meta = call[c].entry.meta]
            /\ Wrote(c, p)
       ELSE End(c, "error") /\ UNCHANGED <<pages, was, edits>>

\* The wiki cannot be reached, answers an error status, or refuses the mutation.
Fail(c) ==
  /\ call[c].pc \notin {"idle", "done"}
  /\ End(c, "error")
  /\ UNCHANGED <<pages, was, edits>>

-----------------------------------------------------------------------------
People ==
  \E p \in PageIds : \/ \E page \in Page : PersonCreates(p, page) \/ PersonEdits(p, page)
                     \/ PersonDeletes(p)

Ask(c) == (\E q \in Reads : AskRead(c, q)) \/ (\E q \in Writes : AskWrite(c, q))

Proceed(c) == Find(c) \/ Source(c) \/ Look(c) \/ Create(c) \/ Update(c) \/ Fail(c)

Next == People \/ \E c \in Calls : Ask(c) \/ Proceed(c)

Spec == Init /\ [][Next]_vars

-----------------------------------------------------------------------------
(* Properties *)

\* The content a read answers with stood, at some moment of the call, at the
\* place of the row it answers with: the locale comes from the page itself.
ReadStoodThere ==
  \A c \in Calls : call[c].text # None =>
    \E w \in was[c] : w[2].at = call[c].entry.at /\ w[2].text = call[c].text

\* A write lands on a page that was at the path it names, in the write locale,
\* at some moment of the call, however pages move between the two requests.
WroteWhereNamed ==
  \A c \in Calls : call[c].wrote =>
    \E w \in was[c] :
      /\ w[1] = call[c].id
      /\ w[2].at = [locale |-> WriteLocale, path |-> call[c].req.path]

\* An update never resets what people set on a page: it leaves the page with a
\* description, tags and flag the page had at some moment of the call.
MetaCarriedOver ==
  [][\A c \in Calls :
       LET p == call'[c].id IN
         ~call[c].wrote /\ call'[c].wrote /\ pages[p] # None =>
           \E w \in was[c] : w[1] = p /\ w[2].meta = pages'[p].meta]_vars

=============================================================================
