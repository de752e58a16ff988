----------------------------- MODULE LedgerView -----------------------------
(***************************************************************************)
(* What the ledger promises one caller, `Reader`: a ledger of which the    *)
(* reader's calls only ever meet the rows the reader may read.  There is   *)
(* no visibility condition anywhere in this specification, because there   *)
(* is nothing in its state that would have to be hidden: whatever answer   *)
(* the reader gets, it is explained by the reader's own rows and the       *)
(* machines'.  Others appear only as verdicts on machines' runs and on     *)
(* episodes; the reader's own runs change by the reader's calls alone.     *)
(***************************************************************************)
EXTENDS LedgerRows

CONSTANTS Calls, WriteEnabled, Reader

VARIABLES
  view,      \* the rows the reader may read, or None
  episodes,  \* as in Ledger: episodes belong to nobody
  mine       \* the reader's calls; a call of somebody else stays idle

vars == <<view, episodes, mine>>

Stage(c, pc) == mine[c].pc = pc

Init ==
  /\ view = [r \in RunIds |-> None]
  /\ episodes = [e \in EpisodeIds |-> None]
  /\ mine = [c \in Calls |-> Idle]

\* The world around the reader: a readable run is claimed, an episode opens,
\* somebody judges an episode or a machine's run.
Appear(r, row) ==
  /\ view[r] = None
  /\ MayRead(Reader, row)
  /\ view' = [view EXCEPT ![r] = row]
  /\ UNCHANGED <<episodes, mine>>

Open(e) ==
  /\ episodes[e] = None
  /\ episodes' = [episodes EXCEPT ![e] = "unjudged"]
  /\ UNCHANGED <<view, mine>>

OthersJudgeRun(r, v) ==
  /\ WriteEnabled
  /\ view[r] # None
  /\ view[r].person = NoPerson
  /\ view' = [view EXCEPT ![r].verdict = v]
  /\ UNCHANGED <<episodes, mine>>

OthersJudgeEpisode(e, v) ==
  /\ WriteEnabled
  /\ episodes[e] # None
  /\ episodes' = [episodes EXCEPT ![e] = v]
  /\ UNCHANGED <<view, mine>>

-----------------------------------------------------------------------------
\* The reader asks: a well-formed verdict, a listing, or what is refused at once.
Ask(c) ==
  /\ Stage(c, "idle")
  /\ \/ \E q \in Requests :
          /\ WellFormed(q)
          /\ mine' = [mine EXCEPT ![c] = [Idle EXCEPT !.pc = "resolving", !.who = Reader, !.req = q]]
     \/ \E f \in Filters :
          /\ Listable(f)
          /\ mine' = [mine EXCEPT ![c] = [Idle EXCEPT !.pc = "listing", !.who = Reader, !.req = f]]
     \/ mine' = [mine EXCEPT ![c] = [Idle EXCEPT !.pc = "done", !.who = Reader, !.outcome = "refused"]]
  /\ UNCHANGED <<view, episodes>>

\* What the request of call c names among everything the reader can see.
Candidates(c) ==
  LET q == mine[c].req IN
    IF q.target = "episode"
    THEN {e \in {q.episode} : episodes[e] # None}
    ELSE Newest(view, {r \in RunIds : view[r] # None /\ Addresses(q, Reader, r, view[r])})

Resolve(c) ==
  /\ Stage(c, "resolving")
  /\ \/ \E x \in Candidates(c) :
          mine' = [mine EXCEPT ![c].pc = "writing", ![c].found = x]
     \/ /\ Candidates(c) = {}
        /\ mine' = [mine EXCEPT ![c].pc = "done", ![c].outcome = "refused"]
  /\ UNCHANGED <<view, episodes>>

Record(c) ==
  /\ Stage(c, "writing")
  /\ WriteEnabled
  /\ LET x == mine[c].found
         v == mine[c].req.verdict
     IN IF mine[c].req.target = "run"
        THEN view[x] # None /\ view' = [view EXCEPT ![x].verdict = v] /\ UNCHANGED episodes
        ELSE episodes' = [episodes EXCEPT ![x] = v] /\ UNCHANGED view
  /\ \E outcome \in {"ok", "error"} :
       mine' = [mine EXCEPT ![c].pc = "done", ![c].outcome = outcome, ![c].wrote = TRUE]

List(c) ==
  /\ Stage(c, "listing")
  /\ LET f  == mine[c].req
         in == {r \in RunIds : view[r] # None /\ Passes(f, r, view[r])}
     IN \E shown \in SUBSET in :
          /\ IsNewestFirst(view, in, f.limit, shown)
          /\ mine' = [mine EXCEPT ![c].pc = "done", ![c].outcome = "ok", ![c].shown = shown]
  /\ UNCHANGED <<view, episodes>>

Fail(c) ==
  /\ \E pc \in {"resolving", "writing", "listing"} : Stage(c, pc)
  /\ mine' = [mine EXCEPT ![c].pc = "done", ![c].outcome = "error"]
  /\ UNCHANGED <<view, episodes>>

-----------------------------------------------------------------------------
Others ==
  \/ \E r \in RunIds, row \in Rows : Appear(r, row)
  \/ \E r \in RunIds, v \in VerdictsOn.run : OthersJudgeRun(r, v)
  \/ \E e \in EpisodeIds : Open(e)
  \/ \E e \in EpisodeIds, v \in VerdictsOn.episode : OthersJudgeEpisode(e, v)

Next ==
  \/ Others
  \/ \E c \in Calls : Ask(c) \/ Resolve(c) \/ Record(c) \/ List(c) \/ Fail(c)

Spec == Init /\ [][Next]_vars
=============================================================================
