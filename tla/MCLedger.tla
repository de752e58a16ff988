------------------------------ MODULE MCLedger ------------------------------
(***************************************************************************)
(* A small ledger: two people, two runs, one episode, two calls.           *)
(***************************************************************************)
EXTENDS LedgerSeen, TLC

CONSTANTS alice, bob, r1, r2, e1, plain, appeared, c1, c2

MCPersons == {alice, bob}
MCRunIds == {r1, r2}
MCEpisodeIds == {e1}
MCKeys == {plain, appeared}
MCSubjectOf == [k \in MCKeys |-> plain]
MCSubjectKinds == {"episode", "chat"}
MCTimes == 1..2
MCCalls == {c1, c2}

NewRow(person, kind, key, born) ==
  [person |-> person, kind |-> kind, key |-> key, born |-> born, verdict |-> None]

\* Explanations of one episode by a machine, and chat turns of two people and of
\* a caller nobody is named for.
MCRows ==
  {NewRow(NoPerson, "episode", plain, 1), NewRow(NoPerson, "episode", appeared, 2),
   NewRow(alice, "chat", appeared, 1), NewRow(alice, "chat", appeared, 2),
   NewRow(bob, "chat", appeared, 2), NewRow(NoPerson, "chat", appeared, 2)}

Judge(target, verdict, episode, run, kind, key) ==
  [target |-> target, verdict |-> verdict, episode |-> episode, run |-> run,
   kind |-> kind, key |-> key]

\* Every way of naming a subject, and one of each argument error.
MCRequests ==
  {Judge("episode", "real", e1, None, None, None),
   Judge("run", "helpful", None, r1, None, None),
   Judge("run", "useless", None, None, "episode", plain),
   Judge("run", "helpful", None, None, "chat", appeared),
   Judge("run", "useless", None, None, None, None),
   Judge("run", "real", None, r1, None, None),
   Judge("run", "useless", None, r1, "episode", plain),
   Judge("run", "useless", None, None, "no_such_kind", plain),
   Judge("run", "useless", None, None, None, plain)}

Which(run, kind, key, since, unjudged, limit, proper) ==
  [run |-> run, kind |-> kind, key |-> key, since |-> since, unjudged |-> unjudged,
   limit |-> limit, proper |-> proper]

MCFilters ==
  {Which(None, None, None, 2, TRUE, 1, TRUE),
   Which(r1, None, None, 2, FALSE, 2, TRUE),
   Which(None, "episode", plain, 1, FALSE, 2, TRUE),
   Which(None, None, None, 1, FALSE, 0, TRUE),
   Which(None, None, None, 1, FALSE, 1, FALSE)}

Symmetry == Permutations(MCCalls)
=============================================================================
