-------------------------- MODULE KnxFanoutProofs --------------------------
(***************************************************************************)
(* Theorems about get_current_knx, for every finite catalog, every limit   *)
(* and every number of permits.  The answer is put together from two       *)
(* statements and many requests: the inductive invariant says, of each     *)
(* piece the call has at hand, what the platform held when it was read.    *)
(* What makes a datapoint an order or a status does not matter to it.      *)
(***************************************************************************)
EXTENDS KnxFanout, FunctionTheorems, FiniteSetTheorems, TLAPS

Places == {"none", "queued", "asking", "answered", "failed", "cancelled"}

Shape ==
  /\ catalog \in Catalogs
  /\ retained \in [Gas -> Values \cup {None}]
  /\ published \in 0..MaxPublished
  /\ held \in [Gas -> SUBSET (Values \cup {None})]
  /\ call.pc \in {"asked", "roles", "reading", "done"}
  /\ call.outcome \in {"ok", "refused", "error", "cancelled", None}
  /\ call = [pc |-> call.pc, room |-> call.room, onlyActive |-> call.onlyActive,
             rows |-> call.rows, roles |-> call.roles, states |-> call.states,
             outcome |-> call.outcome]
  /\ Listed \subseteq Gas
  /\ Cardinality(Listed) <= RowLimit
  /\ reads \in [Gas -> [at : Places, value : Values \cup {None}]]
  /\ permits \in 0..Concurrency
  /\ permits + Cardinality(Asking) = Concurrency

\* Before the answer there is none, and before the fan-out no task.
InTurn ==
  /\ call.pc # "done" => call.outcome = None /\ call.states = {}
  /\ call.pc = "asked" => call.rows = {}
  /\ call.pc \in {"asked", "roles"} => call.roles = {} /\ reads = [g \in Gas |-> Idle]

\* An address has one row, and what its task was told the stream held.
Told ==
  /\ \A r, s \in call.rows : r.ga = s.ga => r = s
  /\ \A g \in Gas : retained[g] \in held[g]
  /\ \A g \in Gas : reads[g].at = "answered" => reads[g].value \in held[g]

\* The rows have the names of the first statement's catalog, and each was judged by the
\* names of one that stood during the call.
OfTheCatalog ==
  /\ catalog \in stood
  /\ \A r \in call.rows : first[r.ga] # None /\ r.name = first[r.ga].name
  /\ \A q \in call.roles : \E later \in stood : q.role = RoleOf(q.name, NamesOf(later))
  /\ call.pc = "reading" => \A r \in call.rows : \E q \in call.roles : q.name = r.name

FanoutInv == Shape /\ Shown \subseteq Listed /\ InTurn /\ Told /\ OfTheCatalog
             /\ AnswerIsComplete /\ NoOrderForAState

-----------------------------------------------------------------------------
(* Lemmas about the cut and the permits *)

\* The first `limit` of some addresses are no more than `limit`.
LEMMA CutToLimit ==
  ASSUME NEW gas \in SUBSET Gas, NEW limit \in Nat
  PROVE  /\ FirstOf(gas, limit) \subseteq gas
         /\ Cardinality(FirstOf(gas, limit)) <= limit
<1> DEFINE upTo(g) == {h \in gas : h <= g}
           F == FirstOf(gas, limit)
           place == [g \in F |-> Cardinality(upTo(g))]
<1>1. gas \subseteq Nat /\ IsFiniteSet(gas)
  BY FanoutAssumption, FS_Subset
<1>2. \A g \in gas : IsFiniteSet(upTo(g)) /\ Cardinality(upTo(g)) \in Nat
  BY <1>1, FS_Subset, FS_CardinalityType
<1>3. F \subseteq gas /\ \A g \in F : Cardinality(upTo(g)) <= limit
  BY DEF FirstOf
<1>4. \A g \in gas : Cardinality(upTo(g)) # 0
  <2> TAKE g \in gas
  <2>1. g \in upTo(g)
    BY <1>1
  <2> QED BY <1>2, <2>1, FS_EmptySet
<1>5. \A g, h \in gas : Cardinality(upTo(g)) = Cardinality(upTo(h)) => g = h
  <2>1. ASSUME NEW g \in gas, NEW h \in gas, g < h
        PROVE  Cardinality(upTo(g)) # Cardinality(upTo(h))
    <3>1. upTo(g) \in SUBSET upTo(h) /\ h \in upTo(h) /\ h \notin upTo(g)
      <4>1. g \in Nat /\ h \in Nat /\ h <= h /\ ~(h <= g)
        BY <1>1, <2>1
      <4>2. \A n \in Nat : n <= g => n <= h
        BY <2>1, <4>1
      <4> QED BY <1>1, <4>1, <4>2
    <3> QED BY <1>2, <3>1, FS_Subset
  <2>2. \A g, h \in gas : g = h \/ g < h \/ h < g
    BY <1>1
  <2> QED BY <2>1, <2>2
<1> HIDE DEF F
<1>6. \A g \in F : Cardinality(upTo(g)) \in 1..limit
  BY <1>2, <1>3, <1>4
<1>7. \A g, h \in F : Cardinality(upTo(g)) = Cardinality(upTo(h)) => g = h
  BY <1>3, <1>5
<1> HIDE DEF upTo
<1>8. place \in [F -> 1..limit]
  BY <1>6
<1>9. \A g, h \in F : place[g] = place[h] => g = h
  BY <1>7
<1>10. place \in Injection(F, 1..limit)
  BY <1>8, <1>9, Fun_IsInj
<1>11. IsFiniteSet(1..limit) /\ Cardinality(1..limit) = limit
  BY FS_Interval
<1> HIDE DEF place
<1>12. Cardinality(F) <= limit
  BY <1>10, <1>11, FS_Injection
<1> QED BY <1>3, <1>12 DEF F

\* Requests are counted one by one.
LEMMA OneMoreAsking ==
  ASSUME NEW S \in SUBSET Gas, NEW g \in Gas
  PROVE  /\ Cardinality(S) \in Nat
         /\ g \notin S => Cardinality(S \cup {g}) = Cardinality(S) + 1
         /\ g \in S => Cardinality(S \ {g}) = Cardinality(S) - 1 /\ Cardinality(S) > 0
<1>1. IsFiniteSet(S)
  BY FanoutAssumption, FS_Subset
<1>2. Cardinality(S) \in Nat /\ (Cardinality(S) = 0 <=> S = {})
  BY <1>1, FS_CardinalityType, FS_EmptySet
<1>3. g \notin S => Cardinality(S \cup {g}) = Cardinality(S) + 1
  BY <1>1, FS_AddElement
<1>4. g \in S => Cardinality(S \ {g}) = Cardinality(S) - 1
  BY <1>1, FS_RemoveElement
<1>5. g \in S => Cardinality(S) > 0
  BY <1>2
<1> QED BY <1>2, <1>3, <1>4, <1>5

-----------------------------------------------------------------------------
(* Every step keeps the invariant *)

\* Before the call all permits are there and nothing is read.
LEMMA FanoutInit == Init => FanoutInv
<1> SUFFICES ASSUME Init PROVE FanoutInv
  OBVIOUS
<1>1. Asking = {} /\ Listed = {} /\ Shown = {} /\ call.rows = {} /\ call.roles = {}
      /\ call.pc = "asked" /\ call.outcome = None
  BY DEF Init, Asking, Listed, Shown, Idle
<1>2. Cardinality(Asking) = 0 /\ Cardinality(Listed) = 0
  BY <1>1, FS_EmptySet
<1>3. reads \in [Gas -> [at : Places, value : Values \cup {None}]]
  BY DEF Init, Idle, Places
<1>4. Shape
  BY <1>1, <1>2, <1>3, FanoutAssumption DEF Init, Shape, Values
<1>5. InTurn
  BY DEF Init, InTurn
<1>6. Told
  BY DEF Init, Told, Idle
<1> QED BY <1>1, <1>4, <1>5, <1>6, FanoutAssumption
        DEF FanoutInv, OfTheCatalog, AnswerIsComplete, NoOrderForAState, Answered, Init

\* A step of the platform that publishes takes nothing from what the stream held.
LEMMA FanoutPublish ==
  ASSUME FanoutInv, NEW g \in Gas, NEW value \in Values, Publish(g, value)
  PROVE  FanoutInv'
<1> USE DEF FanoutInv
<1>0. catalog' = catalog /\ call' = call /\ reads' = reads /\ permits' = permits
      /\ first' = first /\ stood' = stood
  BY DEF Publish
<1>1. Asking' = Asking /\ Listed' = Listed /\ Shown' = Shown
  BY <1>0 DEF Asking, Listed, Shown
<1>2. Shape'
  BY <1>0, <1>1, FanoutAssumption DEF Publish, Shape
<1>3. \A h \in Gas : held[h] \subseteq held'[h] /\ retained'[h] \in held'[h]
  <2> TAKE h \in Gas
  <2>1. held'[h] = IF h = g THEN held[g] \cup {value} ELSE held[h]
    BY DEF Publish, Shape
  <2>2. retained'[h] = IF h = g THEN value ELSE retained[h]
    BY DEF Publish, Shape
  <2>3. retained[h] \in held[h]
    BY DEF Told
  <2> QED BY <2>1, <2>2, <2>3
<1>4. Told'
  BY <1>0, <1>3 DEF Told
<1>5. InTurn'
  BY <1>0 DEF InTurn
<1>6. OfTheCatalog'
  BY <1>0, <1>1 DEF OfTheCatalog
<1>7. AnswerIsComplete'
  <2>1. SUFFICES ASSUME Answered
                 PROVE  /\ \A s \in call.states : s.value \in held'[s.ga]
                        /\ \A h \in Listed \ Shown :
                             \/ None \in held'[h]
                             \/ call.onlyActive /\ (held'[h] # {"on"}
                                  \/ RoleFound((CHOOSE r \in call.rows : r.ga = h).name) = "command")
    BY <1>0, <1>1 DEF AnswerIsComplete, Answered, RoleFound
  <2>2. \A s \in call.states : s.ga \in Gas /\ s.value \in held[s.ga]
    BY <2>1 DEF AnswerIsComplete, Shown, Shape
  <2>3. \A h \in Listed \ Shown : h \in Gas /\ retained[h] \in held[h]
    BY DEF Told, Shape
  <2>4. \A h \in Listed \ Shown : held[h] # {"on"} => held'[h] # {"on"}
    BY <1>3, <2>3
  <2>5. \A h \in Listed \ Shown :
          \/ None \in held[h]
          \/ call.onlyActive /\ (held[h] # {"on"}
               \/ RoleFound((CHOOSE r \in call.rows : r.ga = h).name) = "command")
    BY <2>1 DEF AnswerIsComplete
  <2> HIDE DEF FanoutInv
  <2>6. \A s \in call.states : s.value \in held'[s.ga]
    BY <1>3, <2>2
  <2> QED BY <1>3, <2>3, <2>4, <2>5, <2>6
<1>8. NoOrderForAState'
  BY <1>0, <1>1 DEF NoOrderForAState, Answered
<1> QED BY <1>1, <1>2, <1>4, <1>5, <1>6, <1>7, <1>8

\* An import adds to the catalogs of the call and takes none away.
LEMMA FanoutImport == ASSUME FanoutInv, Import PROVE FanoutInv'
<1> USE DEF FanoutInv
<1>0. /\ call' = call /\ reads' = reads /\ permits' = permits /\ first' = first
      /\ retained' = retained /\ held' = held /\ published' = published
      /\ catalog' \in Catalogs /\ stood' = stood \cup {catalog'}
  BY DEF Import
<1>1. Asking' = Asking /\ Listed' = Listed /\ Shown' = Shown
  BY <1>0 DEF Asking, Listed, Shown
<1>2. Shape' /\ Told' /\ InTurn'
  BY <1>0, <1>1 DEF Shape, Told, InTurn
<1>3. AnswerIsComplete'
  BY <1>0, <1>1 DEF AnswerIsComplete, Answered, RoleFound
<1>4. OfTheCatalog' /\ NoOrderForAState'
  BY <1>0, <1>1 DEF OfTheCatalog, NoOrderForAState, Answered
<1> QED BY <1>1, <1>2, <1>3, <1>4

\* The rows are read, selected and cut to the limit.
LEMMA FanoutReadCatalog ==
  ASSUME FanoutInv, NEW room, NEW onlyActive, NEW limit \in Limits,
         ReadCatalog(room, onlyActive, limit)
  PROVE  FanoutInv'
<1> DEFINE found == FirstOf(Matching(room), Effective(limit))
           rows == {[ga |-> g, name |-> catalog[g].name] : g \in found}
<1>1. /\ catalog' = catalog /\ retained' = retained /\ published' = published
      /\ reads' = reads /\ permits' = permits
      /\ held' = [g \in Gas |-> {retained[g]}] /\ first' = catalog /\ stood' = {catalog}
      /\ call.pc = "asked"
  BY DEF ReadCatalog
<1>2. /\ call.outcome = None /\ call.states = {} /\ call.rows = {} /\ call.roles = {}
      /\ reads = [g \in Gas |-> Idle]
  BY <1>1 DEF FanoutInv, InTurn
<1>3. Asking' = Asking
  BY <1>1 DEF Asking
<1>4. call'.states = {} /\ Shown' = {}
  BY <1>2 DEF ReadCatalog, FanoutInv, Shape, Shown
<1>5. \A g \in Gas : reads'[g].at # "answered"
  BY <1>1, <1>2 DEF Idle
<1>6. held' \in [Gas -> SUBSET (Values \cup {None})] /\ \A g \in Gas : retained'[g] \in held'[g]
  BY <1>1 DEF FanoutInv, Shape
<1>7. Matching(room) \subseteq Gas /\ \A g \in Matching(room) : catalog[g] # None
  BY DEF Matching
<1>8. CASE limit <= 0
  <2>1. call' = [call EXCEPT !.pc = "done", !.outcome = "refused"]
    BY <1>8 DEF ReadCatalog
  <2>2. /\ call'.pc = "done" /\ call'.outcome = "refused" /\ call'.rows = {}
        /\ call'.roles = call.roles
    BY <2>1, <1>2 DEF FanoutInv, Shape
  <2>3. Listed' = {}
    BY <2>2 DEF Listed
  <2>4. call' = [pc |-> call'.pc, room |-> call'.room, onlyActive |-> call'.onlyActive,
                 rows |-> call'.rows, roles |-> call'.roles, states |-> call'.states,
                 outcome |-> call'.outcome]
    BY <2>1 DEF FanoutInv, Shape
  <2>5. Cardinality(Listed') <= RowLimit
    BY <2>3, FS_EmptySet, FanoutAssumption
  <2>6. Shape'
    BY <1>1, <1>3, <1>6, <2>2, <2>3, <2>4, <2>5 DEF FanoutInv, Shape
  <2>7. InTurn' /\ Told' /\ OfTheCatalog' /\ AnswerIsComplete' /\ NoOrderForAState'
    BY <1>1, <1>2, <1>4, <1>5, <1>6, <2>2
    DEF InTurn, Told, OfTheCatalog, AnswerIsComplete, NoOrderForAState, Answered
  <2> QED BY <1>4, <2>6, <2>7 DEF FanoutInv
<1>9. CASE limit > 0
  <2>1. Effective(limit) \in Nat /\ Effective(limit) <= RowLimit
    BY <1>9, FanoutAssumption DEF Effective
  <2>2. found \subseteq Matching(room) /\ Cardinality(found) <= Effective(limit)
    BY <2>1, <1>7, CutToLimit
  <2>3. Cardinality(found) \in Nat
    BY <2>2, <1>7, FanoutAssumption, FS_Subset, FS_CardinalityType
  <2>4. Cardinality(found) <= RowLimit
    BY <2>1, <2>2, <2>3, FanoutAssumption
  <2>5. ~(limit <= 0)
    BY <1>9, FanoutAssumption
  <2>6. call' = [call EXCEPT !.pc = IF found = {} THEN "done" ELSE "roles",
                             !.outcome = IF found = {} THEN "ok" ELSE None,
                             !.room = room, !.onlyActive = onlyActive, !.rows = rows]
    BY <2>5 DEF ReadCatalog
  <2> HIDE DEF found
  <2>7. /\ call'.pc = IF found = {} THEN "done" ELSE "roles"
        /\ call'.outcome = IF found = {} THEN "ok" ELSE None
        /\ call'.rows = rows /\ call'.roles = call.roles
        /\ call' = [pc |-> call'.pc, room |-> call'.room, onlyActive |-> call'.onlyActive,
                    rows |-> call'.rows, roles |-> call'.roles, states |-> call'.states,
                    outcome |-> call'.outcome]
    BY <2>6 DEF FanoutInv, Shape
  <2>8. Listed' = found
    <3>1. \A r \in rows : r.ga \in found
      OBVIOUS
    <3>2. \A g \in found : \E r \in rows : r.ga = g
      <4> TAKE g \in found
      <4>1. [ga |-> g, name |-> catalog[g].name] \in rows
        OBVIOUS
      <4> QED BY <4>1
    <3> HIDE DEF rows
    <3> QED BY <2>7, <3>1, <3>2 DEF Listed
  <2>9. Shape'
    BY <1>1, <1>3, <1>6, <1>7, <2>2, <2>4, <2>7, <2>8 DEF FanoutInv, Shape
  <2>10. InTurn'
    BY <1>1, <1>2, <1>4, <2>7 DEF InTurn
  <2>11. Told'
    BY <1>1, <1>5, <1>6, <2>7 DEF Told
  <2>12. OfTheCatalog'
    BY <1>1, <1>2, <1>7, <2>2, <2>7 DEF OfTheCatalog
  <2>13. AnswerIsComplete' /\ NoOrderForAState'
    BY <1>4, <2>7, <2>8, FanoutAssumption
    DEF AnswerIsComplete, NoOrderForAState, Answered
  <2> QED BY <1>4, <2>9, <2>10, <2>11, <2>12, <2>13 DEF FanoutInv
<1> QED BY <1>8, <1>9, FanoutAssumption

\* A statement fails before any request is made.
LEMMA FanoutStatementFails == ASSUME FanoutInv, StatementFails PROVE FanoutInv'
<1>1. /\ UNCHANGED <<catalog, retained, published, held, first, stood, reads, permits>>
      /\ call.pc \in {"asked", "roles"}
      /\ call' = [call EXCEPT !.pc = "done", !.outcome = "error"]
  BY DEF StatementFails, platform
<1>2. /\ call'.pc = "done" /\ call'.outcome = "error" /\ call'.rows = call.rows
      /\ call'.roles = call.roles /\ call'.states = call.states
      /\ call' = [pc |-> call'.pc, room |-> call'.room, onlyActive |-> call'.onlyActive,
                  rows |-> call'.rows, roles |-> call'.roles, states |-> call'.states,
                  outcome |-> call'.outcome]
  BY <1>1 DEF FanoutInv, Shape
<1>3. Asking' = Asking /\ Listed' = Listed /\ Shown' = Shown
  BY <1>1, <1>2 DEF Asking, Listed, Shown
<1>4. Shape'
  BY <1>1, <1>2, <1>3 DEF FanoutInv, Shape
<1>5. InTurn' /\ Told'
  BY <1>1, <1>2 DEF FanoutInv, InTurn, Told
<1>6. OfTheCatalog'
  BY <1>1, <1>2, <1>3 DEF FanoutInv, OfTheCatalog
<1> QED BY <1>2, <1>3, <1>4, <1>5, <1>6
        DEF FanoutInv, AnswerIsComplete, NoOrderForAState, Answered

\* The rows are judged by the names of the catalog as it now is.
LEMMA FanoutReadRoles == ASSUME FanoutInv, ReadRoles PROVE FanoutInv'
<1> DEFINE roles == {[name |-> r.name, role |-> RoleOf(r.name, NamesOf(catalog))] : r \in call.rows}
<1>1. /\ UNCHANGED <<catalog, retained, published, held, first, stood, permits>>
      /\ call.pc = "roles"
      /\ call' = [call EXCEPT !.pc = "reading", !.roles = roles]
      /\ reads' = [g \in Gas |-> IF \E r \in call.rows : r.ga = g THEN [Idle EXCEPT !.at = "queued"]
                                                                 ELSE Idle]
  BY DEF ReadRoles, platform
<1> HIDE DEF roles
<1>2. /\ call'.pc = "reading" /\ call'.outcome = call.outcome /\ call'.rows = call.rows
      /\ call'.roles = roles /\ call'.states = call.states
      /\ call' = [pc |-> call'.pc, room |-> call'.room, onlyActive |-> call'.onlyActive,
                  rows |-> call'.rows, roles |-> call'.roles, states |-> call'.states,
                  outcome |-> call'.outcome]
  BY <1>1 DEF FanoutInv, Shape
<1>3. call.outcome = None /\ call.states = {} /\ reads = [g \in Gas |-> Idle]
  BY <1>1 DEF FanoutInv, InTurn
<1>4. /\ reads' \in [Gas -> [at : Places, value : Values \cup {None}]]
      /\ \A g \in Gas : reads'[g].at \in {"none", "queued"}
  <2>1. /\ Idle \in [at : Places, value : Values \cup {None}] /\ Idle.at = "none"
        /\ [Idle EXCEPT !.at = "queued"] \in [at : Places, value : Values \cup {None}]
        /\ [Idle EXCEPT !.at = "queued"].at = "queued"
    BY DEF Idle, Places
  <2> QED BY <1>1, <2>1
<1>5. Asking' = {} /\ Asking = {}
  BY <1>3, <1>4 DEF Asking, Idle
<1>6. Listed' = Listed /\ Shown' = Shown
  BY <1>1, <1>2 DEF Listed, Shown
<1>7. Shape'
  BY <1>1, <1>2, <1>4, <1>5, <1>6 DEF FanoutInv, Shape
<1>8. InTurn'
  BY <1>2, <1>3 DEF InTurn
<1>9. Told'
  BY <1>1, <1>2, <1>4 DEF FanoutInv, Told
<1>10. OfTheCatalog'
  <2>1. \A q \in roles : q.role = RoleOf(q.name, NamesOf(catalog))
    BY DEF roles
  <2>2. \A r \in call.rows : \E q \in roles : q.name = r.name
    <3> TAKE r \in call.rows
    <3>1. [name |-> r.name, role |-> RoleOf(r.name, NamesOf(catalog))] \in roles
      BY DEF roles
    <3> QED BY <3>1
  <2> QED BY <1>1, <1>2, <2>1, <2>2 DEF FanoutInv, OfTheCatalog
<1>11. AnswerIsComplete' /\ NoOrderForAState'
  BY <1>2, <1>3, FanoutAssumption DEF AnswerIsComplete, NoOrderForAState, Answered
<1> QED BY <1>6, <1>7, <1>8, <1>9, <1>10, <1>11 DEF FanoutInv

\* What a step that touches neither catalog nor call leaves as it was.
LEMMA CallUntouched ==
  ASSUME FanoutInv, UNCHANGED platform, call' = call
  PROVE  /\ Listed' = Listed /\ Shown' = Shown
         /\ OfTheCatalog' /\ AnswerIsComplete' /\ NoOrderForAState'
<1>1. /\ UNCHANGED <<catalog, retained, published, held, first, stood, call>>
  BY DEF platform
<1>2. Listed' = Listed /\ Shown' = Shown
  BY <1>1 DEF Listed, Shown
<1> QED BY <1>1, <1>2 DEF FanoutInv, OfTheCatalog, AnswerIsComplete, NoOrderForAState,
                          Answered, RoleFound

\* A failed or cancelled call tells of nothing.
LEMMA CallGivenUp ==
  ASSUME FanoutInv, UNCHANGED platform, call.pc = "reading", NEW outcome \in {"error", "cancelled"},
         call' = [call EXCEPT !.pc = "done", !.outcome = outcome]
  PROVE  /\ call'.pc = "done" /\ call'.outcome = outcome /\ call'.rows = call.rows
         /\ call' = [pc |-> call'.pc, room |-> call'.room, onlyActive |-> call'.onlyActive,
                     rows |-> call'.rows, roles |-> call'.roles, states |-> call'.states,
                     outcome |-> call'.outcome]
         /\ Listed' = Listed /\ Shown' = Shown
         /\ OfTheCatalog' /\ AnswerIsComplete' /\ NoOrderForAState'
<1>1. UNCHANGED <<catalog, retained, published, held, first, stood>>
  BY DEF platform
<1>2. /\ call'.pc = "done" /\ call'.outcome = outcome /\ call'.rows = call.rows
      /\ call'.roles = call.roles /\ call'.states = call.states
      /\ call' = [pc |-> call'.pc, room |-> call'.room, onlyActive |-> call'.onlyActive,
                  rows |-> call'.rows, roles |-> call'.roles, states |-> call'.states,
                  outcome |-> call'.outcome]
  BY DEF FanoutInv, Shape
<1>3. Listed' = Listed /\ Shown' = Shown
  BY <1>1, <1>2 DEF Listed, Shown
<1>4. OfTheCatalog'
  BY <1>1, <1>2, <1>3 DEF FanoutInv, OfTheCatalog
<1>5. AnswerIsComplete' /\ NoOrderForAState'
  BY <1>2 DEF AnswerIsComplete, NoOrderForAState, Answered
<1> QED BY <1>2, <1>3, <1>4, <1>5

\* A task takes a permit.
LEMMA FanoutAcquire == ASSUME FanoutInv, NEW g \in Gas, Acquire(g) PROVE FanoutInv'
<1>1. /\ UNCHANGED platform /\ call' = call /\ reads[g].at = "queued"
      /\ permits > 0 /\ permits' = permits - 1
      /\ reads' = [reads EXCEPT ![g].at = "asking"]
  BY DEF Acquire
<1>2. /\ reads' \in [Gas -> [at : Places, value : Values \cup {None}]]
      /\ \A h \in Gas : reads'[h].at = IF h = g THEN "asking" ELSE reads[h].at
      /\ \A h \in Gas : h # g => reads'[h] = reads[h]
  BY <1>1 DEF FanoutInv, Shape, Places
<1>3. Asking' = Asking \cup {g} /\ g \notin Asking /\ Asking \in SUBSET Gas
  BY <1>1, <1>2 DEF Asking
<1>4. Cardinality(Asking') = Cardinality(Asking) + 1 /\ Cardinality(Asking) \in Nat
  BY <1>3, OneMoreAsking
<1>5. /\ Listed' = Listed /\ Shown' = Shown
      /\ OfTheCatalog' /\ AnswerIsComplete' /\ NoOrderForAState'
  BY <1>1, CallUntouched
<1>6. permits' \in 0..Concurrency /\ permits' + Cardinality(Asking') = Concurrency
  <2>1. /\ permits \in Nat /\ Concurrency \in Nat /\ permits + Cardinality(Asking) = Concurrency
        /\ permits <= Concurrency
    BY FanoutAssumption DEF FanoutInv, Shape
  <2>2. \A p, n, c \in Nat :
          p + n = c => (p > 0 => p - 1 \in 0..c /\ (p - 1) + (n + 1) = c)
                       /\ (n > 0 => p + 1 \in 0..c /\ (p + 1) + (n - 1) = c)
    OBVIOUS
  <2> QED BY <1>1, <1>4, <2>1, <2>2
<1>7. Shape'
  BY <1>1, <1>2, <1>5, <1>6 DEF FanoutInv, Shape, platform
<1>8. call.pc \notin {"asked", "roles"}
  BY <1>1 DEF FanoutInv, InTurn, Idle
<1>9. InTurn' /\ Told'
  BY <1>1, <1>2, <1>8 DEF FanoutInv, InTurn, Told, platform
<1> QED BY <1>5, <1>7, <1>9 DEF FanoutInv

\* A task is told what the stream holds, and gives its permit back.
LEMMA FanoutAnswer == ASSUME FanoutInv, NEW g \in Gas, Answer(g) PROVE FanoutInv'
<1>1. /\ UNCHANGED platform /\ call' = call /\ reads[g].at = "asking"
      /\ permits' = permits + 1
      /\ reads' = [reads EXCEPT ![g] = [at |-> "answered", value |-> retained[g]]]
  BY DEF Answer
<1>2. /\ reads' \in [Gas -> [at : Places, value : Values \cup {None}]]
      /\ reads'[g].at = "answered" /\ reads'[g].value = retained[g]
      /\ \A h \in Gas : h # g => reads'[h] = reads[h]
  BY <1>1 DEF FanoutInv, Shape, Places
<1>3. Asking' = Asking \ {g} /\ g \in Asking /\ Asking \in SUBSET Gas
  BY <1>1, <1>2 DEF Asking
<1>4. Cardinality(Asking') = Cardinality(Asking) - 1 /\ Cardinality(Asking) \in Nat
      /\ Cardinality(Asking) > 0
  BY <1>3, OneMoreAsking
<1>5. /\ Listed' = Listed /\ Shown' = Shown
      /\ OfTheCatalog' /\ AnswerIsComplete' /\ NoOrderForAState'
  BY <1>1, CallUntouched
<1>6. permits' \in 0..Concurrency /\ permits' + Cardinality(Asking') = Concurrency
  <2>1. /\ permits \in Nat /\ Concurrency \in Nat /\ permits + Cardinality(Asking) = Concurrency
        /\ permits <= Concurrency
    BY FanoutAssumption DEF FanoutInv, Shape
  <2>2. \A p, n, c \in Nat :
          p + n = c => (p > 0 => p - 1 \in 0..c /\ (p - 1) + (n + 1) = c)
                       /\ (n > 0 => p + 1 \in 0..c /\ (p + 1) + (n - 1) = c)
    OBVIOUS
  <2> QED BY <1>1, <1>4, <2>1, <2>2
<1>7. Shape'
  BY <1>1, <1>2, <1>5, <1>6 DEF FanoutInv, Shape, platform
<1>8. call.pc \notin {"asked", "roles"}
  BY <1>1 DEF FanoutInv, InTurn, Idle
<1>9. InTurn' /\ Told'
  BY <1>1, <1>2, <1>8 DEF FanoutInv, InTurn, Told, platform
<1> QED BY <1>5, <1>7, <1>9 DEF FanoutInv

\* A request fails and gives its permit back.
LEMMA FanoutFail == ASSUME FanoutInv, NEW g \in Gas, Fail(g) PROVE FanoutInv'
<1>1. /\ UNCHANGED platform /\ reads[g].at = "asking"
      /\ permits' = permits + 1
      /\ reads' = [reads EXCEPT ![g].at = "failed"]
  BY DEF Fail
<1>2. /\ reads' \in [Gas -> [at : Places, value : Values \cup {None}]]
      /\ reads'[g].at = "failed"
      /\ \A h \in Gas : h # g => reads'[h] = reads[h]
  BY <1>1 DEF FanoutInv, Shape, Places
<1>3. Asking' = Asking \ {g} /\ g \in Asking /\ Asking \in SUBSET Gas
  BY <1>1, <1>2 DEF Asking
<1>4. Cardinality(Asking') = Cardinality(Asking) - 1 /\ Cardinality(Asking) \in Nat
      /\ Cardinality(Asking) > 0
  BY <1>3, OneMoreAsking
<1>5. permits' \in 0..Concurrency /\ permits' + Cardinality(Asking') = Concurrency
  <2>1. /\ permits \in Nat /\ Concurrency \in Nat /\ permits + Cardinality(Asking) = Concurrency
        /\ permits <= Concurrency
    BY FanoutAssumption DEF FanoutInv, Shape
  <2>2. \A p, n, c \in Nat :
          p + n = c => (p > 0 => p - 1 \in 0..c /\ (p - 1) + (n + 1) = c)
                       /\ (n > 0 => p + 1 \in 0..c /\ (p + 1) + (n - 1) = c)
    OBVIOUS
  <2> QED BY <1>1, <1>4, <2>1, <2>2
<1>6. call.pc \notin {"asked", "roles"}
  BY <1>1 DEF FanoutInv, InTurn, Idle
<1>7. CASE call.pc = "reading"
  <2>1. call' = [call EXCEPT !.pc = "done", !.outcome = "error"]
    BY <1>7 DEF Fail
  <2>2. /\ call'.pc = "done" /\ call'.outcome = "error" /\ call'.rows = call.rows
        /\ call' = [pc |-> call'.pc, room |-> call'.room, onlyActive |-> call'.onlyActive,
                    rows |-> call'.rows, roles |-> call'.roles, states |-> call'.states,
                    outcome |-> call'.outcome]
        /\ Listed' = Listed /\ Shown' = Shown
        /\ OfTheCatalog' /\ AnswerIsComplete' /\ NoOrderForAState'
    BY <1>1, <1>7, <2>1, CallGivenUp
  <2>3. Shape'
    BY <1>1, <1>2, <1>5, <2>2 DEF FanoutInv, Shape, platform
  <2>4. InTurn' /\ Told'
    BY <1>1, <1>2, <2>2 DEF FanoutInv, InTurn, Told, platform
  <2> QED BY <2>2, <2>3, <2>4 DEF FanoutInv
<1>8. CASE call.pc # "reading"
  <2>1. call' = call
    BY <1>8 DEF Fail
  <2>2. /\ Listed' = Listed /\ Shown' = Shown
        /\ OfTheCatalog' /\ AnswerIsComplete' /\ NoOrderForAState'
    BY <1>1, <2>1, CallUntouched
  <2>3. Shape'
    BY <1>1, <1>2, <1>5, <2>1, <2>2 DEF FanoutInv, Shape, platform
  <2>4. InTurn' /\ Told'
    BY <1>1, <1>2, <1>6, <2>1 DEF FanoutInv, InTurn, Told, platform
  <2> QED BY <2>2, <2>3, <2>4 DEF FanoutInv
<1> QED BY <1>7, <1>8

\* The call is cut off, and its tasks with it.
LEMMA FanoutCancel == ASSUME FanoutInv, Cancel PROVE FanoutInv'
<1>1. /\ UNCHANGED platform /\ call.pc = "reading" /\ permits' = Concurrency
      /\ call' = [call EXCEPT !.pc = "done", !.outcome = "cancelled"]
      /\ reads' = [g \in Gas |-> IF reads[g].at \in {"queued", "asking"}
                                 THEN [Idle EXCEPT !.at = "cancelled"] ELSE reads[g]]
  BY DEF Cancel
<1>2. /\ [Idle EXCEPT !.at = "cancelled"] \in [at : Places, value : Values \cup {None}]
      /\ [Idle EXCEPT !.at = "cancelled"].at = "cancelled"
  BY DEF Idle, Places
<1>3. /\ reads' \in [Gas -> [at : Places, value : Values \cup {None}]]
      /\ \A g \in Gas : reads'[g].at # "asking"
      /\ \A g \in Gas : reads'[g].at = "answered" => reads'[g] = reads[g]
  BY <1>1, <1>2 DEF FanoutInv, Shape
<1>4. Asking' = {} /\ Cardinality(Asking') = 0
  BY <1>3, FS_EmptySet DEF Asking
<1>5. permits' \in 0..Concurrency /\ permits' + Cardinality(Asking') = Concurrency
  BY <1>1, <1>4, FanoutAssumption
<1>6. /\ call'.pc = "done" /\ call'.outcome = "cancelled" /\ call'.rows = call.rows
      /\ call' = [pc |-> call'.pc, room |-> call'.room, onlyActive |-> call'.onlyActive,
                  rows |-> call'.rows, roles |-> call'.roles, states |-> call'.states,
                  outcome |-> call'.outcome]
      /\ Listed' = Listed /\ Shown' = Shown
      /\ OfTheCatalog' /\ AnswerIsComplete' /\ NoOrderForAState'
  BY <1>1, CallGivenUp
<1>7. Shape'
  BY <1>1, <1>3, <1>5, <1>6 DEF FanoutInv, Shape, platform
<1>8. InTurn' /\ Told'
  BY <1>1, <1>3, <1>6 DEF FanoutInv, InTurn, Told, platform
<1> QED BY <1>6, <1>7, <1>8 DEF FanoutInv

\* The answer: each state is a row's, with what its task was told, and a row without a
\* state never spoke or is not wanted.
LEMMA FanoutCollect == ASSUME FanoutInv, Collect PROVE FanoutInv'
<1> DEFINE spoken == {row \in call.rows : reads[row.ga].value # None}
           found == {[ga |-> r.ga, role |-> RoleFound(r.name), value |-> reads[r.ga].value] :
                     r \in spoken}
           states == {s \in found : call.onlyActive => s.role # "command" /\ IsOn(s.value)}
<1>1. /\ UNCHANGED platform /\ reads' = reads /\ permits' = permits
      /\ call.pc = "reading"
      /\ \A r \in call.rows : reads[r.ga].at = "answered"
      /\ call' = [call EXCEPT !.pc = "done", !.outcome = "ok", !.states = states]
  BY DEF Collect
<1>2. UNCHANGED <<catalog, retained, published, held, first, stood>>
  BY <1>1 DEF platform
<1>3. \A s \in states : \E r \in call.rows :
        /\ s.ga = r.ga /\ s.role = RoleFound(r.name) /\ s.value = reads[r.ga].value
        /\ call.onlyActive => RoleFound(r.name) # "command"
  <2> TAKE s \in states
  <2>1. PICK r \in spoken :
          s = [ga |-> r.ga, role |-> RoleFound(r.name), value |-> reads[r.ga].value]
    OBVIOUS
  <2>2. call.onlyActive => s.role # "command"
    OBVIOUS
  <2> QED BY <2>1, <2>2
<1>4. \A r \in call.rows :
        \/ reads[r.ga].value = None
        \/ call.onlyActive /\ (RoleFound(r.name) = "command" \/ ~IsOn(reads[r.ga].value))
        \/ \E s \in states : s.ga = r.ga
  <2> TAKE r \in call.rows
  <2> DEFINE s == [ga |-> r.ga, role |-> RoleFound(r.name), value |-> reads[r.ga].value]
  <2>1. s.ga = r.ga /\ s.role = RoleFound(r.name) /\ s.value = reads[r.ga].value
    OBVIOUS
  <2>2. reads[r.ga].value # None => s \in found
    OBVIOUS
  <2> HIDE DEF s, found
  <2>3. (call.onlyActive => s.role # "command" /\ IsOn(s.value)) /\ s \in found => s \in states
    OBVIOUS
  <2> QED BY <2>1, <2>2, <2>3
<1> HIDE DEF states
<1>5. /\ call'.pc = "done" /\ call'.outcome = "ok" /\ call'.rows = call.rows
      /\ call'.roles = call.roles /\ call'.states = states /\ call'.onlyActive = call.onlyActive
      /\ call' = [pc |-> call'.pc, room |-> call'.room, onlyActive |-> call'.onlyActive,
                  rows |-> call'.rows, roles |-> call'.roles, states |-> call'.states,
                  outcome |-> call'.outcome]
  BY <1>1 DEF FanoutInv, Shape
<1>6. Asking' = Asking /\ Listed' = Listed /\ Shown' = {s.ga : s \in states}
  BY <1>1, <1>2, <1>5 DEF Asking, Listed, Shown
<1>7. Shown' \subseteq Listed
  BY <1>3, <1>6 DEF Listed
<1>8. Shape'
  BY <1>1, <1>2, <1>5, <1>6 DEF FanoutInv, Shape
<1>9. InTurn' /\ Told'
  BY <1>1, <1>2, <1>5 DEF FanoutInv, InTurn, Told
<1>10. OfTheCatalog'
  BY <1>1, <1>2, <1>5, <1>6 DEF FanoutInv, OfTheCatalog
<1>11. \A r \in call.rows : r.ga \in Gas /\ reads[r.ga].value \in held[r.ga]
  BY <1>1 DEF FanoutInv, Shape, Listed, Told
<1>12. \A s \in states : s.value \in held[s.ga]
  BY <1>3, <1>11
<1>13. ASSUME NEW g \in Listed, g \notin Shown'
       PROVE  \/ None \in held[g]
              \/ call.onlyActive
                  /\ (held[g] # {"on"} \/ RoleFound((CHOOSE r \in call.rows : r.ga = g).name) = "command")
  <2>1. PICK r \in call.rows : r.ga = g
    BY DEF Listed
  <2>2. (CHOOSE q \in call.rows : q.ga = g) = r
    BY <2>1 DEF FanoutInv, Told
  <2>3. ~\E s \in states : s.ga = r.ga
    BY <1>6, <1>13, <2>1
  <2>4. reads[g].value \in held[g]
    BY <1>11, <2>1
  <2> QED BY <1>4, <2>1, <2>2, <2>3, <2>4 DEF IsOn
<1>14. AnswerIsComplete'
  BY <1>2, <1>5, <1>6, <1>12, <1>13 DEF AnswerIsComplete, RoleFound
<1>15. NoOrderForAState'
  <2>1. SUFFICES ASSUME call.onlyActive, NEW g \in Shown'
                 PROVE  /\ first[g] # None
                        /\ \E later \in stood : RoleOf(first[g].name, NamesOf(later)) # "command"
    BY <1>2, <1>5, <1>6 DEF NoOrderForAState
  <2>2. PICK r \in call.rows : g = r.ga /\ RoleFound(r.name) # "command"
    BY <1>3, <1>6, <2>1
  <2>3. \E q \in call.roles : q.name = r.name
    BY <1>1, <2>1 DEF FanoutInv, OfTheCatalog
  <2> DEFINE q == CHOOSE x \in call.roles : x.name = r.name
  <2>4. q \in call.roles /\ q.name = r.name
    BY <2>3
  <2>5. \E later \in stood : q.role = RoleOf(r.name, NamesOf(later))
    BY <2>4 DEF FanoutInv, OfTheCatalog
  <2>6. first[g] # None /\ r.name = first[g].name
    BY <2>2 DEF FanoutInv, OfTheCatalog
  <2> QED BY <2>2, <2>5, <2>6 DEF RoleFound
<1> QED BY <1>6, <1>7, <1>8, <1>9, <1>10, <1>14, <1>15 DEF FanoutInv

-----------------------------------------------------------------------------
(* Theorems *)

\* Every step keeps the invariant.
LEMMA FanoutNext == FanoutInv /\ [Next]_vars => FanoutInv'
<1> SUFFICES ASSUME FanoutInv, [Next]_vars PROVE FanoutInv'
  OBVIOUS
<1>1. ASSUME NEW g \in Gas, NEW value \in Values, Publish(g, value) PROVE FanoutInv'
  BY <1>1, FanoutPublish
<1>2. CASE Import
  BY <1>2, FanoutImport
<1>3. CASE Ask
  BY <1>3, FanoutReadCatalog DEF Ask
<1>4. CASE ReadRoles
  BY <1>4, FanoutReadRoles
<1>5. CASE StatementFails
  BY <1>5, FanoutStatementFails
<1>6. ASSUME NEW g \in Gas, Acquire(g) PROVE FanoutInv'
  BY <1>6, FanoutAcquire
<1>7. ASSUME NEW g \in Gas, Answer(g) PROVE FanoutInv'
  BY <1>7, FanoutAnswer
<1>8. ASSUME NEW g \in Gas, Fail(g) PROVE FanoutInv'
  BY <1>8, FanoutFail
<1>9. CASE Cancel
  BY <1>9, FanoutCancel
<1>10. CASE Collect
  BY <1>10, FanoutCollect
<1>11. CASE UNCHANGED vars
  <2>1. UNCHANGED platform /\ call' = call /\ reads' = reads /\ permits' = permits
    BY <1>11 DEF vars, platform
  <2>2. /\ Listed' = Listed /\ Shown' = Shown
        /\ OfTheCatalog' /\ AnswerIsComplete' /\ NoOrderForAState'
    BY <2>1, CallUntouched
  <2>3. Asking' = Asking
    BY <2>1 DEF Asking
  <2>4. Shape' /\ InTurn' /\ Told'
    BY <2>1, <2>2, <2>3 DEF FanoutInv, Shape, InTurn, Told, platform
  <2> QED BY <2>2, <2>4 DEF FanoutInv
<1> QED BY <1>1, <1>2, <1>3, <1>4, <1>5, <1>6, <1>7, <1>8, <1>9, <1>10, <1>11 DEF Next

\* The pieces a call has at hand are what the platform held when they were read, in
\* every reachable state.
THEOREM AlwaysAsRead == Spec => []FanoutInv
<1> QED BY FanoutInit, FanoutNext, PTL DEF Spec

\* The catalog's cut keeps the fan-out within the row limit, and the requests under
\* way and the permits left are always as many as the semaphore was given.
THEOREM PermitsComeBack == Spec => []TypeOK
<1>1. FanoutInv => TypeOK
  BY DEF FanoutInv, Shape, TypeOK, Places
<1> QED BY <1>1, AlwaysAsRead, PTL

\* An answer of get_current_knx tells what the stream held during the call, and
\* leaves out no address that had a message throughout.
THEOREM AnswersAreComplete == Spec => []AnswerIsComplete
<1>1. FanoutInv => AnswerIsComplete
  BY DEF FanoutInv
<1> QED BY <1>1, AlwaysAsRead, PTL

\* With only_active nothing is told that was an order, under the name the call read for
\* it, by every catalog that stood during the call: whatever the filter, wherever the limit
\* cuts and whatever is imported meanwhile.
THEOREM OrdersAreLeftOut == Spec => []NoOrderForAState
<1>1. FanoutInv => NoOrderForAState
  BY DEF FanoutInv
<1> QED BY <1>1, AlwaysAsRead, PTL
=============================================================================
