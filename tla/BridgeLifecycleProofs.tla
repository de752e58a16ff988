------------------------ MODULE BridgeLifecycleProofs ------------------------
(***************************************************************************)
(* Theorems about the bridge process, for any number of calls and threads  *)
(* and pools of any size.  The inductive invariant says where everybody    *)
(* is: who holds a connection or stands in the line of a pool is at a      *)
(* statement of that pool, once and in one place, and a thread or the      *)
(* backlog serves a call once, which waits for it.  And it says what is    *)
(* open at each step of the start and of the shutdown.                     *)
(***************************************************************************)
EXTENDS BridgeLifecycle, FiniteSetTheorems, SequenceTheorems, TLAPS

NoRepeats(s) == \A i, j \in DOMAIN s : s[i] = s[j] => i = j

\* Nobody stands in line twice, in one line or in two.
OnceInLine ==
  /\ \A p \in Pools : NoRepeats(waiting[p])
  /\ \A p, q \in Pools : p # q => ToSet(waiting[p]) \cap ToSet(waiting[q]) = {}

\* The pools: what is idle, held or in line, and how much of it.
PoolInv ==
  /\ idle \in [Pools -> Seq({"good", "broken"})]
  /\ waiting \in [Pools -> Seq(Users)]
  /\ held \in [Users -> Connections \cup {None}]
  /\ \A p \in Pools : Open(p) <= PoolMax[p]
  /\ \A p \in Pools : waiting[p] = <<>> \/ idle[p] = <<>>
  /\ \A u \in Users : held[u] # None => ~Waits(u)
  /\ OnceInLine

\* u holds a connection of pool p, or is in line for one.
At(u, p) == (held[u] # None /\ held[u].pool = p) \/ u \in ToSet(waiting[p])

\* u has a thread, or is in line for one.
HasJob(u) == u \in ToSet(backlog) \/ \E w \in Workers : threads[w] = u

\* The threads: each call has one job at most.
JobInv ==
  /\ backlog \in Seq(Calls)
  /\ threads \in [Workers -> Calls \cup {"gone", None}]
  /\ NoRepeats(backlog)
  /\ \A v, w \in Workers : threads[v] \in Calls /\ threads[v] = threads[w] => v = w
  /\ \A w \in Workers : threads[w] \notin ToSet(backlog)

\* Who is at a pool or has a job is a call at just that.
Placed ==
  \A c \in Calls : /\ \A p \in Pools : At(c, p) => Uses(c, {p})
                   /\ HasJob(c) => Uses(c, {"thread"})

\* Nobody is at a pool, in a thread, or in line for one.
Deserted == waiting = Empty /\ held = NobodyHolds /\ backlog = <<>>

\* What the first steps of the start open, and the first ones of the shutdown close.
OpenedBefore(k) == {OpenOrder[i] : i \in 1..(k - 1)} \cap Enabled
ClosedBefore(k) == UNION {ToSet(CloseOrder[i]) : i \in 1..(k - 1)}

\* The process, and what is open at each of its steps.
Staged ==
  \/ /\ phase = "starting" /\ step \in 1..10 /\ open = OpenedBefore(step)
     /\ cause = None
  \/ phase = "serving" /\ step = 1 /\ open = Enabled /\ cause = None
  \/ /\ phase = "stopping" /\ step \in 1..8 /\ open = Enabled \ ClosedBefore(step)
     /\ cause = None
  \/ /\ phase = "exited" /\ cause # None
     /\ open \subseteq Enabled
     /\ open # {} /\ "tracing" \in Enabled => "tracing" \in open

\* What a call may use.
Kinds == (Enabled \ {"tracing", "metrics"}) \cup {"thread"}

LifeInv ==
  /\ PoolInv /\ JobInv /\ Placed /\ Staged
  /\ phase # "serving" => Deserted /\ calls = NoCalls
  /\ calls \in [Calls -> Seq(Kinds)]
  /\ ready \in BOOLEAN \cup {None}

-----------------------------------------------------------------------------
(* Lines: what taking the first, joining and leaving do to one *)

\* The first leaves the line: the others stay in it, once each.
LEMMA LineServed ==
  ASSUME NEW S, NEW s \in Seq(S), s # <<>>, NoRepeats(s)
  PROVE  /\ Tail(s) \in Seq(S) /\ Head(s) \in S /\ Head(s) \in ToSet(s)
         /\ Len(Tail(s)) = Len(s) - 1
         /\ ToSet(Tail(s)) = ToSet(s) \ {Head(s)}
         /\ NoRepeats(Tail(s))
<1> DEFINE n == Len(s)
           t == Tail(s)
<1>1. /\ n \in Nat /\ n > 0 /\ DOMAIN s = 1..n /\ Head(s) = s[1] /\ s[1] \in S
      /\ t \in Seq(S) /\ Len(t) = n - 1 /\ DOMAIN t = 1..(n - 1)
      /\ \A i \in 1..(n - 1) : t[i] = s[i + 1]
  OBVIOUS
<1> HIDE DEF n, t
<1>2. \A i, j \in 1..n : s[i] = s[j] => i = j
  BY <1>1 DEF NoRepeats
<1>3. NoRepeats(t)
  BY <1>1, <1>2 DEF NoRepeats
<1>4. ToSet(t) = ToSet(s) \ {Head(s)}
  <2>1. ASSUME NEW i \in 1..(n - 1) PROVE t[i] \in ToSet(s) \ {Head(s)}
    <3>1. i + 1 \in 1..n /\ 1 \in 1..n /\ i + 1 # 1
      BY <1>1
    <3>2. s[i + 1] # s[1]
      BY <1>2, <3>1
    <3>3. s[i + 1] \in ToSet(s)
      BY <1>1, <3>1 DEF ToSet
    <3> QED BY <1>1, <3>2, <3>3
  <2>2. ASSUME NEW i \in 1..n, s[i] # Head(s) PROVE s[i] \in ToSet(t)
    <3>1. i - 1 \in 1..(n - 1) /\ t[i - 1] = s[i]
      BY <1>1, <2>2
    <3> QED BY <1>1, <3>1 DEF ToSet
  <2>3. \A x \in ToSet(t) : x \in ToSet(s) \ {Head(s)}
    BY <1>1, <2>1 DEF ToSet
  <2>4. \A x \in ToSet(s) \ {Head(s)} : x \in ToSet(t)
    BY <1>1, <2>2 DEF ToSet
  <2> QED BY <2>3, <2>4
<1>5. Head(s) \in ToSet(s)
  BY <1>1 DEF ToSet
<1> QED BY <1>1, <1>3, <1>4, <1>5 DEF n, t

\* Who is not in the line joins it, once.
LEMMA LineJoined ==
  ASSUME NEW S, NEW s \in Seq(S), NEW e \in S, e \notin ToSet(s), NoRepeats(s)
  PROVE  /\ Append(s, e) \in Seq(S) /\ ToSet(Append(s, e)) = ToSet(s) \cup {e}
         /\ NoRepeats(Append(s, e))
<1> DEFINE n == Len(s)
           t == Append(s, e)
<1>1. /\ n \in Nat /\ DOMAIN s = 1..n
      /\ t \in Seq(S) /\ Len(t) = n + 1 /\ DOMAIN t = 1..(n + 1)
      /\ \A i \in 1..n : t[i] = s[i]
      /\ t[n + 1] = e
  OBVIOUS
<1> HIDE DEF n, t
<1>2. \A i \in 1..n : s[i] # e
  BY <1>1 DEF ToSet
<1>3. ToSet(t) = ToSet(s) \cup {e}
  BY <1>1 DEF ToSet
<1>4. NoRepeats(t)
  <2>1. \A i \in 1..(n + 1) : i \in 1..n \/ i = n + 1
    BY <1>1
  <2>2. \A i, j \in 1..n : s[i] = s[j] => i = j
    BY <1>1 DEF NoRepeats
  <2> QED BY <1>1, <1>2, <2>1, <2>2 DEF NoRepeats
<1> QED BY <1>1, <1>3, <1>4 DEF t

\* Whoever leaves the line, the others stay in it, once each.
LEMMA LineLeft ==
  ASSUME NEW S, NEW s \in Seq(S), NEW e, NoRepeats(s)
  PROVE  /\ RemoveFirst(s, e) \in Seq(S)
         /\ ToSet(RemoveFirst(s, e)) = ToSet(s) \ {e}
         /\ NoRepeats(RemoveFirst(s, e))
<1> DEFINE n == Len(s)
<1>1. n \in Nat /\ n = Len(s) /\ DOMAIN s = 1..n /\ \A i \in 1..n : s[i] \in S
  OBVIOUS
<1> HIDE DEF n
<1>2. CASE ~\E i \in 1..n : s[i] = e
  BY <1>1, <1>2 DEF RemoveFirst, ToSet
<1>3. ASSUME NEW i \in 1..n, s[i] = e
      PROVE  /\ RemoveFirst(s, e) \in Seq(S)
             /\ ToSet(RemoveFirst(s, e)) = ToSet(s) \ {e}
             /\ NoRepeats(RemoveFirst(s, e))
  <2>1. \A j, k \in 1..n : s[j] = s[k] => j = k
    BY <1>1 DEF NoRepeats
  <2>2. {j \in 1..Len(s) : s[j] = e} = {i}
    BY <1>1, <1>3, <2>1
  <2>3. Min({i}) = i
    BY <1>1, <1>3 DEF Min
  <2>4. SelectInSeq(s, LAMBDA v : v = e) = i
    BY <2>2, <2>3 DEF SelectInSeq
  <2> DEFINE t == SubSeq(s, 1, i - 1) \o SubSeq(s, i + 1, n)
  <2>5. RemoveFirst(s, e) = t
    BY <1>1, <1>3, <2>4 DEF RemoveFirst, RemoveAt
  <2>6. /\ t \in Seq(S) /\ Len(t) = n - 1 /\ DOMAIN t = 1..(n - 1)
        /\ \A j \in 1..(n - 1) : t[j] = IF j < i THEN s[j] ELSE s[j + 1]
    <3>1. /\ SubSeq(s, 1, i - 1) \in Seq(S) /\ Len(SubSeq(s, 1, i - 1)) = i - 1
          /\ \A j \in 1..(i - 1) : SubSeq(s, 1, i - 1)[j] = s[j]
      <4>1. \A j \in 1..(i - 1) : s[j] \in S /\ 1 + j - 1 = j
        BY <1>1
      <4>2. 1 \in Int /\ i - 1 \in Int /\ i - 1 - 1 + 1 = i - 1 /\ (~(1 <= i - 1) => i - 1 = 0)
        BY <1>1
      <4> QED BY <4>1, <4>2, SubSeqProperties
    <3>2. /\ SubSeq(s, i + 1, n) \in Seq(S) /\ Len(SubSeq(s, i + 1, n)) = n - i
          /\ \A j \in 1..(n - i) : SubSeq(s, i + 1, n)[j] = s[i + j]
      <4>1. \A j \in (i + 1)..n : s[j] \in S
        BY <1>1
      <4>2. /\ n - (i + 1) + 1 = n - i /\ n \in Int /\ i + 1 \in Int
            /\ ~(i + 1 <= n) => n - i = 0
            /\ \A j \in 1..(n - i) : (i + 1) + j - 1 = i + j
        <5>1. i \in Nat /\ i <= n
          BY <1>1
        <5> QED BY <1>1, <5>1
      <4> QED BY <4>1, <4>2, SubSeqProperties
    <3> DEFINE a == SubSeq(s, 1, i - 1)
               b == SubSeq(s, i + 1, n)
    <3> HIDE DEF a, b
    <3>3. /\ a \in Seq(S) /\ b \in Seq(S) /\ Len(a) = i - 1 /\ Len(b) = n - i /\ t = a \o b
      BY <3>1, <3>2 DEF a, b
    <3>4. /\ t \in Seq(S) /\ Len(t) = n - 1
          /\ \A j \in 1..(n - 1) : t[j] = IF j < i THEN a[j] ELSE b[j - (i - 1)]
      <4>1. Len(a) + Len(b) = n - 1 /\ Len(a) = i - 1
            /\ \A j \in 1..(n - 1) : j <= i - 1 <=> j < i
        BY <1>1, <3>3
      <4> HIDE DEF t
      <4>2. /\ a \o b \in Seq(S) /\ Len(a \o b) = Len(a) + Len(b)
            /\ \A j \in 1..(Len(a) + Len(b)) :
                 (a \o b)[j] = IF j <= Len(a) THEN a[j] ELSE b[j - Len(a)]
        BY <3>3, ConcatProperties
      <4> QED BY <3>3, <4>1, <4>2
    <3>5. \A j \in 1..(n - 1) : j < i => a[j] = s[j]
      BY <1>1, <3>1 DEF a
    <3>6. \A j \in 1..(n - 1) : ~(j < i) => b[j - (i - 1)] = s[j + 1]
      <4>1. ASSUME NEW j \in 1..(n - 1), ~(j < i)
            PROVE  j - (i - 1) \in 1..(n - i) /\ i + (j - (i - 1)) = j + 1
        BY <1>1, <4>1
      <4> QED BY <3>2, <4>1 DEF b
    <3> HIDE DEF t
    <3> QED BY <3>4, <3>5, <3>6
  <2> HIDE DEF t
  <2>7. NoRepeats(t)
    BY <1>1, <2>1, <2>6 DEF NoRepeats
  <2>8. ASSUME NEW j \in 1..(n - 1) PROVE t[j] \in ToSet(s) \ {e}
    BY <1>1, <1>3, <2>1, <2>6 DEF ToSet
  <2>9. ASSUME NEW j \in 1..n, s[j] # e PROVE s[j] \in ToSet(t)
    <3>1. CASE j < i
      <4>1. j \in 1..(n - 1) /\ t[j] = s[j]
        BY <1>1, <2>6, <3>1
      <4> QED BY <2>6, <4>1 DEF ToSet
    <3>2. CASE j > i
      <4>1. j - 1 \in 1..(n - 1) /\ t[j - 1] = s[j]
        BY <1>1, <2>6, <3>2
      <4> QED BY <2>6, <4>1 DEF ToSet
    <3> QED BY <1>1, <1>3, <2>9, <3>1, <3>2
  <2>10. ToSet(t) = ToSet(s) \ {e}
    <3>1. \A x \in ToSet(t) : x \in ToSet(s) \ {e}
      BY <2>6, <2>8 DEF ToSet
    <3>2. \A x \in ToSet(s) \ {e} : x \in ToSet(t)
      BY <1>1, <2>9 DEF ToSet
    <3> QED BY <3>1, <3>2
  <2> QED BY <2>5, <2>6, <2>7, <2>10
<1> QED BY <1>2, <1>3

-----------------------------------------------------------------------------
(* Connections: how many of a pool are taken *)

Takers(h, p) == {u \in Users : h[u] # None /\ h[u].pool = p}
Holdings == [Users -> Connections \cup {None}]

\* Users are finitely many, so those who hold a connection can be counted.
LEMMA TakersCounted ==
  ASSUME NEW h, NEW p
  PROVE  IsFiniteSet(Takers(h, p)) /\ Cardinality(Takers(h, p)) \in Nat
<1>1. Takers(h, p) \subseteq Users
  BY DEF Takers
<1> QED BY <1>1, PoolAssumption, FS_Subset, FS_CardinalityType

\* Who takes a connection adds one to its pool, and to no other.
LEMMA OneMoreTaker ==
  ASSUME NEW h \in Holdings, NEW g \in Holdings, NEW u \in Users, NEW x \in Connections,
         h[u] = None, g[u] = x, \A v \in Users : v # u => g[v] = h[v]
  PROVE  /\ Cardinality(Takers(g, x.pool)) = Cardinality(Takers(h, x.pool)) + 1
         /\ \A p \in Pools : p # x.pool => Takers(g, p) = Takers(h, p)
<1>1. x # None
  BY PoolAssumption
<1>2. \A p : p # x.pool => Takers(g, p) = Takers(h, p)
  BY <1>1 DEF Takers
<1>3. Takers(g, x.pool) = Takers(h, x.pool) \cup {u} /\ u \notin Takers(h, x.pool)
  BY <1>1 DEF Takers
<1>4. Cardinality(Takers(g, x.pool)) = Cardinality(Takers(h, x.pool)) + 1
  BY <1>3, TakersCounted, FS_AddElement
<1> QED BY <1>2, <1>4

\* Who gives one up takes one from it.
LEMMA OneTakerLess ==
  ASSUME NEW h \in Holdings, NEW g \in Holdings, NEW u \in Users,
         h[u] # None, g[u] = None, \A v \in Users : v # u => g[v] = h[v]
  PROVE  /\ Cardinality(Takers(g, h[u].pool)) = Cardinality(Takers(h, h[u].pool)) - 1
         /\ \A p \in Pools : p # h[u].pool => Takers(g, p) = Takers(h, p)
<1>1. \A p : p # h[u].pool => Takers(g, p) = Takers(h, p)
  BY DEF Takers
<1> DEFINE S == Takers(h, h[u].pool)
<1>2. Takers(g, h[u].pool) = S \ {u} /\ u \in S /\ IsFiniteSet(S)
  BY TakersCounted DEF Takers
<1> HIDE DEF S
<1>3. Cardinality(S \ {u}) = Cardinality(S) - 1
  BY <1>2, FS_RemoveElement
<1> QED BY <1>1, <1>2, <1>3 DEF S

\* A connection that passes from hand to hand is counted once.
LEMMA HandedOver ==
  ASSUME NEW h \in Holdings, NEW g \in Holdings, NEW u \in Users, NEW v \in Users,
         h[u] # None, h[v] = None, g[u] = None, g[v] = h[u],
         \A w \in Users : w \notin {u, v} => g[w] = h[w]
  PROVE  \A p \in Pools : Cardinality(Takers(g, p)) = Cardinality(Takers(h, p))
<1> DEFINE x == h[u]
           k == [h EXCEPT ![u] = None]
<1>1. /\ x \in Connections /\ k \in Holdings /\ k[u] = None /\ k[v] = None
      /\ \A w \in Users : w # u => k[w] = h[w]
  BY DEF Holdings
<1> HIDE DEF k
<1>2. /\ Cardinality(Takers(k, x.pool)) = Cardinality(Takers(h, x.pool)) - 1
      /\ \A p \in Pools : p # x.pool => Takers(k, p) = Takers(h, p)
  BY <1>1, OneTakerLess
<1>3. \A w \in Users : w # v => g[w] = k[w]
  BY <1>1
<1> HIDE DEF x
<1>4. /\ Cardinality(Takers(g, x.pool)) = Cardinality(Takers(k, x.pool)) + 1
      /\ \A p \in Pools : p # x.pool => Takers(g, p) = Takers(k, p)
  BY <1>1, <1>3, OneMoreTaker DEF x
<1>5. Cardinality(Takers(h, x.pool)) \in Nat
  BY TakersCounted
<1>6. Cardinality(Takers(g, x.pool)) = Cardinality(Takers(h, x.pool))
  BY <1>2, <1>4, <1>5
<1> QED BY <1>2, <1>4, <1>6

\* Nobody holds anything: nothing is taken.
LEMMA NothingTaken ==
  ASSUME held = NobodyHolds, NEW p
  PROVE  Taken(p) = 0
<1>1. {u \in Users : held[u] # None /\ held[u].pool = p} = {}
  BY DEF NobodyHolds
<1> QED BY <1>1, FS_EmptySet DEF Taken

\* What the pools have, by the connections that are taken.
LEMMA OpenCounts ==
  ASSUME PoolInv, NEW p \in Pools
  PROVE  /\ Taken(p) = Cardinality(Takers(held, p)) /\ Taken(p) \in Nat
         /\ Len(idle[p]) \in Nat /\ Open(p) = Len(idle[p]) + Taken(p)
         /\ PoolMax[p] \in Nat /\ Open(p) <= PoolMax[p]
<1>1. Taken(p) = Cardinality(Takers(held, p)) /\ Taken(p) \in Nat
  BY TakersCounted DEF Taken, Takers
<1>2. idle[p] \in Seq({"good", "broken"})
  BY DEF PoolInv
<1> QED BY <1>1, <1>2, PoolAssumption DEF PoolInv, Open

-----------------------------------------------------------------------------
(* The pools after each of their operations *)

\* The pools after a step, part by part.
LEMMA PoolsAfter ==
  ASSUME idle' \in [Pools -> Seq({"good", "broken"})],
         waiting' \in [Pools -> Seq(Users)],
         held' \in Holdings,
         \A p \in Pools : Len(idle'[p]) + Cardinality(Takers(held', p)) <= PoolMax[p],
         \A p \in Pools : waiting'[p] = <<>> \/ idle'[p] = <<>>,
         \A u \in Users, p \in Pools : held'[u] # None => u \notin ToSet(waiting'[p]),
         \A p \in Pools : NoRepeats(waiting'[p]),
         \A p, q \in Pools : p # q => ToSet(waiting'[p]) \cap ToSet(waiting'[q]) = {}
  PROVE  PoolInv'
<1>1. \A p \in Pools : Open(p)' <= PoolMax[p]
  BY DEF Open, Taken, Takers
<1>2. \A u \in Users : held'[u] # None => ~Waits(u)'
  BY DEF Waits
<1>3. OnceInLine'
  BY DEF OnceInLine
<1> QED BY <1>1, <1>2, <1>3 DEF PoolInv, Holdings

\* What the pools are before a step, in the same parts.
LEMMA PoolsBefore ==
  ASSUME PoolInv
  PROVE  /\ idle \in [Pools -> Seq({"good", "broken"})]
         /\ waiting \in [Pools -> Seq(Users)]
         /\ held \in Holdings
         /\ \A p \in Pools : /\ Len(idle[p]) \in Nat /\ Cardinality(Takers(held, p)) \in Nat
                             /\ PoolMax[p] \in Nat
                             /\ Len(idle[p]) + Cardinality(Takers(held, p)) <= PoolMax[p]
         /\ \A p \in Pools : waiting[p] = <<>> \/ idle[p] = <<>>
         /\ \A u \in Users, p \in Pools : held[u] # None => u \notin ToSet(waiting[p])
         /\ \A p \in Pools : NoRepeats(waiting[p])
         /\ \A p, q \in Pools : p # q => ToSet(waiting[p]) \cap ToSet(waiting[q]) = {}
<1>1. \A p \in Pools : /\ Len(idle[p]) \in Nat /\ Cardinality(Takers(held, p)) \in Nat
                       /\ PoolMax[p] \in Nat
                       /\ Len(idle[p]) + Cardinality(Takers(held, p)) <= PoolMax[p]
  BY OpenCounts, TakersCounted
<1> QED BY <1>1 DEF PoolInv, Holdings, OnceInLine, Waits

\* pool.connection(): whoever asks holds a connection of this pool or is in its line.
LEMMA Taking ==
  ASSUME PoolInv, NEW u \in Users, NEW p \in Pools, Take(u, p)
  PROVE  /\ PoolInv'
         /\ \A v \in Users, q \in Pools : At(v, q)' => At(v, q) \/ (v = u /\ q = p)
<1>1. held[u] = None /\ \A q \in Pools : u \notin ToSet(waiting[q])
  BY DEF Take, Waits
<1>2. CASE idle[p] # <<>>
  <2> DEFINE x == [pool |-> p, conn |-> Head(idle[p])]
  <2>1. /\ held' = [held EXCEPT ![u] = x] /\ idle' = [idle EXCEPT ![p] = Tail(@)]
        /\ waiting' = waiting
    BY <1>2 DEF Take
  <2>2. /\ Head(idle[p]) \in {"good", "broken"} /\ Tail(idle[p]) \in Seq({"good", "broken"})
        /\ Len(Tail(idle[p])) = Len(idle[p]) - 1
    BY <1>2, PoolsBefore
  <2>3. x \in Connections /\ x.pool = p
    BY <2>2 DEF Connections
  <2> HIDE DEF x
  <2>4. /\ held' \in Holdings
        /\ Cardinality(Takers(held', p)) = Cardinality(Takers(held, p)) + 1
        /\ \A q \in Pools : q # p => Takers(held', q) = Takers(held, q)
    <3>1. held \in Holdings
      BY PoolsBefore
    <3>2. held' \in Holdings /\ held'[u] = x /\ \A v \in Users : v # u => held'[v] = held[v]
      BY <2>1, <2>3, <3>1 DEF Holdings
    <3> QED BY <1>1, <2>3, <3>1, <3>2, OneMoreTaker
  <2>5. /\ idle' \in [Pools -> Seq({"good", "broken"})]
        /\ Len(idle'[p]) = Len(idle[p]) - 1
        /\ \A q \in Pools : q # p => idle'[q] = idle[q]
    BY <2>1, <2>2, PoolsBefore
  <2>6. \A q \in Pools : Len(idle'[q]) + Cardinality(Takers(held', q)) <= PoolMax[q]
    <3> TAKE q \in Pools
    <3>1. CASE q = p
      BY <2>4, <2>5, <3>1, PoolsBefore
    <3>2. CASE q # p
      BY <2>4, <2>5, <3>2, PoolsBefore
    <3> QED BY <3>1, <3>2
  <2>7. waiting[p] = <<>>
    BY <1>2, PoolsBefore
  <2>8. \A v \in Users, q \in Pools : held'[v] # None => v \notin ToSet(waiting'[q])
    BY <1>1, <2>1, PoolsBefore DEF Holdings
  <2>9. \A q \in Pools : waiting'[q] = <<>> \/ idle'[q] = <<>>
    BY <2>1, <2>5, <2>7, PoolsBefore
  <2>10. PoolInv'
    BY <2>1, <2>4, <2>5, <2>6, <2>8, <2>9, PoolsBefore, PoolsAfter
  <2>11. \A v \in Users, q \in Pools : At(v, q)' => At(v, q) \/ (v = u /\ q = p)
    BY <2>1, <2>3, PoolsBefore DEF At, Holdings
  <2> QED BY <2>10, <2>11
<1>3. CASE idle[p] = <<>>
  <2>1. waiting' = [waiting EXCEPT ![p] = Append(@, u)] /\ UNCHANGED <<idle, held>>
    BY <1>3 DEF Take
  <2>2. /\ Append(waiting[p], u) \in Seq(Users)
        /\ ToSet(Append(waiting[p], u)) = ToSet(waiting[p]) \cup {u}
        /\ NoRepeats(Append(waiting[p], u))
    BY <1>1, PoolsBefore, LineJoined
  <2> DEFINE line == Append(waiting[p], u)
  <2> HIDE DEF line
  <2>3. /\ waiting' = [waiting EXCEPT ![p] = line]
        /\ line \in Seq(Users) /\ ToSet(line) = ToSet(waiting[p]) \cup {u} /\ NoRepeats(line)
    BY <2>1, <2>2, PoolsBefore DEF line
  <2>4. /\ waiting' \in [Pools -> Seq(Users)] /\ waiting'[p] = line
        /\ \A q \in Pools : q # p => waiting'[q] = waiting[q]
    BY <2>3, PoolsBefore
  <2>5. \A q \in Pools : NoRepeats(waiting'[q])
    BY <2>3, <2>4, PoolsBefore
  <2>6. \A q, r \in Pools : q # r => ToSet(waiting'[q]) \cap ToSet(waiting'[r]) = {}
    BY <1>1, <2>3, <2>4, PoolsBefore
  <2>7. \A v \in Users, q \in Pools : held'[v] # None => v \notin ToSet(waiting'[q])
    BY <1>1, <2>1, <2>3, <2>4, PoolsBefore
  <2>8. \A q \in Pools : waiting'[q] = <<>> \/ idle'[q] = <<>>
    BY <1>3, <2>1, <2>4, PoolsBefore
  <2>9. \A q \in Pools : Len(idle'[q]) + Cardinality(Takers(held', q)) <= PoolMax[q]
    BY <2>1, PoolsBefore
  <2>10. PoolInv'
    BY <2>1, <2>4, <2>5, <2>6, <2>7, <2>8, <2>9, PoolsBefore, PoolsAfter
  <2>11. \A v \in Users, q \in Pools : At(v, q)' => At(v, q) \/ (v = u /\ q = p)
    BY <2>1, <2>3, <2>4 DEF At
  <2> QED BY <2>10, <2>11
<1> QED BY <1>2, <1>3

\* The first in line has nothing yet, stands in no other line, and then in none.
LEMMA FirstServed ==
  ASSUME PoolInv, NEW p \in Pools, waiting[p] # <<>>,
         waiting' = [waiting EXCEPT ![p] = Tail(@)]
  PROVE  /\ Head(waiting[p]) \in Users /\ held[Head(waiting[p])] = None
         /\ Head(waiting[p]) \in ToSet(waiting[p])
         /\ idle[p] = <<>>
         /\ waiting' \in [Pools -> Seq(Users)]
         /\ \A q \in Pools : /\ ToSet(waiting'[q]) = ToSet(waiting[q]) \ {Head(waiting[p])}
                             /\ NoRepeats(waiting'[q])
                             /\ waiting[q] = <<>> => waiting'[q] = <<>>
         /\ \A q, r \in Pools : q # r => ToSet(waiting'[q]) \cap ToSet(waiting'[r]) = {}
<1> DEFINE line == waiting[p]
           v == Head(line)
<1>1. line \in Seq(Users) /\ line # <<>> /\ NoRepeats(line) /\ idle[p] = <<>>
  BY PoolsBefore
<1>2. waiting' = [waiting EXCEPT ![p] = Tail(line)]
  OBVIOUS
<1> HIDE DEF line
<1>3. /\ Tail(line) \in Seq(Users) /\ v \in Users /\ v \in ToSet(line)
      /\ ToSet(Tail(line)) = ToSet(line) \ {v}
      /\ NoRepeats(Tail(line))
  BY <1>1, LineServed
<1> HIDE DEF v
<1>4. held[v] = None
  BY <1>3, PoolsBefore DEF line
<1>5. /\ waiting' \in [Pools -> Seq(Users)] /\ waiting'[p] = Tail(line)
      /\ \A q \in Pools : q # p => waiting'[q] = waiting[q]
  BY <1>2, <1>3, PoolsBefore
<1>6. \A q \in Pools : q # p => v \notin ToSet(waiting[q])
  BY <1>3, PoolsBefore DEF line
<1>7. \A q \in Pools : /\ ToSet(waiting'[q]) = ToSet(waiting[q]) \ {v}
                       /\ NoRepeats(waiting'[q])
                       /\ waiting[q] = <<>> => waiting'[q] = <<>>
  <2> TAKE q \in Pools
  <2>1. CASE q = p
    BY <1>1, <1>3, <1>5, <2>1 DEF line
  <2>2. CASE q # p
    BY <1>5, <1>6, <2>2, PoolsBefore
  <2> QED BY <2>1, <2>2
<1>8. \A q, r \in Pools : q # r => ToSet(waiting'[q]) \cap ToSet(waiting'[r]) = {}
  BY <1>7, PoolsBefore
<1> QED BY <1>1, <1>3, <1>4, <1>5, <1>7, <1>8 DEF line, v

\* The end of the block: whoever held the connection is at no pool any more.
LEMMA GivingBack ==
  ASSUME PoolInv, NEW u \in Users, held[u] # None, GiveBack(u)
  PROVE  /\ PoolInv'
         /\ \A v \in Users, q \in Pools : At(v, q)' => At(v, q) /\ v # u
<1> DEFINE x == held[u]
           p == x.pool
           v == Head(waiting[p])
<1>1. /\ x \in Connections /\ x # None /\ p \in Pools /\ x.conn \in {"good", "broken"}
      /\ held \in Holdings
      /\ \A q \in Pools : u \notin ToSet(waiting[q])
  BY PoolsBefore DEF Holdings, Connections
<1>2. CASE waiting[p] # <<>>
  <2>1. /\ held' = [held EXCEPT ![u] = None, ![v] = held[u]]
        /\ waiting' = [waiting EXCEPT ![p] = Tail(@)] /\ idle' = idle
    BY <1>2 DEF GiveBack
  <2>2. /\ v \in Users /\ held[v] = None /\ v \in ToSet(waiting[p])
        /\ waiting' \in [Pools -> Seq(Users)]
        /\ \A q \in Pools : /\ ToSet(waiting'[q]) = ToSet(waiting[q]) \ {v}
                            /\ NoRepeats(waiting'[q])
                            /\ waiting[q] = <<>> => waiting'[q] = <<>>
        /\ \A q, r \in Pools : q # r => ToSet(waiting'[q]) \cap ToSet(waiting'[r]) = {}
    BY <1>1, <1>2, <2>1, FirstServed
  <2> HIDE DEF v, p
  <2>3. /\ held' \in Holdings /\ v # u /\ held'[v] = x /\ held'[u] = None
        /\ \A w \in Users : w \notin {u, v} => held'[w] = held[w]
    BY <1>1, <2>1, <2>2 DEF Holdings
  <2>4. \A q \in Pools : Cardinality(Takers(held', q)) = Cardinality(Takers(held, q))
    BY <1>1, <2>2, <2>3, HandedOver
  <2>5. \A q \in Pools : Len(idle'[q]) + Cardinality(Takers(held', q)) <= PoolMax[q]
    BY <2>1, <2>4, PoolsBefore
  <2>6. \A w \in Users, q \in Pools : held'[w] # None => w \notin ToSet(waiting'[q])
    <3> SUFFICES ASSUME NEW w \in Users, NEW q \in Pools, held'[w] # None
                 PROVE  w \notin ToSet(waiting'[q])
      OBVIOUS
    <3>1. CASE w = v
      BY <2>2, <3>1
    <3>2. CASE w # v
      <4>1. held[w] # None
        BY <2>3, <3>2
      <4> QED BY <2>2, <4>1, PoolsBefore
    <3> QED BY <3>1, <3>2
  <2>7. \A q \in Pools : waiting'[q] = <<>> \/ idle'[q] = <<>>
    BY <2>1, <2>2, PoolsBefore
  <2>8. PoolInv'
    BY <2>1, <2>2, <2>3, <2>5, <2>6, <2>7, PoolsBefore, PoolsAfter
  <2>9. \A w \in Users, q \in Pools : At(w, q)' => At(w, q) /\ w # u
    <3> SUFFICES ASSUME NEW w \in Users, NEW q \in Pools, At(w, q)' PROVE At(w, q) /\ w # u
      OBVIOUS
    <3>1. CASE w = v
      BY <2>2, <2>3, <3>1 DEF At, p
    <3>2. CASE w = u
      BY <1>1, <2>2, <2>3, <3>2 DEF At
    <3>3. CASE w \notin {u, v}
      BY <2>2, <2>3, <3>3 DEF At
    <3> QED BY <3>1, <3>2, <3>3
  <2> QED BY <2>8, <2>9
<1>3. CASE waiting[p] = <<>>
  <2>1. /\ held' = [held EXCEPT ![u] = None] /\ waiting' = waiting
        /\ idle' = [idle EXCEPT ![p] = Append(@, x.conn)]
    BY <1>3 DEF GiveBack
  <2>2. /\ held' \in Holdings /\ held'[u] = None
        /\ \A w \in Users : w # u => held'[w] = held[w]
    BY <1>1, <2>1 DEF Holdings
  <2>3. /\ Cardinality(Takers(held', p)) = Cardinality(Takers(held, p)) - 1
        /\ \A q \in Pools : q # p => Takers(held', q) = Takers(held, q)
    BY <1>1, <2>2, OneTakerLess
  <2>4. /\ Append(idle[p], x.conn) \in Seq({"good", "broken"})
        /\ Len(Append(idle[p], x.conn)) = Len(idle[p]) + 1
    BY <1>1, PoolsBefore
  <2> HIDE DEF p, x
  <2>5. /\ idle' \in [Pools -> Seq({"good", "broken"})]
        /\ Len(idle'[p]) = Len(idle[p]) + 1
        /\ \A q \in Pools : q # p => idle'[q] = idle[q]
    BY <1>1, <2>1, <2>4, PoolsBefore
  <2>6. \A q \in Pools : Len(idle'[q]) + Cardinality(Takers(held', q)) <= PoolMax[q]
    <3> TAKE q \in Pools
    <3>1. CASE q = p
      BY <2>3, <2>5, <3>1, PoolsBefore
    <3>2. CASE q # p
      BY <2>3, <2>5, <3>2, PoolsBefore
    <3> QED BY <3>1, <3>2
  <2>7. \A w \in Users, q \in Pools : held'[w] # None => w \notin ToSet(waiting'[q])
    BY <2>1, <2>2, PoolsBefore
  <2>8. \A q \in Pools : waiting'[q] = <<>> \/ idle'[q] = <<>>
    BY <1>3, <2>1, <2>5, PoolsBefore
  <2>9. PoolInv'
    BY <2>1, <2>5, <2>6, <2>2, <2>7, <2>8, PoolsBefore, PoolsAfter
  <2>10. \A w \in Users, q \in Pools : At(w, q)' => At(w, q) /\ w # u
    BY <1>1, <2>1, <2>2 DEF At
  <2> QED BY <2>9, <2>10
<1> QED BY <1>2, <1>3

\* A connection that broke leaves the pool with room for another.
LEMMA Discarding ==
  ASSUME PoolInv, NEW u \in Users, held[u] # None, Discard(u)
  PROVE  /\ PoolInv'
         /\ \A v \in Users, q \in Pools : At(v, q)' => At(v, q) /\ v # u
<1> DEFINE p == held[u].pool
<1>1. /\ held \in Holdings /\ p \in Pools
      /\ \A q \in Pools : u \notin ToSet(waiting[q])
  BY PoolsBefore DEF Holdings, Connections
<1>2. held' = [held EXCEPT ![u] = None] /\ waiting' = waiting /\ idle' = idle
  BY DEF Discard
<1>3. /\ held' \in Holdings /\ held'[u] = None
      /\ \A w \in Users : w # u => held'[w] = held[w]
  BY <1>1, <1>2 DEF Holdings
<1>4. /\ Cardinality(Takers(held', p)) = Cardinality(Takers(held, p)) - 1
      /\ \A q \in Pools : q # p => Takers(held', q) = Takers(held, q)
  BY <1>1, <1>3, OneTakerLess
<1> HIDE DEF p
<1>5. \A q \in Pools : Len(idle'[q]) + Cardinality(Takers(held', q)) <= PoolMax[q]
  <2> TAKE q \in Pools
  <2>1. CASE q = p
    BY <1>2, <1>4, <2>1, PoolsBefore
  <2>2. CASE q # p
    BY <1>2, <1>4, <2>2, PoolsBefore
  <2> QED BY <2>1, <2>2
<1>6. \A w \in Users, q \in Pools : held'[w] # None => w \notin ToSet(waiting'[q])
  BY <1>2, <1>3, PoolsBefore
<1>7. PoolInv'
  BY <1>2, <1>5, <1>3, <1>6, PoolsBefore, PoolsAfter
<1>8. \A w \in Users, q \in Pools : At(w, q)' => At(w, q) /\ w # u
  BY <1>1, <1>2, <1>3 DEF At
<1> QED BY <1>7, <1>8

\* A new connection, for the minimum or for the first in line.
LEMMA Connecting ==
  ASSUME PoolInv, NEW p \in Pools, Connect(p)
  PROVE  /\ PoolInv'
         /\ \A v \in Users, q \in Pools : At(v, q)' => At(v, q)
<1>1. Len(idle[p]) + Cardinality(Takers(held, p)) < PoolMax[p]
  BY OpenCounts DEF Connect
<1>2. CASE waiting[p] # <<>>
  <2> DEFINE v == Head(waiting[p])
             x == [pool |-> p, conn |-> "good"]
  <2>1. /\ held' = [held EXCEPT ![v] = x] /\ waiting' = [waiting EXCEPT ![p] = Tail(@)]
        /\ idle' = idle
    BY <1>2 DEF Connect
  <2>2. /\ v \in Users /\ held[v] = None /\ v \in ToSet(waiting[p]) /\ idle[p] = <<>>
        /\ waiting' \in [Pools -> Seq(Users)]
        /\ \A q \in Pools : /\ ToSet(waiting'[q]) = ToSet(waiting[q]) \ {v}
                            /\ NoRepeats(waiting'[q])
                            /\ waiting[q] = <<>> => waiting'[q] = <<>>
        /\ \A q, r \in Pools : q # r => ToSet(waiting'[q]) \cap ToSet(waiting'[r]) = {}
    BY <1>2, <2>1, FirstServed
  <2>3. x \in Connections /\ x.pool = p
    BY DEF Connections
  <2> HIDE DEF v, x
  <2>4. /\ held \in Holdings /\ held' \in Holdings /\ held'[v] = x
        /\ \A w \in Users : w # v => held'[w] = held[w]
    BY <2>1, <2>2, <2>3, PoolsBefore DEF Holdings
  <2>5. /\ Cardinality(Takers(held', p)) = Cardinality(Takers(held, p)) + 1
        /\ \A q \in Pools : q # p => Takers(held', q) = Takers(held, q)
    BY <2>2, <2>3, <2>4, OneMoreTaker
  <2>6. \A q \in Pools : Len(idle'[q]) + Cardinality(Takers(held', q)) <= PoolMax[q]
    <3> TAKE q \in Pools
    <3>1. CASE q = p
      BY <1>1, <2>1, <2>5, <3>1, PoolsBefore
    <3>2. CASE q # p
      BY <2>1, <2>5, <3>2, PoolsBefore
    <3> QED BY <3>1, <3>2
  <2>7. \A w \in Users, q \in Pools : held'[w] # None => w \notin ToSet(waiting'[q])
    <3> SUFFICES ASSUME NEW w \in Users, NEW q \in Pools, held'[w] # None
                 PROVE  w \notin ToSet(waiting'[q])
      OBVIOUS
    <3>1. CASE w = v
      BY <2>2, <3>1
    <3>2. CASE w # v
      <4>1. held[w] # None
        BY <2>4, <3>2
      <4> QED BY <2>2, <4>1, PoolsBefore
    <3> QED BY <3>1, <3>2
  <2>8. \A q \in Pools : waiting'[q] = <<>> \/ idle'[q] = <<>>
    BY <2>1, <2>2, PoolsBefore
  <2>9. PoolInv'
    BY <2>1, <2>2, <2>4, <2>6, <2>7, <2>8, PoolsBefore, PoolsAfter
  <2>10. \A w \in Users, q \in Pools : At(w, q)' => At(w, q)
    BY <2>2, <2>3, <2>4 DEF At
  <2> QED BY <2>9, <2>10
<1>3. CASE waiting[p] = <<>>
  <2>1. idle' = [idle EXCEPT ![p] = Append(@, "good")] /\ held' = held /\ waiting' = waiting
    BY <1>3 DEF Connect
  <2>2. /\ Append(idle[p], "good") \in Seq({"good", "broken"})
        /\ Len(Append(idle[p], "good")) = Len(idle[p]) + 1
    BY PoolsBefore
  <2>3. /\ idle' \in [Pools -> Seq({"good", "broken"})]
        /\ Len(idle'[p]) = Len(idle[p]) + 1
        /\ \A q \in Pools : q # p => idle'[q] = idle[q]
    BY <2>1, <2>2, PoolsBefore
  <2>4. \A q \in Pools : Len(idle'[q]) + Cardinality(Takers(held', q)) <= PoolMax[q]
    <3> TAKE q \in Pools
    <3>1. CASE q = p
      BY <1>1, <2>1, <2>3, <3>1, PoolsBefore
    <3>2. CASE q # p
      BY <2>1, <2>3, <3>2, PoolsBefore
    <3> QED BY <3>1, <3>2
  <2>5. \A q \in Pools : waiting'[q] = <<>> \/ idle'[q] = <<>>
    BY <1>3, <2>1, <2>3, PoolsBefore
  <2>6. PoolInv'
    BY <2>1, <2>3, <2>4, <2>5, PoolsBefore, PoolsAfter
  <2>7. \A w \in Users, q \in Pools : At(w, q)' => At(w, q)
    BY <2>1 DEF At
  <2> QED BY <2>6, <2>7
<1> QED BY <1>2, <1>3

\* Somebody without a connection leaves the lines: all, or the one where they stood.
LEMMA LeavingLine ==
  ASSUME PoolInv, NEW u \in Users, held[u] = None,
         waiting' \in [Pools -> Seq(Users)],
         \A q \in Pools : \/ waiting'[q] = RemoveFirst(waiting[q], u)
                          \/ waiting'[q] = waiting[q] /\ u \notin ToSet(waiting[q]),
         UNCHANGED <<idle, held>>
  PROVE  /\ PoolInv'
         /\ \A v \in Users, q \in Pools : At(v, q)' => At(v, q) /\ v # u
<1>1. \A q \in Pools : /\ ToSet(waiting'[q]) = ToSet(waiting[q]) \ {u}
                       /\ NoRepeats(waiting'[q])
  <2> TAKE q \in Pools
  <2>1. waiting[q] \in Seq(Users) /\ NoRepeats(waiting[q])
    BY PoolsBefore
  <2>2. /\ ToSet(RemoveFirst(waiting[q], u)) = ToSet(waiting[q]) \ {u}
        /\ NoRepeats(RemoveFirst(waiting[q], u))
    BY <2>1, LineLeft
  <2> QED BY <2>1, <2>2
<1>2. \A q \in Pools : waiting[q] = <<>> => waiting'[q] = <<>>
  <2>1. RemoveFirst(<<>>, u) = <<>>
    BY DEF RemoveFirst
  <2> QED BY <2>1
<1>3. \A q, r \in Pools : q # r => ToSet(waiting'[q]) \cap ToSet(waiting'[r]) = {}
  BY <1>1, PoolsBefore
<1>4. \A w \in Users, q \in Pools : held'[w] # None => w \notin ToSet(waiting'[q])
  BY <1>1, PoolsBefore
<1>5. \A q \in Pools : waiting'[q] = <<>> \/ idle'[q] = <<>>
  BY <1>2, PoolsBefore
<1>6. PoolInv'
  BY <1>1, <1>3, <1>4, <1>5, PoolsBefore, PoolsAfter
<1>7. \A v \in Users, q \in Pools : At(v, q)' => At(v, q) /\ v # u
  BY <1>1 DEF At
<1> QED BY <1>6, <1>7

\* A user whose timeout passed is in no line and holds nothing.
LEMMA TimingOut ==
  ASSUME PoolInv, NEW u \in Users, TimesOut(u)
  PROVE  /\ PoolInv' /\ UNCHANGED <<idle, held>>
         /\ \A v \in Users, q \in Pools : At(v, q)' => At(v, q) /\ v # u
<1>1. PICK p \in Pools :
        /\ u \in ToSet(waiting[p]) /\ waiting' = [waiting EXCEPT ![p] = RemoveFirst(@, u)]
        /\ UNCHANGED <<idle, held>>
  BY DEF TimesOut
<1>2. held[u] = None /\ \A q \in Pools : q # p => u \notin ToSet(waiting[q])
  BY <1>1, PoolsBefore
<1>3. RemoveFirst(waiting[p], u) \in Seq(Users)
  BY PoolsBefore, LineLeft
<1>4. /\ waiting' \in [Pools -> Seq(Users)]
      /\ waiting'[p] = RemoveFirst(waiting[p], u)
      /\ \A q \in Pools : q # p => waiting'[q] = waiting[q]
  BY <1>1, <1>3, PoolsBefore
<1> QED BY <1>1, <1>2, <1>4, LeavingLine

\* Where a cancel finds a call, it leaves it at no pool.
LEMMA Abandoning ==
  ASSUME PoolInv, NEW u \in Users, Abandon(u)
  PROVE  /\ PoolInv'
         /\ \A v \in Users, q \in Pools : At(v, q)' => At(v, q) /\ v # u
<1>1. CASE held[u] = None
  <2>1. waiting' = [p \in Pools |-> RemoveFirst(waiting[p], u)] /\ UNCHANGED <<idle, held>>
    BY <1>1 DEF Abandon
  <2>2. \A p \in Pools : RemoveFirst(waiting[p], u) \in Seq(Users)
    BY PoolsBefore, LineLeft
  <2>3. /\ waiting' \in [Pools -> Seq(Users)]
        /\ \A p \in Pools : waiting'[p] = RemoveFirst(waiting[p], u)
    BY <2>1, <2>2
  <2> QED BY <1>1, <2>1, <2>3, LeavingLine
<1>2. CASE held[u] # None
  BY <1>2, GivingBack, Discarding DEF Abandon
<1> QED BY <1>1, <1>2

\* An outage moves nobody, it only breaks what is there.
LEMMA Breaking ==
  ASSUME PoolInv, DbDown
  PROVE  /\ PoolInv'
         /\ \A v \in Users, q \in Pools : At(v, q)' => At(v, q)
         /\ held = NobodyHolds => held' = NobodyHolds
<1>1. /\ idle' = [p \in Pools |-> [i \in DOMAIN idle[p] |-> "broken"]]
      /\ held' = [u \in Users |-> IF held[u] = None THEN None ELSE [held[u] EXCEPT !.conn = "broken"]]
      /\ waiting' = waiting
  BY DEF DbDown
<1>2. held \in Holdings
  BY PoolsBefore
<1>3. /\ held' \in Holdings
      /\ \A u \in Users : /\ held'[u] = None <=> held[u] = None
                          /\ held[u] # None => held'[u].pool = held[u].pool
  <2>1. \A x \in Connections : /\ [x EXCEPT !.conn = "broken"] \in Connections
                               /\ [x EXCEPT !.conn = "broken"].pool = x.pool
    BY DEF Connections
  <2>2. None \notin Connections
    BY PoolAssumption
  <2> QED BY <1>1, <1>2, <2>1, <2>2 DEF Holdings
<1>4. \A p \in Pools : Takers(held', p) = Takers(held, p)
  BY <1>3 DEF Takers
<1>5. \A p \in Pools : /\ idle'[p] \in Seq({"good", "broken"}) /\ Len(idle'[p]) = Len(idle[p])
                       /\ idle[p] = <<>> => idle'[p] = <<>>
  <2> TAKE p \in Pools
  <2> DEFINE n == Len(idle[p])
  <2>1. n \in Nat /\ DOMAIN idle[p] = 1..n /\ (idle[p] = <<>> => n = 0)
    BY PoolsBefore
  <2> HIDE DEF n
  <2>2. idle'[p] = [i \in 1..n |-> "broken"]
    BY <1>1, <2>1
  <2>3. [i \in 1..n |-> "broken"] \in Seq({"good", "broken"}) /\ Len([i \in 1..n |-> "broken"]) = n
    BY <2>1
  <2>4. n = 0 => [i \in 1..n |-> "broken"] = <<>>
    BY <2>1, <2>3
  <2> QED BY <2>1, <2>2, <2>3, <2>4 DEF n
<1>6. idle' \in [Pools -> Seq({"good", "broken"})]
  BY <1>1, <1>5
<1>7. \A p \in Pools : Len(idle'[p]) + Cardinality(Takers(held', p)) <= PoolMax[p]
  BY <1>4, <1>5, PoolsBefore
<1>8. \A p \in Pools : waiting'[p] = <<>> \/ idle'[p] = <<>>
  BY <1>1, <1>5, PoolsBefore
<1>9. \A u \in Users, p \in Pools : held'[u] # None => u \notin ToSet(waiting'[p])
  BY <1>1, <1>3, PoolsBefore
<1>10. PoolInv'
  BY <1>1, <1>3, <1>6, <1>7, <1>8, <1>9, PoolsBefore, PoolsAfter
<1>11. \A v \in Users, q \in Pools : At(v, q)' => At(v, q)
  BY <1>1, <1>3 DEF At
<1>12. held = NobodyHolds => held' = NobodyHolds
  BY <1>1 DEF NobodyHolds
<1> QED BY <1>10, <1>11, <1>12

-----------------------------------------------------------------------------
(* The threads after each of their operations *)

\* The call that submits a job has one, and no other call gets one.
LEMMA Submitting ==
  ASSUME JobInv, NEW c \in Calls, Submit(c)
  PROVE  JobInv' /\ \A d \in Calls : HasJob(d)' => HasJob(d) \/ d = c
<1>1. /\ c \notin ToSet(backlog) /\ \A w \in Workers : threads[w] # c
      /\ backlog' = Append(backlog, c) /\ threads' = threads
  BY DEF Submit
<1>2. backlog \in Seq(Calls) /\ NoRepeats(backlog)
  BY DEF JobInv
<1>3. /\ backlog' \in Seq(Calls) /\ ToSet(backlog') = ToSet(backlog) \cup {c}
      /\ NoRepeats(backlog')
  BY <1>1, <1>2, LineJoined
<1> QED BY <1>1, <1>3 DEF JobInv, HasJob

\* A thread takes the first of the backlog: who had a job has it still.
LEMMA Starting ==
  ASSUME JobInv, NEW w \in Workers, Start(w)
  PROVE  JobInv' /\ \A d \in Calls : HasJob(d)' => HasJob(d)
<1> DEFINE c == Head(backlog)
<1>1. /\ backlog # <<>> /\ threads' = [threads EXCEPT ![w] = c] /\ backlog' = Tail(backlog)
      /\ backlog \in Seq(Calls) /\ NoRepeats(backlog)
      /\ threads \in [Workers -> Calls \cup {"gone", None}]
  BY DEF Start, JobInv
<1>2. /\ backlog' \in Seq(Calls) /\ c \in Calls /\ c \in ToSet(backlog)
      /\ ToSet(backlog') = ToSet(backlog) \ {c} /\ NoRepeats(backlog')
  BY <1>1, LineServed
<1> HIDE DEF c
<1>3. /\ threads' \in [Workers -> Calls \cup {"gone", None}] /\ threads'[w] = c
      /\ \A v \in Workers : v # w => threads'[v] = threads[v]
      /\ \A v \in Workers : threads[v] # c
  BY <1>1, <1>2 DEF JobInv
<1>4. \A u, v \in Workers : threads'[u] \in Calls /\ threads'[u] = threads'[v] => u = v
  BY <1>3 DEF JobInv
<1>5. \A v \in Workers : threads'[v] \notin ToSet(backlog')
  BY <1>2, <1>3 DEF JobInv
<1> QED BY <1>2, <1>3, <1>4, <1>5 DEF JobInv, HasJob

\* A thread that is done works for nobody, and only for it had its call a job.
LEMMA Finishing ==
  ASSUME JobInv, NEW w \in Workers, Finished(w)
  PROVE  /\ JobInv'
         /\ \A d \in Calls : HasJob(d)' => HasJob(d) /\ d # threads[w]
<1>1. threads' = [threads EXCEPT ![w] = None] /\ backlog' = backlog
  BY DEF Finished
<1>2. /\ threads' \in [Workers -> Calls \cup {"gone", None}] /\ threads'[w] = None
      /\ \A v \in Workers : v # w => threads'[v] = threads[v]
  BY <1>1 DEF JobInv
<1>3. None \notin Calls
  BY PoolAssumption, LifecycleAssumption
<1>4. ToSet(backlog) \subseteq Calls
  BY DEF JobInv, ToSet
<1>5. JobInv'
  BY <1>1, <1>2, <1>3, <1>4 DEF JobInv
<1> QED BY <1>1, <1>2, <1>3, <1>5 DEF JobInv, HasJob

\* A cancel leaves the call without a job.
LEMMA AbandoningJob ==
  ASSUME JobInv, NEW c \in Calls, Abandon(c)
  PROVE  /\ JobInv'
         /\ \A d \in Calls : HasJob(d)' => HasJob(d) /\ d # c
<1>1. /\ backlog' = RemoveFirst(backlog, c)
      /\ threads' = [w \in Workers |-> IF threads[w] = c THEN "gone" ELSE threads[w]]
      /\ backlog \in Seq(Calls) /\ NoRepeats(backlog)
  BY DEF Abandon, JobInv
<1>2. /\ backlog' \in Seq(Calls) /\ NoRepeats(backlog')
      /\ ToSet(backlog') = ToSet(backlog) \ {c}
  BY <1>1, LineLeft
<1>3. "gone" \notin Calls /\ ToSet(backlog) \subseteq Calls
  <2>1. "gone" \notin Calls
    BY PoolAssumption, LifecycleAssumption
  <2>2. ToSet(backlog) \subseteq Calls
    BY <1>1 DEF ToSet
  <2> QED BY <2>1, <2>2
<1>4. JobInv'
  BY <1>1, <1>2, <1>3 DEF JobInv
<1>5. \A d \in Calls : HasJob(d)' => HasJob(d) /\ d # c
  BY <1>1, <1>2, <1>3 DEF HasJob
<1> QED BY <1>4, <1>5

-----------------------------------------------------------------------------
(* The start and the shutdown, step by step *)

\* What each step of the start adds to what is open, and that tracing comes first.
LEMMA OrderOfOpening ==
  /\ Len(OpenOrder) = 10 /\ DOMAIN OpenOrder = 1..10
  /\ OpenOrder[1] = "tracing" /\ OpenOrder[2] = "read pool"
  /\ OpenedBefore(1) = {} /\ OpenedBefore(11) = Enabled
  /\ \A k \in 1..10 : OpenedBefore(k + 1) = OpenedBefore(k) \cup ({OpenOrder[k]} \cap Enabled)
  /\ \A k \in 1..10 : OpenedBefore(k) # {} /\ "tracing" \in Enabled => "tracing" \in OpenedBefore(k)
<1>1. /\ Len(OpenOrder) = 10 /\ DOMAIN OpenOrder = 1..10
      /\ OpenOrder[1] = "tracing" /\ OpenOrder[2] = "read pool"
  BY DEF OpenOrder
<1>2. OpenedBefore(1) = {}
  BY DEF OpenedBefore
<1>3. OpenedBefore(11) = Enabled
  <2>1. 1..(11 - 1) = 1..10
    OBVIOUS
  <2>2. Enabled \subseteq {OpenOrder[i] : i \in 1..10}
    BY <1>1, LifecycleAssumption DEF Resources, ToSet
  <2> QED BY <2>1, <2>2 DEF OpenedBefore
<1>4. ASSUME NEW k \in 1..10
      PROVE  OpenedBefore(k + 1) = OpenedBefore(k) \cup ({OpenOrder[k]} \cap Enabled)
  <2>1. 1..(k + 1 - 1) = (1..(k - 1)) \cup {k}
    OBVIOUS
  <2> QED BY <2>1 DEF OpenedBefore
<1>5. ASSUME NEW k \in 1..10, OpenedBefore(k) # {}, "tracing" \in Enabled
      PROVE  "tracing" \in OpenedBefore(k)
  <2>1. 1 \in 1..(k - 1)
    BY <1>5 DEF OpenedBefore
  <2> QED BY <1>1, <1>5, <2>1 DEF OpenedBefore
<1> QED BY <1>1, <1>2, <1>3, <1>4, <1>5

\* The resources by name.
LEMMA ResourcesListed ==
  Resources \subseteq {"tracing", "read pool", "write pool", "nats", "wiki", "writer", "pbs", "s3",
                       "trigger", "metrics"}
<1>1. DOMAIN OpenOrder = 1..10
  BY OrderOfOpening
<1>2. \A i \in 1..10 : i = 1 \/ i = 2 \/ i = 3 \/ i = 4 \/ i = 5 \/ i = 6 \/ i = 7 \/ i = 8
                       \/ i = 9 \/ i = 10
  OBVIOUS
<1>3. /\ OpenOrder[1] = "tracing" /\ OpenOrder[2] = "read pool" /\ OpenOrder[3] = "write pool"
      /\ OpenOrder[4] = "nats" /\ OpenOrder[5] = "wiki" /\ OpenOrder[6] = "writer"
      /\ OpenOrder[7] = "pbs" /\ OpenOrder[8] = "s3" /\ OpenOrder[9] = "trigger"
      /\ OpenOrder[10] = "metrics"
  BY DEF OpenOrder
<1> QED BY <1>1, <1>2, <1>3 DEF Resources, ToSet

\* Tracing ends with the last step of the shutdown, and everything else before.
LEMMA OrderOfClosing ==
  /\ Len(CloseOrder) = 8
  /\ ClosedBefore(1) = {}
  /\ \A k \in 1..8 : ClosedBefore(k + 1) = ClosedBefore(k) \cup ToSet(CloseOrder[k])
  /\ \A k \in 1..8 : "tracing" \notin ClosedBefore(k)
  /\ Enabled \subseteq ClosedBefore(8) \cup ToSet(CloseOrder[8])
  /\ \A k \in 1..8 : \A i \in DOMAIN CloseOrder[k] : \A j \in 1..(i - 1) :
       CloseOrder[k][j] # "tracing"
<1>1. /\ Len(CloseOrder) = 8
      /\ CloseOrder[1] = <<"metrics">> /\ CloseOrder[2] = <<"wiki", "writer">>
      /\ CloseOrder[3] = <<"pbs">> /\ CloseOrder[4] = <<"s3">> /\ CloseOrder[5] = <<"trigger">>
      /\ CloseOrder[6] = <<"nats">> /\ CloseOrder[7] = <<"read pool", "write pool">>
      /\ CloseOrder[8] = <<"tracing">>
  BY DEF CloseOrder
<1>2. \A a : ToSet(<<a>>) = {a}
  BY DEF ToSet
<1>3. \A a, b : ToSet(<<a, b>>) = {a, b}
  BY DEF ToSet
<1>4. /\ ToSet(CloseOrder[1]) = {"metrics"} /\ ToSet(CloseOrder[2]) = {"wiki", "writer"}
      /\ ToSet(CloseOrder[3]) = {"pbs"} /\ ToSet(CloseOrder[4]) = {"s3"}
      /\ ToSet(CloseOrder[5]) = {"trigger"} /\ ToSet(CloseOrder[6]) = {"nats"}
      /\ ToSet(CloseOrder[7]) = {"read pool", "write pool"} /\ ToSet(CloseOrder[8]) = {"tracing"}
  BY <1>1, <1>2, <1>3
<1>5. ClosedBefore(1) = {}
  BY DEF ClosedBefore
<1>6. ASSUME NEW k \in 1..8
      PROVE  ClosedBefore(k + 1) = ClosedBefore(k) \cup ToSet(CloseOrder[k])
  <2>1. 1..(k + 1 - 1) = (1..(k - 1)) \cup {k}
    OBVIOUS
  <2> QED BY <2>1 DEF ClosedBefore
<1>7. \A i \in 1..7 : "tracing" \notin ToSet(CloseOrder[i])
  <2>1. \A i \in 1..7 : i = 1 \/ i = 2 \/ i = 3 \/ i = 4 \/ i = 5 \/ i = 6 \/ i = 7
    OBVIOUS
  <2> QED BY <1>4, <2>1
<1>8. \A k \in 1..8 : "tracing" \notin ClosedBefore(k)
  <2>1. \A k \in 1..8 : 1..(k - 1) \subseteq 1..7
    OBVIOUS
  <2> QED BY <1>7, <2>1 DEF ClosedBefore
<1>9. Enabled \subseteq ClosedBefore(8) \cup ToSet(CloseOrder[8])
  <2>1. 1..(8 - 1) = 1..7
    OBVIOUS
  <2>2. \A i \in 1..7 : ToSet(CloseOrder[i]) \subseteq ClosedBefore(8)
    BY <2>1 DEF ClosedBefore
  <2>3. {"metrics", "wiki", "writer", "pbs", "s3", "trigger", "nats", "read pool", "write pool"}
          \subseteq ClosedBefore(8)
    <3>1. /\ 1 \in 1..7 /\ 2 \in 1..7 /\ 3 \in 1..7 /\ 4 \in 1..7 /\ 5 \in 1..7 /\ 6 \in 1..7
          /\ 7 \in 1..7
      OBVIOUS
    <3>2. /\ {"metrics"} \subseteq ClosedBefore(8) /\ {"wiki", "writer"} \subseteq ClosedBefore(8)
          /\ {"pbs"} \subseteq ClosedBefore(8) /\ {"s3"} \subseteq ClosedBefore(8)
          /\ {"trigger"} \subseteq ClosedBefore(8) /\ {"nats"} \subseteq ClosedBefore(8)
          /\ {"read pool", "write pool"} \subseteq ClosedBefore(8)
      BY <1>4, <2>2, <3>1
    <3> QED BY <3>2
  <2> QED BY <1>4, <2>3, ResourcesListed, LifecycleAssumption
<1>10. ASSUME NEW k \in 1..8, NEW i \in DOMAIN CloseOrder[k], NEW j \in 1..(i - 1)
       PROVE  CloseOrder[k][j] # "tracing"
  <2>1. k = 8 \/ k \in 1..7
    OBVIOUS
  <2>2. \A a, b : DOMAIN <<a>> = {1} /\ DOMAIN <<a, b>> = {1, 2}
    OBVIOUS
  <2>3. CASE k = 8
    <3>1. i \in {1}
      BY <1>1, <2>2, <2>3
    <3>2. 1..(i - 1) = {}
      BY <3>1
    <3> QED BY <3>2
  <2>4. CASE k \in 1..7
    <3>1. DOMAIN CloseOrder[k] = {1} \/ DOMAIN CloseOrder[k] = {1, 2}
      <4>1. k = 1 \/ k = 2 \/ k = 3 \/ k = 4 \/ k = 5 \/ k = 6 \/ k = 7
        BY <2>4
      <4>2. /\ DOMAIN CloseOrder[1] = {1} /\ DOMAIN CloseOrder[3] = {1}
            /\ DOMAIN CloseOrder[4] = {1} /\ DOMAIN CloseOrder[5] = {1}
            /\ DOMAIN CloseOrder[6] = {1}
        BY <1>1, <2>2, Zenon
      <4>3. DOMAIN CloseOrder[2] = {1, 2}
        <5>1. CloseOrder[2] = <<"wiki", "writer">>
          BY <1>1
        <5>2. DOMAIN <<"wiki", "writer">> = {1, 2}
          OBVIOUS
        <5> QED BY <5>1, <5>2, Zenon
      <4>4. DOMAIN CloseOrder[7] = {1, 2}
        <5>1. CloseOrder[7] = <<"read pool", "write pool">>
          BY <1>1
        <5>2. DOMAIN <<"read pool", "write pool">> = {1, 2}
          OBVIOUS
        <5> QED BY <5>1, <5>2, Zenon
      <4> QED BY <4>1, <4>2, <4>3, <4>4, Zenon
    <3>2. i \in DOMAIN CloseOrder[k] /\ (i = 1 \/ i = 2)
      BY <3>1
    <3>3. j = 1 /\ i = 2
      BY <3>2
    <3>4. j \in DOMAIN CloseOrder[k]
      BY <3>1, <3>2, <3>3
    <3> QED BY <1>7, <2>4, <3>4 DEF ToSet
  <2> QED BY <2>1, <2>3, <2>4
<1> QED BY <1>1, <1>5, <1>6, <1>8, <1>9, <1>10

-----------------------------------------------------------------------------
(* The bridge after each of its steps *)

\* A thread is nothing that is opened, and no pool.
LEMMA Apart == "thread" \notin Enabled /\ "thread" \notin Pools
BY ResourcesListed, LifecycleAssumption

\* Who is nowhere, and where a call is not.
LEMMA Elsewhere ==
  ASSUME LifeInv, NEW c \in Calls
  PROVE  /\ c \in Users
         /\ calls[c] = <<>> => ~HasJob(c) /\ \A p \in Pools : ~At(c, p)
         /\ Uses(c, Pools) => ~HasJob(c)
         /\ Uses(c, {"thread"}) => \A p \in Pools : ~At(c, p)
         /\ Uses(c, Enabled \ Pools) => ~HasJob(c) /\ \A p \in Pools : ~At(c, p)
         /\ \A p \in Pools : At(c, p) => ~HasJob(c) /\ Uses(c, Pools)
<1>1. c \in Users
  BY LifecycleAssumption
<1>2. /\ \A p \in Pools : At(c, p) => calls[c] # <<>> /\ Head(calls[c]) = p
      /\ HasJob(c) => calls[c] # <<>> /\ Head(calls[c]) = "thread"
  BY DEF LifeInv, Placed, Uses
<1> QED BY <1>1, <1>2, Apart DEF Uses

\* Connections, lines, jobs and calls are there only while the bridge serves.
LEMMA OnlyServing ==
  ASSUME LifeInv, phase # "serving"
  PROVE  /\ \A c \in Calls : calls[c] = <<>>
         /\ \A u \in Users : held[u] = None
         /\ \A p \in Pools : waiting[p] = <<>> /\ ToSet(waiting[p]) = {}
         /\ backlog = <<>> /\ waiting = Empty /\ held = NobodyHolds /\ calls = NoCalls
         /\ \A w \in Workers : threads[w] \notin Calls
<1>1. Deserted /\ calls = NoCalls
  BY DEF LifeInv
<1>2. \A c \in Calls : calls[c] = <<>>
  BY <1>1 DEF NoCalls
<1>3. \A w \in Workers : threads[w] \notin Calls
  BY <1>2, Elsewhere DEF HasJob
<1>4. ToSet(<<>>) = {}
  BY DEF ToSet
<1> QED BY <1>1, <1>2, <1>3, <1>4 DEF Deserted, Empty, NobodyHolds

\* A step of the bridge while it serves.
LEMMA ServingStep ==
  ASSUME LifeInv, phase = "serving", UNCHANGED process, PoolInv', JobInv', Placed',
         calls' \in [Calls -> Seq(Kinds)], ready' \in BOOLEAN \cup {None}
  PROVE  LifeInv'
<1>1. Staged'
  BY DEF LifeInv, Staged, process
<1>2. phase' = "serving"
  BY DEF process
<1> QED BY <1>1, <1>2 DEF LifeInv

\* A step after which nobody is anywhere.
LEMMA DesertedStep ==
  ASSUME waiting' = Empty, held' = NobodyHolds, backlog' = <<>>, calls' = NoCalls,
         threads' \in [Workers -> {"gone", None}],
         idle' \in [Pools -> Seq({"good", "broken"})],
         \A p \in Pools : Len(idle'[p]) <= PoolMax[p],
         Staged', ready' \in BOOLEAN \cup {None}
  PROVE  LifeInv'
<1>1. \A u \in Users : held'[u] = None
  BY DEF NobodyHolds
<1>2. \A p \in Pools : waiting'[p] = <<>> /\ ToSet(waiting'[p]) = {} /\ NoRepeats(waiting'[p])
  <2>1. ToSet(<<>>) = {} /\ NoRepeats(<<>>)
    BY DEF ToSet, NoRepeats
  <2> QED BY <2>1 DEF Empty
<1>3. held' \in Holdings
  BY DEF NobodyHolds, Holdings
<1>4. waiting' \in [Pools -> Seq(Users)]
  BY DEF Empty
<1>5. \A p \in Pools : Len(idle'[p]) + Cardinality(Takers(held', p)) <= PoolMax[p]
  <2> TAKE p \in Pools
  <2>1. Takers(held', p) = {}
    BY <1>1 DEF Takers
  <2>2. Cardinality(Takers(held', p)) = 0
    BY <2>1, FS_EmptySet
  <2>3. Len(idle'[p]) \in Nat
    OBVIOUS
  <2> QED BY <2>2, <2>3
<1>6. PoolInv'
  BY <1>1, <1>2, <1>3, <1>4, <1>5, PoolsAfter
<1>7. "gone" \notin Calls /\ None \notin Calls
  BY PoolAssumption, LifecycleAssumption
<1>8. ToSet(backlog') = {} /\ backlog' \in Seq(Calls) /\ NoRepeats(backlog')
  BY DEF ToSet, NoRepeats
<1>9. JobInv'
  BY <1>7, <1>8 DEF JobInv
<1>10. Placed'
  BY <1>1, <1>2, <1>7, <1>8, LifecycleAssumption DEF Placed, At, HasJob
<1>11. Deserted'
  BY DEF Deserted
<1>12. calls' \in [Calls -> Seq(Kinds)]
  BY DEF NoCalls
<1> QED BY <1>6, <1>9, <1>10, <1>11, <1>12 DEF LifeInv

\* Where nobody is, the threads work for nobody.
LEMMA NobodysThreads ==
  ASSUME LifeInv, phase # "serving"
  PROVE  threads \in [Workers -> {"gone", None}]
<1>1. threads \in [Workers -> Calls \cup {"gone", None}]
  BY DEF LifeInv, JobInv
<1> QED BY <1>1, OnlyServing

\* A call that is nowhere goes on, ends or begins: everybody else stays at what they use.
LEMMA CallMoves ==
  ASSUME LifeInv, NEW c \in Calls, NEW s \in Seq(Kinds), calls' = [calls EXCEPT ![c] = s],
         \A d \in Calls, p \in Pools : At(d, p)' => At(d, p) /\ d # c,
         \A d \in Calls : HasJob(d)' => HasJob(d) /\ d # c
  PROVE  Placed' /\ calls' \in [Calls -> Seq(Kinds)]
<1>1. calls \in [Calls -> Seq(Kinds)]
  BY DEF LifeInv
<1>2. calls' \in [Calls -> Seq(Kinds)] /\ \A d \in Calls : d # c => calls'[d] = calls[d]
  BY <1>1
<1>3. ASSUME NEW d \in Calls, d # c, NEW k, Uses(d, {k}) PROVE Uses(d, {k})'
  BY <1>2, <1>3 DEF Uses
<1>4. \A d \in Calls : /\ \A p \in Pools : At(d, p)' => Uses(d, {p})'
                       /\ HasJob(d)' => Uses(d, {"thread"})'
  BY <1>3 DEF LifeInv, Placed
<1> QED BY <1>2, <1>4 DEF Placed

\* The calls stay: whoever came to a pool or a job is at what it uses.
LEMMA CallsStay ==
  ASSUME LifeInv, UNCHANGED calls,
         \A d \in Calls, p \in Pools : At(d, p)' => At(d, p) \/ Uses(d, {p}),
         \A d \in Calls : HasJob(d)' => HasJob(d) \/ Uses(d, {"thread"})
  PROVE  Placed' /\ calls' \in [Calls -> Seq(Kinds)]
<1>1. \A d \in Calls : \A k : Uses(d, {k})' <=> Uses(d, {k})
  BY DEF Uses
<1>2. \A d \in Calls : /\ \A p \in Pools : At(d, p)' => Uses(d, {p})
                       /\ HasJob(d)' => Uses(d, {"thread"})
  BY DEF LifeInv, Placed
<1>3. Placed'
  BY <1>1, <1>2 DEF Placed
<1> QED BY <1>3 DEF LifeInv

\* What a call has left when it goes on, and when it ends.
LEMMA Remainders ==
  ASSUME LifeInv, NEW c \in Calls, Passes(c) \/ Raises(c), calls[c] # <<>>
  PROVE  \E s \in Seq(Kinds) : calls' = [calls EXCEPT ![c] = s]
<1>1. calls[c] \in Seq(Kinds) /\ Tail(calls[c]) \in Seq(Kinds) /\ <<>> \in Seq(Kinds)
  BY DEF LifeInv
<1> QED BY <1>1 DEF Passes, Raises

\* The pools, or the threads, that a step leaves alone.
LEMMA PoolsStay ==
  ASSUME PoolInv, UNCHANGED connections
  PROVE  PoolInv' /\ \A u \in Users, p \in Pools : At(u, p)' <=> At(u, p)
BY DEF PoolInv, connections, Open, Taken, Waits, OnceInLine, At

\* The threads and the backlog, where a step leaves them alone.
LEMMA JobsStay ==
  ASSUME JobInv, UNCHANGED jobs
  PROVE  JobInv' /\ \A c \in Calls : HasJob(c)' <=> HasJob(c)
BY DEF JobInv, jobs, HasJob

-----------------------------------------------------------------------------
(* The calls *)

\* A call begins holding nothing.
LEMMA BeginKeeps ==
  ASSUME LifeInv, NEW c \in Calls, Begin(c)
  PROVE  LifeInv'
<1>1. /\ phase = "serving" /\ calls[c] = <<>>
      /\ UNCHANGED connections /\ UNCHANGED jobs /\ UNCHANGED process /\ UNCHANGED ready
  BY DEF Begin, dbVars, connections, jobs
<1>2. PICK program \in Programs : calls' = [calls EXCEPT ![c] = program]
  BY DEF Begin
<1>3. program \in Seq(Kinds)
  BY LifecycleAssumption DEF Kinds
<1>4. /\ PoolInv' /\ \A u \in Users, p \in Pools : At(u, p)' <=> At(u, p)
      /\ JobInv' /\ \A d \in Calls : HasJob(d)' <=> HasJob(d)
  BY <1>1, PoolsStay, JobsStay DEF LifeInv
<1>5. /\ \A d \in Calls, p \in Pools : At(d, p)' => At(d, p) /\ d # c
      /\ \A d \in Calls : HasJob(d)' => HasJob(d) /\ d # c
  BY <1>1, <1>4, Elsewhere
<1>6. Placed' /\ calls' \in [Calls -> Seq(Kinds)]
  BY <1>2, <1>3, <1>5, CallMoves
<1> QED BY <1>1, <1>4, <1>6, ServingStep DEF LifeInv

\* A call under way is one of a bridge that serves.
LEMMA UnderWay ==
  ASSUME LifeInv, NEW c \in Calls, NEW kinds, Uses(c, kinds)
  PROVE  phase = "serving" /\ calls[c] # <<>>
BY OnlyServing DEF Uses

\* A call takes a connection, or a place in the line.
LEMMA RequestKeeps ==
  ASSUME LifeInv, NEW c \in Calls, Request(c)
  PROVE  LifeInv'
<1> DEFINE p == Head(calls[c])
<1>1. /\ Uses(c, Pools) /\ p \in Pools /\ Uses(c, {p}) /\ Take(c, p) /\ c \in Users
      /\ UNCHANGED jobs /\ UNCHANGED process /\ UNCHANGED calls /\ UNCHANGED ready
  BY Elsewhere DEF Request, Uses
<1>2. phase = "serving"
  BY <1>1, UnderWay
<1> HIDE DEF p
<1>3. PoolInv' /\ \A v \in Users, q \in Pools : At(v, q)' => At(v, q) \/ (v = c /\ q = p)
  BY <1>1, Taking DEF LifeInv
<1>4. JobInv' /\ \A d \in Calls : HasJob(d)' <=> HasJob(d)
  BY <1>1, JobsStay DEF LifeInv
<1>5. \A d \in Calls, q \in Pools : At(d, q)' => At(d, q) \/ Uses(d, {q})
  BY <1>1, <1>3, LifecycleAssumption
<1>6. Placed' /\ calls' \in [Calls -> Seq(Kinds)]
  BY <1>1, <1>4, <1>5, CallsStay
<1> QED BY <1>1, <1>2, <1>3, <1>4, <1>6, ServingStep DEF LifeInv

\* A call that leaves its pool, and goes on or ends.
LEMMA LeavingKeeps ==
  ASSUME LifeInv, NEW c \in Calls, calls[c] # <<>>, ~HasJob(c),
         PoolInv', \A v \in Users, q \in Pools : At(v, q)' => At(v, q) /\ v # c,
         Passes(c) \/ Raises(c),
         UNCHANGED jobs, UNCHANGED process, UNCHANGED ready
  PROVE  LifeInv'
<1>1. phase = "serving"
  BY OnlyServing
<1>2. JobInv' /\ \A d \in Calls : HasJob(d)' <=> HasJob(d)
  BY JobsStay DEF LifeInv
<1>3. PICK s \in Seq(Kinds) : calls' = [calls EXCEPT ![c] = s]
  BY Remainders
<1>4. /\ \A d \in Calls, q \in Pools : At(d, q)' => At(d, q) /\ d # c
      /\ \A d \in Calls : HasJob(d)' => HasJob(d) /\ d # c
  BY <1>2, LifecycleAssumption
<1>5. Placed' /\ calls' \in [Calls -> Seq(Kinds)]
  BY <1>3, <1>4, CallMoves
<1> QED BY <1>1, <1>2, <1>5, ServingStep DEF LifeInv

\* A statement ends and its connection goes back to the pool.
LEMMA StatementKeeps ==
  ASSUME LifeInv, NEW c \in Calls, Statement(c)
  PROVE  LifeInv'
<1>1. /\ Uses(c, Pools) /\ held[c] # None /\ (GiveBack(c) \/ Discard(c))
      /\ Passes(c) \/ Raises(c)
      /\ UNCHANGED jobs /\ UNCHANGED process /\ UNCHANGED ready
  BY DEF Statement
<1>2. c \in Users /\ calls[c] # <<>> /\ ~HasJob(c) /\ PoolInv
  BY <1>1, UnderWay, Elsewhere DEF LifeInv
<1>3. PoolInv' /\ \A v \in Users, q \in Pools : At(v, q)' => At(v, q) /\ v # c
  BY <1>1, <1>2, GivingBack, Discarding
<1> QED BY <1>1, <1>2, <1>3, LeavingKeeps

\* A call gives up waiting for a connection.
LEMMA NoConnectionKeeps ==
  ASSUME LifeInv, NEW c \in Calls, NoConnection(c)
  PROVE  LifeInv'
<1>1. /\ TimesOut(c) /\ Raises(c)
      /\ UNCHANGED jobs /\ UNCHANGED process /\ UNCHANGED ready
  BY DEF NoConnection
<1>2. PICK p \in Pools : c \in ToSet(waiting[p])
  BY <1>1 DEF TimesOut
<1>3. At(c, p)
  BY <1>2 DEF At
<1>4. c \in Users /\ calls[c] # <<>> /\ ~HasJob(c) /\ PoolInv
  BY <1>3, Elsewhere DEF LifeInv
<1>5. PoolInv' /\ \A v \in Users, q \in Pools : At(v, q)' => At(v, q) /\ v # c
  BY <1>1, <1>4, TimingOut
<1> QED BY <1>1, <1>4, <1>5, LeavingKeeps

\* A request over a client ends.
LEMMA UseClientKeeps ==
  ASSUME LifeInv, NEW c \in Calls, UseClient(c)
  PROVE  LifeInv'
<1>1. /\ Uses(c, Enabled \ Pools) /\ (Passes(c) \/ Raises(c))
      /\ UNCHANGED connections /\ UNCHANGED jobs /\ UNCHANGED process /\ UNCHANGED ready
  BY DEF UseClient, dbVars, connections, jobs
<1>2. c \in Users /\ calls[c] # <<>> /\ ~HasJob(c) /\ \A p \in Pools : ~At(c, p)
  BY <1>1, UnderWay, Elsewhere
<1>3. PoolInv' /\ \A u \in Users, p \in Pools : At(u, p)' <=> At(u, p)
  BY <1>1, PoolsStay DEF LifeInv
<1> QED BY <1>1, <1>2, <1>3, LeavingKeeps

\* A call submits its job.
LEMMA HandOverKeeps ==
  ASSUME LifeInv, NEW c \in Calls, HandOver(c)
  PROVE  LifeInv'
<1>1. /\ Uses(c, {"thread"}) /\ Submit(c)
      /\ UNCHANGED connections /\ UNCHANGED process /\ UNCHANGED calls /\ UNCHANGED ready
  BY DEF HandOver
<1>2. phase = "serving"
  BY <1>1, UnderWay
<1>3. PoolInv' /\ \A u \in Users, p \in Pools : At(u, p)' <=> At(u, p)
  BY <1>1, PoolsStay DEF LifeInv
<1>4. JobInv' /\ \A d \in Calls : HasJob(d)' => HasJob(d) \/ d = c
  BY <1>1, Submitting DEF LifeInv
<1>5. Placed' /\ calls' \in [Calls -> Seq(Kinds)]
  BY <1>1, <1>3, <1>4, CallsStay, LifecycleAssumption
<1> QED BY <1>1, <1>2, <1>3, <1>4, <1>5, ServingStep DEF LifeInv

\* A thread takes up a job.
LEMMA StartJobKeeps ==
  ASSUME LifeInv, NEW w \in Workers, StartJob(w)
  PROVE  LifeInv'
<1>1. /\ Start(w) /\ backlog # <<>>
      /\ UNCHANGED connections /\ UNCHANGED process /\ UNCHANGED calls /\ UNCHANGED ready
  BY DEF StartJob, Start
<1>2. phase = "serving"
  BY <1>1, OnlyServing
<1>3. PoolInv' /\ \A u \in Users, p \in Pools : At(u, p)' <=> At(u, p)
  BY <1>1, PoolsStay DEF LifeInv
<1>4. JobInv' /\ \A d \in Calls : HasJob(d)' => HasJob(d)
  BY <1>1, Starting DEF LifeInv
<1>5. Placed' /\ calls' \in [Calls -> Seq(Kinds)]
  BY <1>1, <1>3, <1>4, CallsStay, LifecycleAssumption
<1> QED BY <1>1, <1>2, <1>3, <1>4, <1>5, ServingStep DEF LifeInv

\* A cancelled call leaves its line, its connection and its job.
LEMMA CancelKeeps ==
  ASSUME LifeInv, NEW c \in Calls, Cancel(c)
  PROVE  LifeInv'
<1>1. /\ calls[c] # <<>> /\ Abandon(c) /\ Raises(c)
      /\ UNCHANGED process /\ UNCHANGED ready
  BY DEF Cancel
<1>2. phase = "serving" /\ c \in Users /\ PoolInv /\ JobInv
  BY <1>1, OnlyServing, Elsewhere DEF LifeInv
<1>3. PoolInv' /\ \A v \in Users, q \in Pools : At(v, q)' => At(v, q) /\ v # c
  BY <1>1, <1>2, Abandoning
<1>4. JobInv' /\ \A d \in Calls : HasJob(d)' => HasJob(d) /\ d # c
  BY <1>1, <1>2, AbandoningJob
<1>5. PICK s \in Seq(Kinds) : calls' = [calls EXCEPT ![c] = s]
  BY <1>1, Remainders
<1>6. Placed' /\ calls' \in [Calls -> Seq(Kinds)]
  BY <1>3, <1>4, <1>5, CallMoves, LifecycleAssumption
<1> QED BY <1>1, <1>2, <1>3, <1>4, <1>6, ServingStep DEF LifeInv

-----------------------------------------------------------------------------
(* The threads, the probe, the pools' own growth and the services around *)

\* A step in any phase that moves no call, and brings nobody anywhere.
LEMMA SteadyStep ==
  ASSUME LifeInv, UNCHANGED process, UNCHANGED calls, ready' \in BOOLEAN \cup {None},
         PoolInv', \A d \in Calls, p \in Pools : At(d, p)' => At(d, p),
         JobInv', \A d \in Calls : HasJob(d)' => HasJob(d),
         Deserted => Deserted'
  PROVE  LifeInv'
<1>1. Staged' /\ phase' = phase
  BY DEF LifeInv, Staged, process
<1>2. Placed' /\ calls' \in [Calls -> Seq(Kinds)]
  BY CallsStay
<1>3. phase' # "serving" => Deserted' /\ calls' = NoCalls
  BY <1>1 DEF LifeInv
<1> QED BY <1>1, <1>2, <1>3 DEF LifeInv

\* A job ends, for its call or for nobody.
LEMMA EndJobKeeps ==
  ASSUME LifeInv, NEW w \in Workers, EndJob(w)
  PROVE  LifeInv'
<1>1. /\ threads[w] # None /\ Finished(w)
      /\ threads[w] = "gone" => UNCHANGED calls
      /\ threads[w] # "gone" => Passes(threads[w]) \/ Raises(threads[w])
      /\ UNCHANGED connections /\ UNCHANGED process /\ UNCHANGED ready
  BY DEF EndJob
<1>2. PoolInv' /\ \A u \in Users, p \in Pools : At(u, p)' <=> At(u, p)
  BY <1>1, PoolsStay DEF LifeInv
<1>3. JobInv' /\ \A d \in Calls : HasJob(d)' => HasJob(d) /\ d # threads[w]
  BY <1>1, Finishing DEF LifeInv
<1>4. CASE threads[w] = "gone"
  <2>1. Deserted => Deserted'
    BY <1>1 DEF Deserted, connections, Finished
  <2> QED BY <1>1, <1>2, <1>3, <1>4, <2>1, SteadyStep, LifecycleAssumption DEF LifeInv
<1>5. CASE threads[w] # "gone"
  <2> DEFINE c == threads[w]
  <2>1. c \in Calls /\ HasJob(c)
    BY <1>1, <1>5 DEF LifeInv, JobInv, HasJob
  <2>2. /\ calls[c] # <<>> /\ phase = "serving"
        /\ \A p \in Pools : ~At(c, p)
    BY <2>1, OnlyServing, Elsewhere
  <2> HIDE DEF c
  <2>3. PICK s \in Seq(Kinds) : calls' = [calls EXCEPT ![c] = s]
    BY <1>1, <1>5, <2>1, <2>2, Remainders DEF c
  <2>4. /\ \A d \in Calls, p \in Pools : At(d, p)' => At(d, p) /\ d # c
        /\ \A d \in Calls : HasJob(d)' => HasJob(d) /\ d # c
    BY <1>2, <1>3, <2>2, LifecycleAssumption DEF c
  <2>5. Placed' /\ calls' \in [Calls -> Seq(Kinds)]
    BY <2>1, <2>3, <2>4, CallMoves
  <2> QED BY <1>1, <1>2, <1>3, <2>2, <2>5, ServingStep DEF LifeInv
<1> QED BY <1>4, <1>5

\* The probe asks the read pool like a call.
LEMMA AskKeeps ==
  ASSUME LifeInv, Ask
  PROVE  LifeInv'
<1>1. /\ phase = "serving" /\ Take(Probe, "read pool") /\ "read pool" \in Pools /\ Probe \in Users
      /\ UNCHANGED jobs /\ UNCHANGED process /\ UNCHANGED calls /\ UNCHANGED ready
      /\ Probe \notin Calls
  BY LifecycleAssumption DEF Ask
<1>2. PoolInv' /\ \A v \in Users, q \in Pools : At(v, q)' => At(v, q) \/ (v = Probe /\ q = "read pool")
  BY <1>1, Taking DEF LifeInv
<1>3. JobInv' /\ \A d \in Calls : HasJob(d)' <=> HasJob(d)
  BY <1>1, JobsStay DEF LifeInv
<1>4. \A d \in Calls, q \in Pools : At(d, q)' => At(d, q)
  BY <1>1, <1>2, LifecycleAssumption
<1>5. Placed' /\ calls' \in [Calls -> Seq(Kinds)]
  BY <1>1, <1>3, <1>4, CallsStay
<1> QED BY <1>1, <1>2, <1>3, <1>5, ServingStep DEF LifeInv

\* The probe leaves the pool with an answer, or without a connection.
LEMMA ProbeKeeps ==
  ASSUME LifeInv, Answer \/ AskFails
  PROVE  LifeInv'
<1>1. Probe \in Users /\ Probe \notin Calls /\ PoolInv
  BY LifecycleAssumption DEF LifeInv
<1>2. /\ UNCHANGED jobs /\ UNCHANGED process /\ UNCHANGED calls
      /\ ready' \in BOOLEAN
  BY DEF Answer, AskFails
<1>3. /\ phase = "serving"
      /\ PoolInv' /\ \A v \in Users, q \in Pools : At(v, q)' => At(v, q)
  <2>1. CASE Answer
    <3>1. held[Probe] # None /\ (GiveBack(Probe) \/ Discard(Probe))
      BY <2>1 DEF Answer
    <3> QED BY <1>1, <3>1, OnlyServing, GivingBack, Discarding
  <2>2. CASE AskFails
    <3>1. TimesOut(Probe)
      BY <2>2 DEF AskFails
    <3>2. \E p \in Pools : Probe \in ToSet(waiting[p])
      BY <3>1 DEF TimesOut
    <3> QED BY <1>1, <3>1, <3>2, OnlyServing, TimingOut
  <2> QED BY <2>1, <2>2
<1>4. JobInv' /\ \A d \in Calls : HasJob(d)' <=> HasJob(d)
  BY <1>2, JobsStay DEF LifeInv
<1>5. Placed' /\ calls' \in [Calls -> Seq(Kinds)]
  BY <1>2, <1>3, <1>4, CallsStay, LifecycleAssumption
<1> QED BY <1>2, <1>3, <1>4, <1>5, ServingStep DEF LifeInv

\* A pool opens a connection for those in line or for its minimum.
LEMMA RefillKeeps ==
  ASSUME LifeInv, NEW p \in Pools, Refill(p)
  PROVE  LifeInv'
<1>1. /\ Connect(p) /\ UNCHANGED jobs
      /\ UNCHANGED process /\ UNCHANGED calls /\ UNCHANGED ready
  BY DEF Refill, Connect
<1>2. PoolInv' /\ \A v \in Users, q \in Pools : At(v, q)' => At(v, q)
  BY <1>1, Connecting DEF LifeInv
<1>3. JobInv' /\ \A d \in Calls : HasJob(d)' <=> HasJob(d)
  BY <1>1, JobsStay DEF LifeInv
<1>4. Deserted => Deserted'
  <2> SUFFICES ASSUME Deserted PROVE Deserted'
    OBVIOUS
  <2>1. waiting[p] = <<>>
    BY DEF Deserted, Empty
  <2>2. UNCHANGED <<waiting, held, backlog>>
    BY <1>1, <2>1 DEF Connect, jobs
  <2> QED BY <2>2 DEF Deserted
<1> QED BY <1>1, <1>2, <1>3, <1>4, SteadyStep, LifecycleAssumption DEF LifeInv

\* An outage breaks connections and moves nobody.
LEMMA ServicesKeep ==
  ASSUME LifeInv, DatabaseTurns \/ NatsTurns
  PROVE  LifeInv'
<1>1. UNCHANGED process /\ UNCHANGED calls /\ UNCHANGED ready /\ UNCHANGED jobs
  BY DEF DatabaseTurns, NatsTurns, DbDown, DbUp, dbVars, jobs
<1>2. JobInv' /\ \A d \in Calls : HasJob(d)' <=> HasJob(d)
  BY <1>1, JobsStay DEF LifeInv
<1>3. /\ PoolInv' /\ \A v \in Users, q \in Pools : At(v, q)' => At(v, q)
      /\ held = NobodyHolds => held' = NobodyHolds
      /\ waiting' = waiting
  <2>1. CASE DbDown
    BY <2>1, Breaking DEF LifeInv, DbDown
  <2>2. CASE UNCHANGED connections
    BY <2>2, PoolsStay DEF LifeInv, connections
  <2> QED BY <2>1, <2>2 DEF DatabaseTurns, NatsTurns, DbUp, dbVars, connections
<1>4. Deserted => Deserted'
  BY <1>1, <1>3 DEF Deserted, jobs
<1> QED BY <1>1, <1>2, <1>3, <1>4, SteadyStep, LifecycleAssumption DEF LifeInv

-----------------------------------------------------------------------------
(* The process *)

\* Before a step of a process that does not serve, and of one that stops.
LEMMA BeforeThat ==
  ASSUME LifeInv
  PROVE  /\ idle \in [Pools -> Seq({"good", "broken"})]
         /\ \A p \in Pools : Len(idle[p]) \in Nat /\ PoolMax[p] \in Nat /\ Len(idle[p]) <= PoolMax[p]
         /\ ready \in BOOLEAN \cup {None}
<1>1. \A p \in Pools : Len(idle[p]) \in Nat /\ PoolMax[p] \in Nat /\ Len(idle[p]) <= PoolMax[p]
  BY PoolsBefore DEF LifeInv
<1> QED BY <1>1, PoolsBefore DEF LifeInv

\* The next process begins with nothing open.
LEMMA RestartKeeps ==
  ASSUME LifeInv, Restart
  PROVE  LifeInv'
<1>1. /\ phase # "serving" /\ UNCHANGED <<waiting, held, backlog, calls>>
      /\ threads' = [w \in Workers |-> None] /\ idle' = Empty /\ ready' = None
      /\ phase' = "starting" /\ step' = 1 /\ open' = {} /\ cause' = None
  BY DEF Restart
<1>2. Staged'
  <2>1. 1 \in 1..10 /\ open' = OpenedBefore(1)
    <3>1. OpenedBefore(1) = {}
      BY OrderOfOpening, Zenon
    <3>2. open' = {} /\ 1 \in 1..10
      BY <1>1
    <3> QED BY <3>1, <3>2, Zenon
  <2>2. step' \in 1..10 /\ open' = OpenedBefore(step)'
    BY <1>1, <2>1 DEF OpenedBefore
  <2> QED BY <1>1, <2>2 DEF Staged
<1>3. \A p \in Pools : Len(idle'[p]) <= PoolMax[p]
  BY <1>1, PoolAssumption DEF Empty
<1>4. idle' \in [Pools -> Seq({"good", "broken"})] /\ threads' \in [Workers -> {"gone", None}]
  BY <1>1 DEF Empty
<1>5. waiting' = Empty /\ held' = NobodyHolds /\ backlog' = <<>> /\ calls' = NoCalls
  BY <1>1, OnlyServing
<1> QED BY <1>1, <1>2, <1>3, <1>4, <1>5, DesertedStep

\* The start opens what is next in its order.
LEMMA OpenNextKeeps ==
  ASSUME LifeInv, OpenNext
  PROVE  LifeInv'
<1> DEFINE r == OpenOrder[step]
<1>1. /\ phase = "starting" /\ UNCHANGED <<waiting, held, calls, ready, cause>> /\ UNCHANGED jobs
      /\ idle' = Filled(r)
      /\ open' = IF r \in Enabled THEN open \cup {r} ELSE open
      /\ phase' = IF step = Len(OpenOrder) THEN "serving" ELSE "starting"
      /\ step' = IF step = Len(OpenOrder) THEN 1 ELSE step + 1
  BY DEF OpenNext
<1>2. step \in 1..10 /\ open = OpenedBefore(step) /\ cause = None
  BY <1>1 DEF LifeInv, Staged
<1>3. open' = OpenedBefore(step + 1)
  <2>1. OpenedBefore(step + 1) = OpenedBefore(step) \cup ({r} \cap Enabled)
    BY <1>2, OrderOfOpening
  <2> HIDE DEF r
  <2> QED BY <1>1, <1>2, <2>1
<1>4. Staged'
  <2>1. CASE step = 10
    <3>1. step + 1 = 11
      BY <2>1
    <3> QED BY <1>1, <1>2, <1>3, <2>1, <3>1, OrderOfOpening DEF Staged
  <2>2. CASE step # 10
    <3>1. step + 1 \in 1..10
      BY <1>2, <2>2
    <3> QED BY <1>1, <1>2, <1>3, <2>2, <3>1, OrderOfOpening DEF Staged
  <2> QED BY <2>1, <2>2
<1> HIDE DEF r
<1>5. /\ idle' \in [Pools -> Seq({"good", "broken"})]
      /\ \A p \in Pools : Len(idle'[p]) <= PoolMax[p]
  <2>1. CASE r = "read pool"
    <3> DEFINE n == PoolMin[r]
               first == [i \in 1..n |-> "good"]
    <3>1. r \in Pools /\ n \in Nat /\ PoolMax[r] \in Nat /\ n <= PoolMax[r]
      BY <2>1, PoolAssumption, LifecycleAssumption
    <3>2. idle' = [idle EXCEPT ![r] = first]
      BY <1>1, <2>1 DEF Filled
    <3> HIDE DEF n
    <3>3. first \in Seq({"good", "broken"}) /\ Len(first) = n
      BY <3>1
    <3> HIDE DEF first
    <3> QED BY <3>1, <3>2, <3>3, BeforeThat DEF n
  <2>2. CASE r # "read pool"
    BY <1>1, <2>2, BeforeThat DEF Filled
  <2> QED BY <2>1, <2>2
<1>6. /\ waiting' = Empty /\ held' = NobodyHolds /\ backlog' = <<>> /\ calls' = NoCalls
      /\ threads' \in [Workers -> {"gone", None}]
  BY <1>1, OnlyServing, NobodysThreads DEF jobs
<1> QED BY <1>1, <1>4, <1>5, <1>6, BeforeThat, DesertedStep

\* What was opened before stays open: tracing first of all.
LEMMA OpenFailsKeeps ==
  ASSUME LifeInv, OpenFails
  PROVE  LifeInv'
<1>1. /\ phase = "starting" /\ UNCHANGED <<idle, waiting, held, backlog, threads, open, calls, ready>>
      /\ phase' = "exited" /\ cause' \in {"settings", "outage"}
  BY DEF OpenFails, Exit, dbVars
<1>2. step \in 1..10 /\ open = OpenedBefore(step)
  BY <1>1 DEF LifeInv, Staged
<1>3. open \subseteq Enabled /\ (open # {} /\ "tracing" \in Enabled => "tracing" \in open)
  <2>1. open \subseteq Enabled
    BY <1>2 DEF OpenedBefore
  <2> QED BY <1>2, <2>1, OrderOfOpening
<1>4. cause' # None
  BY <1>1, LifecycleAssumption
<1>5. Staged'
  BY <1>1, <1>3, <1>4 DEF Staged
<1>6. /\ waiting' = Empty /\ held' = NobodyHolds /\ backlog' = <<>> /\ calls' = NoCalls
      /\ threads' \in [Workers -> {"gone", None}]
  BY <1>1, OnlyServing, NobodysThreads
<1>7. /\ idle' \in [Pools -> Seq({"good", "broken"})]
      /\ \A p \in Pools : Len(idle'[p]) <= PoolMax[p]
      /\ ready' \in BOOLEAN \cup {None}
  BY <1>1, BeforeThat
<1> QED BY <1>5, <1>6, <1>7, DesertedStep

\* The calls end before the first client closes.
LEMMA StopKeeps ==
  ASSUME LifeInv, Stop
  PROVE  LifeInv'
<1>1. /\ phase = "serving" /\ phase' = "stopping" /\ step' = 1 /\ calls' = NoCalls
      /\ AbandonAll /\ UNCHANGED <<idle, open, ready, cause>>
  BY DEF Stop
<1>2. Staged'
  <2>1. open = Enabled /\ cause = None
    BY <1>1 DEF LifeInv, Staged
  <2>2. ClosedBefore(1) = {}
    BY OrderOfClosing, Zenon
  <2>3. open' = Enabled \ ClosedBefore(1) /\ cause' = None
    BY <1>1, <2>1, <2>2
  <2>4. step' \in 1..8 /\ open' = Enabled \ ClosedBefore(step)'
    BY <1>1, <2>3 DEF ClosedBefore
  <2> QED BY <1>1, <2>3, <2>4 DEF Staged
<1>3. /\ waiting' = Empty /\ held' = NobodyHolds /\ backlog' = <<>>
      /\ threads' = [w \in Workers |-> IF threads[w] = None THEN None ELSE "gone"]
  BY <1>1 DEF AbandonAll
<1>4. threads' \in [Workers -> {"gone", None}]
  BY <1>3
<1>5. /\ idle' \in [Pools -> Seq({"good", "broken"})]
      /\ \A p \in Pools : Len(idle'[p]) <= PoolMax[p]
      /\ ready' \in BOOLEAN \cup {None}
  BY <1>1, BeforeThat
<1> QED BY <1>1, <1>2, <1>3, <1>4, <1>5, DesertedStep

\* With its last step, tracing's, everything is closed.
LEMMA CloseKeeps ==
  ASSUME LifeInv, Close
  PROVE  LifeInv'
<1> DEFINE closed == ToSet(CloseOrder[step])
<1>1. /\ phase = "stopping" /\ UNCHANGED <<waiting, held, calls, ready>> /\ UNCHANGED jobs
      /\ open' = open \ closed
      /\ idle' = [p \in Pools |-> IF p \in closed THEN <<>> ELSE idle[p]]
      /\ IF step = Len(CloseOrder) THEN phase' = "exited" /\ cause' = "stopped"
                                   ELSE step' = step + 1 /\ UNCHANGED <<phase, cause>>
  BY DEF Close, CloseStep, Exit
<1>2. step \in 1..8 /\ open = Enabled \ ClosedBefore(step) /\ cause = None
  BY <1>1 DEF LifeInv, Staged
<1>3. Len(CloseOrder) = 8
  BY OrderOfClosing, Zenon
<1>4. Staged'
  <2>1. CASE step = 8
    <3>1. Enabled \subseteq ClosedBefore(step) \cup closed
      BY <2>1, OrderOfClosing
    <3> HIDE DEF closed
    <3>2. open' = {}
      BY <1>1, <1>2, <3>1
    <3>3. phase' = "exited" /\ cause' # None
      BY <1>1, <1>3, <2>1, LifecycleAssumption
    <3> QED BY <3>2, <3>3 DEF Staged
  <2>2. CASE step # 8
    <3>1. step + 1 \in 1..8
      BY <1>2, <2>2
    <3>2. ClosedBefore(step + 1) = ClosedBefore(step) \cup closed
      BY <1>2, OrderOfClosing
    <3> HIDE DEF closed
    <3>3. open' = Enabled \ ClosedBefore(step + 1)
      BY <1>1, <1>2, <3>2
    <3>4. step' = step + 1 /\ phase' = "stopping" /\ cause' = None
      BY <1>1, <1>2, <1>3, <2>2
    <3>5. step' \in 1..8 /\ open' = Enabled \ ClosedBefore(step)'
      BY <3>1, <3>3, <3>4 DEF ClosedBefore
    <3> QED BY <3>4, <3>5 DEF Staged
  <2> QED BY <2>1, <2>2
<1> HIDE DEF closed
<1>5. \A p \in Pools : /\ idle'[p] \in Seq({"good", "broken"})
                       /\ Len(idle'[p]) <= PoolMax[p]
  <2> TAKE p \in Pools
  <2>1. CASE p \in closed
    <3>1. idle'[p] = <<>>
      BY <1>1, <2>1
    <3>2. Len(<<>>) = 0 /\ <<>> \in Seq({"good", "broken"}) /\ PoolMax[p] >= 0
      BY PoolAssumption
    <3> QED BY <3>1, <3>2
  <2>2. CASE p \notin closed
    BY <1>1, <2>2, BeforeThat
  <2> QED BY <2>1, <2>2
<1>6. idle' \in [Pools -> Seq({"good", "broken"})]
  BY <1>1, <1>5
<1>7. /\ waiting' = Empty /\ held' = NobodyHolds /\ backlog' = <<>> /\ calls' = NoCalls
      /\ threads' \in [Workers -> {"gone", None}]
  BY <1>1, OnlyServing, NobodysThreads DEF jobs
<1>8. ready' \in BOOLEAN \cup {None}
  BY <1>1, BeforeThat
<1> QED BY <1>4, <1>5, <1>6, <1>7, <1>8, DesertedStep

\* A close that raises leaves tracing open: it is the last.
LEMMA CloseFailsKeeps ==
  ASSUME LifeInv, CloseFails
  PROVE  LifeInv'
<1>1. /\ phase = "stopping" /\ UNCHANGED <<idle, waiting, held, backlog, threads, calls, ready>>
      /\ phase' = "exited" /\ cause' = "close"
  BY DEF CloseFails, Exit, dbVars
<1>2. step \in 1..8 /\ open = Enabled \ ClosedBefore(step)
  BY <1>1 DEF LifeInv, Staged
<1>3. PICK i \in DOMAIN CloseOrder[step] :
        open' = open \ {CloseOrder[step][j] : j \in 1..(i - 1)}
  BY DEF CloseFails
<1>4. "tracing" \notin {CloseOrder[step][j] : j \in 1..(i - 1)}
  BY <1>2, OrderOfClosing
<1>5. "tracing" \notin ClosedBefore(step)
  BY <1>2, OrderOfClosing
<1>6. open' \subseteq Enabled /\ ("tracing" \in Enabled => "tracing" \in open')
  BY <1>2, <1>3, <1>4, <1>5
<1>7. Staged'
  BY <1>1, <1>6, LifecycleAssumption DEF Staged
<1>8. /\ waiting' = Empty /\ held' = NobodyHolds /\ backlog' = <<>> /\ calls' = NoCalls
      /\ threads' \in [Workers -> {"gone", None}]
  BY <1>1, OnlyServing, NobodysThreads
<1>9. /\ idle' \in [Pools -> Seq({"good", "broken"})]
      /\ \A p \in Pools : Len(idle'[p]) <= PoolMax[p]
      /\ ready' \in BOOLEAN \cup {None}
  BY <1>1, BeforeThat
<1> QED BY <1>7, <1>8, <1>9, DesertedStep

-----------------------------------------------------------------------------
(* The invariant, and what it is for *)

\* The first process begins with nothing open.
LEMMA InitKeeps ==
  ASSUME Init
  PROVE  LifeInv
<1>1. /\ idle = Empty /\ waiting = Empty /\ held = NobodyHolds /\ backlog = <<>>
      /\ threads = [w \in Workers |-> None]
      /\ phase = "starting" /\ step = 1 /\ open = {} /\ calls = NoCalls
      /\ ready = None /\ cause = None
  BY DEF Init, PoolInit
<1>2. ToSet(<<>>) = {} /\ NoRepeats(<<>>)
  BY DEF ToSet, NoRepeats
<1>3. /\ \A p \in Pools : waiting[p] = <<>> /\ idle[p] = <<>>
      /\ \A u \in Users : held[u] = None
  BY <1>1 DEF Empty, NobodyHolds
<1>4. \A p \in Pools : Open(p) <= PoolMax[p]
  <2> TAKE p \in Pools
  <2>1. Taken(p) = 0
    BY <1>1, NothingTaken
  <2>2. Len(<<>>) = 0 /\ PoolMax[p] \in Nat
    BY PoolAssumption
  <2> QED BY <1>3, <2>1, <2>2 DEF Open
<1>5. PoolInv
  <2>1. /\ idle \in [Pools -> Seq({"good", "broken"})] /\ waiting \in [Pools -> Seq(Users)]
        /\ held \in [Users -> Connections \cup {None}]
    BY <1>1 DEF Empty, NobodyHolds
  <2>2. OnceInLine
    BY <1>2, <1>3 DEF OnceInLine
  <2> QED BY <1>3, <1>4, <2>1, <2>2 DEF PoolInv
<1>6. \A w \in Workers : threads[w] = None
  BY <1>1
<1>7. None \notin Calls
  BY PoolAssumption, LifecycleAssumption
<1>8. JobInv
  BY <1>1, <1>2, <1>6, <1>7 DEF JobInv
<1>9. Placed
  BY <1>1, <1>2, <1>3, <1>6, <1>7, LifecycleAssumption DEF Placed, At, HasJob
<1>10. Staged
  <2>1. OpenedBefore(1) = {}
    BY OrderOfOpening, Zenon
  <2> QED BY <1>1, <2>1 DEF Staged
<1>11. calls \in [Calls -> Seq(Kinds)]
  BY <1>1 DEF NoCalls
<1> QED BY <1>1, <1>5, <1>8, <1>9, <1>10, <1>11 DEF LifeInv, Deserted

\* Every step of the bridge and of what is around it.
LEMMA NextKeeps ==
  ASSUME LifeInv, [Next]_vars
  PROVE  LifeInv'
<1>1. CASE UNCHANGED vars
  <2>1. /\ UNCHANGED connections /\ UNCHANGED jobs /\ UNCHANGED process
        /\ UNCHANGED calls /\ UNCHANGED ready
    BY <1>1 DEF vars, dbVars, connections, jobs, process
  <2>2. /\ PoolInv' /\ \A u \in Users, p \in Pools : At(u, p)' <=> At(u, p)
        /\ JobInv' /\ \A c \in Calls : HasJob(c)' <=> HasJob(c)
    BY <2>1, PoolsStay, JobsStay DEF LifeInv
  <2>3. Deserted => Deserted'
    BY <2>1 DEF Deserted, connections, jobs
  <2> QED BY <2>1, <2>2, <2>3, SteadyStep, LifecycleAssumption DEF LifeInv
<1>2. CASE DatabaseTurns \/ NatsTurns
  BY <1>2, ServicesKeep
<1>3. CASE Restart \/ OpenNext \/ OpenFails \/ Stop \/ Close \/ CloseFails
  BY <1>3, RestartKeeps, OpenNextKeeps, OpenFailsKeeps, StopKeeps, CloseKeeps, CloseFailsKeeps
<1>4. ASSUME NEW c \in Calls,
             \/ Begin(c) \/ Request(c) \/ Statement(c) \/ NoConnection(c)
             \/ UseClient(c) \/ HandOver(c) \/ Cancel(c)
      PROVE  LifeInv'
  BY <1>4, BeginKeeps, RequestKeeps, StatementKeeps, NoConnectionKeeps, UseClientKeeps,
     HandOverKeeps, CancelKeeps
<1>5. ASSUME NEW w \in Workers, StartJob(w) \/ EndJob(w) PROVE LifeInv'
  BY <1>5, StartJobKeeps, EndJobKeeps
<1>6. CASE Ask \/ Answer \/ AskFails
  BY <1>6, AskKeeps, ProbeKeeps
<1>7. ASSUME NEW p \in Pools, Refill(p) PROVE LifeInv'
  BY <1>7, RefillKeeps
<1> QED BY <1>1, <1>2, <1>3, <1>4, <1>5, <1>6, <1>7 DEF Next

\* At every moment of every process, everybody is where their call is, and open is what
\* the lifespan has opened and not yet closed.
THEOREM AlwaysInPlace == Spec => []LifeInv
<1>1. Init => LifeInv
  BY InitKeeps
<1>2. LifeInv /\ [Next]_vars => LifeInv'
  BY NextKeeps
<1> QED BY <1>1, <1>2, PTL DEF Spec

\* However calls come, fail, time out and are cancelled, and the database goes and comes
\* back, no pool has more connections than it may, none is idle while somebody is in
\* line, and nobody holds one while in line for another (db.py).
THEOREM PoolsAreKept == Spec => []TypeOK
<1>1. LifeInv => TypeOK
  <2> SUFFICES ASSUME LifeInv PROVE TypeOK
    OBVIOUS
  <2>1. /\ phase \in {"starting", "serving", "stopping", "exited"}
        /\ phase = "exited" <=> cause # None
    BY DEF LifeInv, Staged
  <2>2. open \subseteq Enabled
    BY DEF LifeInv, Staged, OpenedBefore
  <2>3. step \in 1..Len(IF phase = "starting" THEN OpenOrder ELSE CloseOrder) \/ phase = "exited"
    <3>1. Len(OpenOrder) = 10 /\ Len(CloseOrder) = 8
      BY OrderOfOpening, OrderOfClosing, Zenon
    <3>2. CASE phase = "starting"
      <4>1. step \in 1..10
        BY <3>2 DEF LifeInv, Staged
      <4> QED BY <3>1, <3>2, <4>1
    <3>3. CASE phase \in {"serving", "stopping"}
      <4>1. step \in 1..8
        BY <3>3 DEF LifeInv, Staged
      <4> QED BY <3>1, <3>3, <4>1
    <3> QED BY <2>1, <3>2, <3>3
  <2>4. \A p \in Pools : Open(p) <= PoolMax[p] /\ (waiting[p] = <<>> \/ idle[p] = <<>>)
    BY DEF LifeInv, PoolInv
  <2>5. \A u \in Users : held[u] # None => ~Waits(u)
    BY DEF LifeInv, PoolInv
  <2>6. ASSUME NEW c \in Calls, held[c] # None PROVE Uses(c, {held[c].pool})
    <3>1. held[c].pool \in Pools
      BY <2>6, LifecycleAssumption DEF LifeInv, PoolInv, Connections
    <3>2. At(c, held[c].pool)
      BY <2>6 DEF At
    <3> QED BY <3>1, <3>2 DEF LifeInv, Placed
  <2>7. ready \in BOOLEAN \cup {None}
    BY DEF LifeInv
  <2> QED BY <2>1, <2>2, <2>3, <2>4, <2>5, <2>6, <2>7 DEF TypeOK
<1> QED BY <1>1, AlwaysInPlace, PTL

\* Whatever a call still has to use is open until it is done, also while the server
\* stops, and whenever anything is open it is traced (build_app, lifespan).
THEOREM NothingClosesUnderACall == Spec => []CallsFindTheirs
<1>1. LifeInv => CallsFindTheirs
  <2> SUFFICES ASSUME LifeInv PROVE CallsFindTheirs
    OBVIOUS
  <2>1. ASSUME open # {}, "tracing" \in Enabled PROVE "tracing" \in open
    <3>1. CASE phase = "starting"
      BY <2>1, <3>1, OrderOfOpening DEF LifeInv, Staged
    <3>2. CASE phase = "serving"
      BY <2>1, <3>2 DEF LifeInv, Staged
    <3>3. CASE phase = "stopping"
      BY <2>1, <3>3, OrderOfClosing DEF LifeInv, Staged
    <3>4. CASE phase = "exited"
      BY <2>1, <3>4 DEF LifeInv, Staged
    <3> QED BY <3>1, <3>2, <3>3, <3>4 DEF LifeInv, Staged
  <2>2. ASSUME NEW c \in Calls PROVE ToSet(calls[c]) \subseteq open \cup {"thread"}
    <3>1. CASE phase = "serving"
      <4>1. open = Enabled /\ calls[c] \in Seq(Kinds)
        BY <3>1 DEF LifeInv, Staged
      <4>2. ToSet(calls[c]) \subseteq Kinds
        BY <4>1 DEF ToSet
      <4> QED BY <4>1, <4>2 DEF Kinds
    <3>2. CASE phase # "serving"
      <4>1. calls[c] = <<>>
        BY <3>2, OnlyServing
      <4> QED BY <4>1 DEF ToSet
    <3> QED BY <3>1, <3>2
  <2> QED BY <2>1, <2>2 DEF CallsFindTheirs
<1> QED BY <1>1, AlwaysInPlace, PTL
=============================================================================
