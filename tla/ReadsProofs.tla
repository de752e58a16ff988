----------------------------- MODULE ReadsProofs -----------------------------
(***************************************************************************)
(* Theorems about the tools that read: the listings, for every list of     *)
(* tables, buckets, keys, datastores and snapshots, every limit and page   *)
(* size and every way the thing that is listed moves meanwhile, and the    *)
(* presence, for any people, rows and windows.  A part each, in this       *)
(* order:                                                                  *)
(*                                                                         *)
(* - lists in an order: Orders puts a finite set on a list without         *)
(*   recursion, and what it keeps of a list it keeps in its order;         *)
(* - the catalog of tables: SourcesInv says what a walk has noted of the   *)
(*   database (Sees, Trails), that all it has listed holds of that (Entry- *)
(*   Holds) and that none that was there all through is neither listed nor *)
(*   to come (NoneMissed).  A walk that ends keeps what no later step      *)
(*   takes away, Finished, in its caller and in the cache;                 *)
(* - the backup server: PbsInv says that each of the three answers was so  *)
(*   at some time of the call, Gathered, and each is joined by its own     *)
(*   names;                                                                *)
(* - the object store: S3Inv says that a listing under way holds, up to    *)
(*   the last key read, only what stood and all that stood all through     *)
(*   (ReadTo).  A summary of such a listing holds, and so does that of the *)
(*   part of it that falls under a level;                                  *)
(* - the three together;                                                   *)
(* - presence: FoldHolds says what the folding of the first changes has    *)
(*   made, and EmptyHolds what the joining of the first cuts has.  Both go *)
(*   on from one number to the next, so up to any (CountingUp): a least    *)
(*   number at which they do not would have one before it at which they    *)
(*   do.                                                                   *)
(***************************************************************************)
EXTENDS Listings, Presence, FunctionTheorems, FiniteSetTheorems, SequenceTheorems, TLAPS

-----------------------------------------------------------------------------
(* Lemmas about lists in an order *)

\* An order of which no element is before itself and of two one is, and a list of a set
\* in such an order, each element once.
StrictlyOrders(order, S) ==
  /\ \A x \in S : <<x, x>> \notin order
  /\ \A x, y, z \in S : <<x, y>> \in order /\ <<y, z>> \in order => <<x, z>> \in order
  /\ \A x, y \in S : x # y => <<x, y>> \in order \/ <<y, x>> \in order

Lists(list, S, order) ==
  /\ list \in [1..Cardinality(S) -> S]
  /\ \A x \in S : \E n \in 1..Cardinality(S) : list[n] = x
  /\ \A m, n \in 1..Cardinality(S) : m < n => <<list[m], list[n]>> \in order

\* A strict order puts the elements of a finite set on a list, each once.
LEMMA OrderedByLists ==
  ASSUME NEW S, IsFiniteSet(S), NEW order,
         \A x \in S : <<x, x>> \notin order,
         \A x, y, z \in S : <<x, y>> \in order /\ <<y, z>> \in order => <<x, z>> \in order,
         \A x, y \in S : x # y => <<x, y>> \in order \/ <<y, x>> \in order
  PROVE  /\ Cardinality(S) \in Nat
         /\ OrderedBy(S, order) \in [1..Cardinality(S) -> S]
         /\ \A x \in S : \E n \in 1..Cardinality(S) : OrderedBy(S, order)[n] = x
         /\ \A m, n \in 1..Cardinality(S) :
              m < n => <<OrderedBy(S, order)[m], OrderedBy(S, order)[n]>> \in order
<1> DEFINE before(x) == {y \in S : <<y, x>> \in order}
           rank == [x \in S |-> Cardinality(before(x)) + 1]
           N == Cardinality(S)
           list == OrderedBy(S, order)
<1>1. N \in Nat
  BY FS_CardinalityType
<1>2. \A x \in S : IsFiniteSet(before(x)) /\ Cardinality(before(x)) \in Nat
  <2>1. TAKE x \in S
  <2>2. before(x) \in SUBSET S
    OBVIOUS
  <2> QED BY <2>2, FS_Subset, FS_CardinalityType
<1>3. ASSUME NEW x \in S, NEW y \in S, <<x, y>> \in order
      PROVE  rank[x] < rank[y]
  <2>1. before(x) \in SUBSET before(y)
    BY <1>3
  <2>2. x \in before(y) /\ x \notin before(x)
    BY <1>3
  <2>3. /\ Cardinality(before(x)) <= Cardinality(before(y))
        /\ Cardinality(before(x)) # Cardinality(before(y))
    BY <1>2, <2>1, <2>2, FS_Subset
  <2> HIDE DEF before
  <2> QED BY <1>2, <2>3
<1>4. \A x \in S : rank[x] \in 1..N
  <2>1. TAKE x \in S
  <2>2. before(x) \in SUBSET S /\ x \notin before(x)
    OBVIOUS
  <2>3. Cardinality(before(x)) <= N /\ Cardinality(before(x)) # N
    BY <2>2, FS_Subset
  <2> HIDE DEF before, N
  <2> QED BY <1>1, <1>2, <2>3
<1>5. \A x, y \in S : rank[x] = rank[y] => x = y
  <2> SUFFICES ASSUME NEW x \in S, NEW y \in S, x # y PROVE rank[x] # rank[y]
    OBVIOUS
  <2>1. rank[x] \in Nat /\ rank[y] \in Nat
    BY <1>1, <1>4
  <2>2. <<x, y>> \in order \/ <<y, x>> \in order
    OBVIOUS
  <2>3. rank[x] < rank[y] \/ rank[y] < rank[x]
    BY <1>3, <2>2
  <2> HIDE DEF rank
  <2> QED BY <2>1, <2>3
<1>6. rank \in Injection(S, 1..N)
  <2>1. rank \in [S -> 1..N]
    BY <1>4
  <2> HIDE DEF rank
  <2> QED BY <1>5, <2>1, Fun_IsInj
<1>7. rank \in Surjection(S, 1..N)
  <2>1. IsFiniteSet(1..N) /\ Cardinality(1..N) = N
    BY <1>1, FS_Interval
  <2> HIDE DEF rank
  <2> QED BY <1>6, <2>1, FS_Injection
<1>8. \A n \in 1..N : list[n] \in S /\ rank[list[n]] = n
  <2>1. TAKE n \in 1..N
  <2>2. \E x \in S : rank[x] = n
    <3> HIDE DEF rank
    <3> QED BY <1>7 DEF Surjection
  <2>3. \E x \in S : Cardinality({y \in S : <<y, x>> \in order}) + 1 = n
    BY <2>2
  <2>4. list[n] = Nth(S, order, n)
    BY DEF OrderedBy
  <2>5. /\ Nth(S, order, n) \in S
        /\ Cardinality({y \in S : <<y, Nth(S, order, n)>> \in order}) + 1 = n
    BY <2>3 DEF Nth
  <2> QED BY <2>4, <2>5
<1>9. list \in [1..N -> S]
  <2>1. list = [n \in 1..N |-> list[n]]
    BY DEF OrderedBy
  <2> HIDE DEF list
  <2> QED BY <1>8, <2>1
<1>10. \A x \in S : \E n \in 1..N : list[n] = x
  <2>1. TAKE x \in S
  <2>2. rank[x] \in 1..N
    BY <1>4
  <2>3. list[rank[x]] = x
    <3> HIDE DEF rank, list
    <3> QED BY <1>5, <1>8, <2>2
  <2> HIDE DEF rank, list
  <2> QED BY <2>2, <2>3
<1>11. ASSUME NEW m \in 1..N, NEW n \in 1..N, m < n
       PROVE  <<list[m], list[n]>> \in order
  <2>1. list[m] \in S /\ list[n] \in S /\ rank[list[m]] = m /\ rank[list[n]] = n
    BY <1>8
  <2> HIDE DEF rank, list
  <2>2. list[m] # list[n]
    BY <2>1, <1>11, <1>1
  <2>3. CASE <<list[n], list[m]>> \in order
    <3>1. n < m
      BY <1>3, <2>1, <2>3
    <3> QED BY <3>1, <1>11, <1>1
  <2> QED BY <2>1, <2>2, <2>3
<1> HIDE DEF list
<1> QED BY <1>1, <1>9, <1>10, <1>11 DEF list

\* The same, of what makes an order and a list of it.
LEMMA OrderedList ==
  ASSUME NEW S, IsFiniteSet(S), NEW order, StrictlyOrders(order, S)
  PROVE  Lists(OrderedBy(S, order), S, order)
<1>1. /\ \A x \in S : <<x, x>> \notin order
      /\ \A x, y, z \in S : <<x, y>> \in order /\ <<y, z>> \in order => <<x, z>> \in order
      /\ \A x, y \in S : x # y => <<x, y>> \in order \/ <<y, x>> \in order
  BY DEF StrictlyOrders
<1>2. /\ OrderedBy(S, order) \in [1..Cardinality(S) -> S]
      /\ \A x \in S : \E n \in 1..Cardinality(S) : OrderedBy(S, order)[n] = x
      /\ \A m, n \in 1..Cardinality(S) :
           m < n => <<OrderedBy(S, order)[m], OrderedBy(S, order)[n]>> \in order
  BY <1>1, OrderedByLists
<1> QED BY <1>2 DEF Lists

\* A finite set of numbers, the smallest first.
LEMMA AscendingLists ==
  ASSUME NEW P \in SUBSET Nat, IsFiniteSet(P)
  PROVE  /\ Cardinality(P) \in Nat
         /\ Ascending(P) \in [1..Cardinality(P) -> P]
         /\ \A p \in P : \E n \in 1..Cardinality(P) : Ascending(P)[n] = p
         /\ \A m, n \in 1..Cardinality(P) : m < n => Ascending(P)[m] < Ascending(P)[n]
<1> DEFINE less == {p \in P \X P : p[1] < p[2]}
<1>1. \A x, y \in P : <<x, y>> \in less <=> x < y
  OBVIOUS
<1>2. Ascending(P) = OrderedBy(P, less)
  BY DEF Ascending
<1> HIDE DEF less
<1>3. /\ \A x \in P : <<x, x>> \notin less
      /\ \A x, y, z \in P : <<x, y>> \in less /\ <<y, z>> \in less => <<x, z>> \in less
      /\ \A x, y \in P : x # y => <<x, y>> \in less \/ <<y, x>> \in less
  BY <1>1
<1>4. /\ Cardinality(P) \in Nat
      /\ OrderedBy(P, less) \in [1..Cardinality(P) -> P]
      /\ \A x \in P : \E n \in 1..Cardinality(P) : OrderedBy(P, less)[n] = x
      /\ \A m, n \in 1..Cardinality(P) :
           m < n => <<OrderedBy(P, less)[m], OrderedBy(P, less)[n]>> \in less
  BY <1>3, OrderedByLists
<1>5. \A n \in 1..Cardinality(P) : Ascending(P)[n] \in P
  BY <1>2, <1>4
<1> QED BY <1>1, <1>2, <1>4, <1>5

\* A finite set of numbers, the largest first.
LEMMA DescendingLists ==
  ASSUME NEW P \in SUBSET Nat, IsFiniteSet(P)
  PROVE  /\ Cardinality(P) \in Nat
         /\ Descending(P) \in [1..Cardinality(P) -> P]
         /\ \A p \in P : \E n \in 1..Cardinality(P) : Descending(P)[n] = p
         /\ \A m, n \in 1..Cardinality(P) : m < n => Descending(P)[m] > Descending(P)[n]
<1> DEFINE more == {p \in P \X P : p[1] > p[2]}
<1>1. \A x, y \in P : <<x, y>> \in more <=> x > y
  OBVIOUS
<1>2. Descending(P) = OrderedBy(P, more)
  BY DEF Descending
<1> HIDE DEF more
<1>3. /\ \A x \in P : <<x, x>> \notin more
      /\ \A x, y, z \in P : <<x, y>> \in more /\ <<y, z>> \in more => <<x, z>> \in more
      /\ \A x, y \in P : x # y => <<x, y>> \in more \/ <<y, x>> \in more
  BY <1>1
<1>4. /\ Cardinality(P) \in Nat
      /\ OrderedBy(P, more) \in [1..Cardinality(P) -> P]
      /\ \A x \in P : \E n \in 1..Cardinality(P) : OrderedBy(P, more)[n] = x
      /\ \A m, n \in 1..Cardinality(P) :
           m < n => <<OrderedBy(P, more)[m], OrderedBy(P, more)[n]>> \in more
  BY <1>3, OrderedByLists
<1>5. \A n \in 1..Cardinality(P) : Descending(P)[n] \in P
  BY <1>2, <1>4
<1> QED BY <1>1, <1>2, <1>4, <1>5

\* A finite set of numbers that is not empty has a smallest and a largest.
LEMMA MinAndMax ==
  ASSUME NEW P \in SUBSET Nat, IsFiniteSet(P), P # {}
  PROVE  /\ Min(P) \in P /\ \A p \in P : Min(P) <= p
         /\ Max(P) \in P /\ \A p \in P : p <= Max(P)
<1> DEFINE list == Ascending(P)
           N == Cardinality(P)
<1>1. /\ N \in Nat /\ list \in [1..N -> P]
      /\ \A p \in P : \E n \in 1..N : list[n] = p
      /\ \A m, n \in 1..N : m < n => list[m] < list[n]
  BY AscendingLists
<1> HIDE DEF list, N
<1>2. 1 \in 1..N /\ N \in 1..N
  <2>1. PICK p \in P : TRUE
    OBVIOUS
  <2>2. PICK n \in 1..N : list[n] = p
    BY <1>1
  <2> QED BY <1>1, <2>2
<1>3. list[1] \in P /\ list[N] \in P
  BY <1>1, <1>2
<1>4. ASSUME NEW p \in P PROVE list[1] <= p /\ p <= list[N]
  <2>1. PICK n \in 1..N : list[n] = p
    BY <1>1
  <2>2. n = 1 \/ 1 < n
    BY <1>1
  <2>3. n = N \/ n < N
    BY <1>1
  <2>4. list[1] \in Nat /\ list[N] \in Nat /\ list[n] \in Nat
    BY <1>3, <2>1
  <2>5. list[1] <= list[n]
    BY <1>1, <1>2, <2>2, <2>4
  <2>6. list[n] <= list[N]
    BY <1>1, <1>2, <2>3, <2>4
  <2> QED BY <2>1, <2>5, <2>6
<1>5. \E p \in P : \A q \in P : p <= q
  BY <1>3, <1>4
<1>6. \E p \in P : \A q \in P : p >= q
  <2>1. \A q \in P : list[N] >= q
    BY <1>3, <1>4
  <2> QED BY <1>3, <2>1
<1>7. Min(P) \in P /\ \A p \in P : Min(P) <= p
  BY <1>5 DEF Min
<1>8. Max(P) \in P /\ \A p \in P : Max(P) >= p
  BY <1>6 DEF Max
<1>9. \A p \in P : p <= Max(P)
  BY <1>8
<1> QED BY <1>7, <1>8, <1>9

\* What is kept of a list is at growing places of it, all of T that it has.
KeepsInOrder(list, T, kept, places) ==
  /\ places \in [1..Len(kept) -> 1..Len(list)]
  /\ \A n \in 1..Len(kept) : kept[n] = list[places[n]]
  /\ \A m, n \in 1..Len(kept) : m < n => places[m] < places[n]
  /\ \A i \in 1..Len(list) : list[i] \in T => \E n \in 1..Len(kept) : places[n] = i

\* Kept keeps a list in order.
LEMMA KeptLists ==
  ASSUME NEW X, NEW list \in Seq(X), NEW T
  PROVE  /\ Kept(list, T) \in Seq(X \cap T) /\ Len(Kept(list, T)) \in Nat
         /\ KeepsInOrder(list, T, Kept(list, T), PlacesOf(list, T))
<1> DEFINE kept == Kept(list, T)
           places == PlacesOf(list, T)
<1> DEFINE P == {i \in DOMAIN list : list[i] \in T}
           N == Cardinality(P)
<1>1. DOMAIN list = 1..Len(list) /\ Len(list) \in Nat
  OBVIOUS
<1>2. P \in SUBSET Nat /\ P \in SUBSET (1..Len(list)) /\ IsFiniteSet(P)
  <2>1. P \in SUBSET (1..Len(list)) /\ IsFiniteSet(1..Len(list))
    BY <1>1, FS_Interval
  <2> QED BY <2>1, FS_Subset, <1>1
<1>3. /\ N \in Nat /\ places \in [1..N -> P]
      /\ \A p \in P : \E n \in 1..N : places[n] = p
      /\ \A m, n \in 1..N : m < n => places[m] < places[n]
  BY <1>2, AscendingLists DEF PlacesOf
<1>4. DOMAIN places = 1..N /\ kept = [n \in 1..N |-> list[places[n]]]
  BY <1>3 DEF Kept
<1> HIDE DEF kept, places
<1>5. \A n \in 1..N : list[places[n]] \in X \cap T
  <2>1. TAKE n \in 1..N
  <2>2. places[n] \in P
    BY <1>3
  <2> QED BY <2>2, <1>1
<1>6. \A i \in 1..Len(list) : list[i] \in T => i \in P
  BY <1>1
<1> HIDE DEF P, N
<1>7. kept \in Seq(X \cap T) /\ Len(kept) = N
  BY <1>3, <1>4, <1>5
<1>8. places \in [1..N -> 1..Len(list)] /\ \A n \in 1..N : kept[n] = list[places[n]]
  BY <1>2, <1>3, <1>4
<1>9. \A i \in 1..Len(list) : list[i] \in T => \E n \in 1..N : places[n] = i
  BY <1>3, <1>6
<1>10. KeepsInOrder(list, T, kept, places)
  BY <1>3, <1>7, <1>8, <1>9 DEF KeepsInOrder
<1> QED BY <1>3, <1>7, <1>10 DEF kept, places

\* An element of T is kept if and only if it is in the list.
LEMMA KeptMembers ==
  ASSUME NEW X, NEW list \in Seq(X), NEW T, NEW x \in T
  PROVE  (\E i \in 1..Len(list) : list[i] = x) <=>
           \E n \in 1..Len(Kept(list, T)) : Kept(list, T)[n] = x
<1> DEFINE kept == Kept(list, T)
           places == PlacesOf(list, T)
<1> HIDE DEF kept, places
<1>1. kept = Kept(list, T) /\ places = PlacesOf(list, T)
  BY DEF kept, places
<1>2. /\ places \in [1..Len(kept) -> 1..Len(list)]
      /\ \A n \in 1..Len(kept) : kept[n] = list[places[n]]
      /\ \A i \in 1..Len(list) : list[i] \in T => \E n \in 1..Len(kept) : places[n] = i
  <2>1. Len(kept) \in Nat /\ KeepsInOrder(list, T, kept, places)
    BY KeptLists DEF kept, places
  <2> QED BY <2>1 DEF KeepsInOrder
<1>3. ASSUME NEW i \in 1..Len(list), list[i] = x PROVE \E n \in 1..Len(kept) : kept[n] = x
  BY <1>2, <1>3
<1>4. ASSUME NEW n \in 1..Len(kept), kept[n] = x PROVE \E i \in 1..Len(list) : list[i] = x
  <2>1. places[n] \in 1..Len(list) /\ list[places[n]] = x
    BY <1>2, <1>4
  <2> QED BY <2>1
<1> QED BY <1>3, <1>4 DEF kept

\* Of a list without repetitions a list without repetitions is kept.
LEMMA KeptOnce ==
  ASSUME NEW X, NEW list \in Seq(X), NEW T, IsInjective(list),
         NEW m \in 1..Len(Kept(list, T)), NEW n \in 1..Len(Kept(list, T)),
         Kept(list, T)[m] = Kept(list, T)[n]
  PROVE  m = n
<1> DEFINE kept == Kept(list, T)
           places == PlacesOf(list, T)
<1> HIDE DEF kept, places
<1>1. /\ kept = Kept(list, T) /\ places = PlacesOf(list, T)
      /\ m \in 1..Len(kept) /\ n \in 1..Len(kept) /\ kept[m] = kept[n]
  BY DEF kept, places
<1>2. /\ places \in [1..Len(kept) -> 1..Len(list)] /\ Len(kept) \in Nat
      /\ \A k \in 1..Len(kept) : kept[k] = list[places[k]]
      /\ \A m1, m2 \in 1..Len(kept) : m1 < m2 => places[m1] < places[m2]
  <2>1. Len(kept) \in Nat /\ KeepsInOrder(list, T, kept, places)
    BY KeptLists DEF kept, places
  <2> QED BY <2>1 DEF KeepsInOrder
<1>3. places[m] \in DOMAIN list /\ places[n] \in DOMAIN list
  BY <1>1, <1>2
<1>4. list[places[m]] = list[places[n]]
  BY <1>1, <1>2
<1>5. places[m] = places[n]
  BY <1>3, <1>4 DEF IsInjective
<1>6. ~(m < n) /\ ~(n < m)
  <2>1. places[m] \in Nat /\ places[n] \in Nat
    BY <1>1, <1>2
  <2> QED BY <1>1, <1>2, <1>5, <2>1
<1> QED BY <1>1, <1>2, <1>6

\* A list in another order.
Rearranges(sorted, list) ==
  \E places \in [1..Len(list) -> 1..Len(list)] :
    /\ \A n \in 1..Len(list) : sorted[n] = list[places[n]]
    /\ \A i \in 1..Len(list) : \E n \in 1..Len(list) : places[n] = i
    /\ \A m, n \in 1..Len(list) : places[m] = places[n] => m = n

\* A list by its times is the same list in another order, the newest first.
LEMMA NewestFirstLists ==
  ASSUME NEW X, NEW list \in Seq(X), \A x \in X : x.at \in Nat
  PROVE  /\ NewestFirst(list) \in Seq(X)
         /\ Len(NewestFirst(list)) = Len(list)
         /\ \A m, n \in 1..Len(list) : m <= n => NewestFirst(list)[n].at <= NewestFirst(list)[m].at
         /\ Rearranges(NewestFirst(list), list)
<1> DEFINE all == DOMAIN list
           newer == {p \in all \X all : \/ list[p[1]].at > list[p[2]].at
                                        \/ list[p[1]].at = list[p[2]].at /\ p[1] < p[2]}
           places == OrderedBy(all, newer)
           sorted == NewestFirst(list)
           N == Len(list)
<1>1. all = 1..N /\ N \in Nat /\ IsFiniteSet(all) /\ Cardinality(all) = N
  <2>1. all = 1..N /\ N \in Nat
    OBVIOUS
  <2> QED BY <2>1, FS_Interval
<1>2. \A i \in all : list[i] \in X /\ list[i].at \in Nat
  BY <1>1
<1>3. \A i, j \in all : <<i, j>> \in newer <=>
        list[i].at > list[j].at \/ (list[i].at = list[j].at /\ i < j)
  OBVIOUS
<1>4. sorted = [n \in DOMAIN places |-> list[places[n]]]
  BY DEF NewestFirst
<1>5. /\ \A i \in all : <<i, i>> \notin newer
      /\ \A i, j, k \in all : <<i, j>> \in newer /\ <<j, k>> \in newer => <<i, k>> \in newer
      /\ \A i, j \in all : i # j => <<i, j>> \in newer \/ <<j, i>> \in newer
  <2> HIDE DEF newer
  <2>1. \A i \in all : i \in Nat
    BY <1>1
  <2> HIDE DEF all
  <2>2. \A i \in all : <<i, i>> \notin newer
    BY <1>2, <1>3, <2>1
  <2>3. \A i, j \in all : i # j => <<i, j>> \in newer \/ <<j, i>> \in newer
    BY <1>2, <1>3, <2>1
  <2>4. ASSUME NEW i \in all, NEW j \in all, NEW k \in all, <<i, j>> \in newer, <<j, k>> \in newer
        PROVE  <<i, k>> \in newer
    <3>1. /\ list[i].at \in Nat /\ list[j].at \in Nat /\ list[k].at \in Nat
          /\ i \in Nat /\ j \in Nat /\ k \in Nat
      BY <1>2, <2>1
    <3>2. list[i].at > list[j].at \/ (list[i].at = list[j].at /\ i < j)
      BY <1>3, <2>4
    <3>3. list[j].at > list[k].at \/ (list[j].at = list[k].at /\ j < k)
      BY <1>3, <2>4
    <3>4. list[i].at > list[k].at \/ (list[i].at = list[k].at /\ i < k)
      BY <3>1, <3>2, <3>3
    <3> QED BY <1>3, <3>4
  <2> QED BY <2>2, <2>3, <2>4
<1>6. /\ places \in [1..N -> all]
      /\ \A i \in all : \E n \in 1..N : places[n] = i
      /\ \A m, n \in 1..N : m < n => <<places[m], places[n]>> \in newer
  <2> HIDE DEF newer, all, places
  <2>1. StrictlyOrders(newer, all)
    BY <1>5 DEF StrictlyOrders
  <2>2. Lists(OrderedBy(all, newer), all, newer)
    BY <1>1, <2>1, OrderedList
  <2>3. Lists(places, all, newer) /\ Cardinality(all) = N
    BY <1>1, <2>2 DEF places
  <2> HIDE DEF N
  <2> QED BY <2>3 DEF Lists
<1> HIDE DEF newer, places, all, sorted
<1>7. sorted \in Seq(X) /\ Len(sorted) = N /\ \A n \in 1..N : sorted[n] = list[places[n]]
  BY <1>1, <1>2, <1>4, <1>6
<1>8. \A m, n \in 1..N : m < n => sorted[n].at <= sorted[m].at
  <2> SUFFICES ASSUME NEW m \in 1..N, NEW n \in 1..N, m < n PROVE sorted[n].at <= sorted[m].at
    OBVIOUS
  <2>1. places[m] \in all /\ places[n] \in all /\ <<places[m], places[n]>> \in newer
    BY <1>6
  <2>2. /\ list[places[m]].at \in Nat /\ list[places[n]].at \in Nat
        /\ list[places[m]].at > list[places[n]].at \/ list[places[m]].at = list[places[n]].at
    BY <1>2, <1>3, <2>1
  <2> QED BY <1>7, <2>2
<1>9. \A m, n \in 1..N : m <= n => sorted[n].at <= sorted[m].at
  <2>1. \A n \in 1..N : sorted[n].at \in Nat
    BY <1>7
  <2> QED BY <1>1, <1>8, <2>1
<1>10. \A m, n \in 1..N : places[m] = places[n] => m = n
  <2> SUFFICES ASSUME NEW m \in 1..N, NEW n \in 1..N, places[m] = places[n] PROVE m = n
    OBVIOUS
  <2>1. places[m] \in all /\ <<places[m], places[n]>> \notin newer /\ <<places[n], places[m]>> \notin newer
    BY <1>5, <1>6
  <2>2. ~(m < n) /\ ~(n < m)
    BY <1>6, <2>1
  <2> QED BY <1>1, <2>2
<1>11. Rearranges(sorted, list)
  <2>1. places \in [1..N -> 1..N] /\ \A i \in 1..N : \E n \in 1..N : places[n] = i
    BY <1>1, <1>6
  <2> QED BY <1>7, <1>10, <2>1 DEF Rearranges
<1> QED BY <1>7, <1>9, <1>11 DEF sorted

-----------------------------------------------------------------------------
(* The catalog of tables: the inductive invariant *)

Times == Nat \cup {None}
Entries == [source : Sources, column : BOOLEAN, min : Times, max : Times]
Walks == [ever : SUBSET Sources, always : SUBSET Sources, first : [Sources -> Times],
          empty : SUBSET Sources, began : Nat]
RowSpans == [oldest : Nat, newest : Nat]
WalkSteps == {"hypertables", "aggregates", "column", "span", "newest"}
CallRecords == [pc : {"idle", "done"} \cup WalkSteps, asked : Times, catalog : Seq(Entries),
                left : Seq(Sources), span : RowSpans \cup {None}, walk : Walks \cup {None},
                ended : Times, outcome : {None, "served", "failed"}]

SourcesShape ==
  /\ now \in Nat
  /\ born \in [Sources -> Times] /\ dropped \in [Sources -> Times]
  /\ rows \in [Sources -> SUBSET Nat] /\ \A s \in Sources : rows[s] \subseteq 0..now
  /\ \A s \in Sources : born[s] = None => dropped[s] = None
  /\ calls \in [Callers -> CallRecords]

\* The parts below are of a call and of a database, b, d and r at moment n.
Existed(b, d) == {s \in Sources : b[s] # None /\ d[s] = None}

\* What a walk met was not dropped before it began, and what is there and was not
\* there all through was created since.
Trails(walk, b, d, n) ==
  /\ walk.began <= n
  /\ \A s \in walk.ever : d[s] # None => walk.began <= d[s]
  /\ \A s \in Existed(b, d) \ walk.always : walk.began <= b[s]

\* A walk under way has taken note of what there is.
Sees(walk, b, d, r, n) ==
  /\ walk.always \subseteq Existed(b, d) /\ Existed(b, d) \subseteq walk.ever
  /\ \A s \in Sources :
       /\ r[s] = {} => s \in walk.empty
       /\ walk.first[s] # None =>
            walk.first[s] <= n /\ (r[s] # {} => \E t \in r[s] : walk.first[s] <= t)

EntryHolds(entry, walk) ==
  /\ entry.source \in walk.ever
  /\ entry.source \in walk.always => entry.column
  /\ IF entry.max = None
     THEN entry.source \in walk.empty \/ entry.source \notin walk.always
     ELSE /\ entry.min <= entry.max
          /\ walk.first[entry.source] # None => walk.first[entry.source] <= entry.max

\* What is listed holds of the walk, and what is yet to come existed at some time of it.
ListedSoFar(catalog, left, walk) ==
  /\ \A i \in DOMAIN catalog : EntryHolds(catalog[i], walk)
  /\ \A i \in DOMAIN left : left[i] \in walk.ever

\* Of the sources in names, all that exist all through are listed or yet to come.
NoneMissed(catalog, left, walk, names) ==
  \A s \in walk.always \cap names :
    (\E i \in DOMAIN catalog : catalog[i].source = s) \/ \E i \in DOMAIN left : left[i] = s

\* A range that was read: the source still has its newest chunk or a newer one, or was
\* empty since.
RangeRead(call, r) ==
  LET s == Head(call.left)
  IN /\ call.span \in RowSpans /\ call.span.oldest <= call.span.newest
     /\ s \notin call.walk.empty => \E t \in r[s] : call.span.newest <= t
     /\ call.walk.first[s] # None => call.walk.first[s] <= call.span.newest

InWalk(call, b, d, r, n) ==
  /\ call.walk \in Walks /\ call.asked = call.walk.began
  /\ Trails(call.walk, b, d, n) /\ Sees(call.walk, b, d, r, n)
  /\ ListedSoFar(call.catalog, call.left, call.walk)
  /\ call.pc = "hypertables" => call.catalog = <<>> /\ call.left = <<>>
  /\ call.pc = "aggregates" => NoneMissed(call.catalog, call.left, call.walk, ToSet(Hypertables))
  /\ call.pc \in {"column", "span", "newest"} =>
       call.left # <<>> /\ NoneMissed(call.catalog, call.left, call.walk, Sources)
  /\ call.pc = "newest" => RangeRead(call, r)

\* A catalog that was told or is kept.
Finished(catalog, walk, ended, b, d, n) ==
  /\ catalog \in Seq(Entries) /\ walk \in Walks /\ ended \in Nat /\ walk.began <= ended
  /\ Trails(walk, b, d, n)
  /\ ListedSoFar(catalog, <<>>, walk) /\ NoneMissed(catalog, <<>>, walk, Sources)

CallHolds(call, b, d, r, n) ==
  /\ call.pc # "done" => call.outcome = None
  /\ call.pc = "idle" => call.catalog = <<>> /\ call.left = <<>>
  /\ call.pc \in WalkSteps =>
       InWalk(call, b, d, r, n)
  /\ call.outcome = "served" =>
       /\ Finished(call.catalog, call.walk, call.ended, b, d, n)
       /\ call.asked \in Nat /\ call.asked <= call.ended + TTL

SourcesInv ==
  /\ SourcesShape
  /\ \A c \in Callers : CallHolds(calls[c], born, dropped, rows, now)
  /\ cache # None => Finished(cache.catalog, cache.walk, cache.ended, born, dropped, now)

-----------------------------------------------------------------------------
(* The catalog of tables: time and the database *)

\* What the assumptions say of the names.
LEMMA SourcesNamed ==
  /\ Hypertables \in Seq(Sources) /\ Aggregates \in Seq(Sources)
  /\ Sources = ToSet(Hypertables) \cup ToSet(Aggregates)
  /\ TTL \in Nat /\ None \notin Nat /\ None # "served"
<1>1. Hypertables \in Seq(STRING) /\ Aggregates \in Seq(STRING)
  BY SourcesAssumption
<1>2. /\ \A i \in 1..Len(Hypertables) : Hypertables[i] \in Sources
      /\ \A i \in 1..Len(Aggregates) : Aggregates[i] \in Sources
  BY <1>1 DEF Sources, ToSet
<1> QED BY <1>1, <1>2, SourcesAssumption DEF Sources

\* Rows are of moments up to now: there is an oldest and a newest.
LEMMA RowsOrdered ==
  ASSUME SourcesShape, NEW s \in Sources, rows[s] # {}
  PROVE  /\ Min(rows[s]) \in rows[s] /\ Max(rows[s]) \in rows[s]
         /\ \A t \in rows[s] : Min(rows[s]) <= t /\ t <= Max(rows[s])
         /\ Min(rows[s]) \in Nat /\ Max(rows[s]) \in Nat
<1>1. rows[s] \in SUBSET Nat /\ rows[s] \in SUBSET (0..now) /\ now \in Nat
  BY DEF SourcesShape
<1>2. IsFiniteSet(rows[s])
  <2>1. IsFiniteSet(0..now)
    BY <1>1, FS_Interval
  <2> QED BY <1>1, <2>1, FS_Subset
<1>3. /\ Min(rows[s]) \in rows[s] /\ \A t \in rows[s] : Min(rows[s]) <= t
      /\ Max(rows[s]) \in rows[s] /\ \A t \in rows[s] : t <= Max(rows[s])
  BY <1>1, <1>2, MinAndMax
<1> QED BY <1>1, <1>3

\* The database moves on, from b, d, r at n to b2, d2, r2 at n2, and a walk takes note:
\* of the sources in more that came, of those in less that went, of those in none that
\* have no rows.
Moves(b, d, r, n, b2, d2, r2, n2, more, less, none) ==
  /\ n \in Nat /\ n2 \in Nat /\ n <= n2
  /\ \A s \in Sources : d2[s] = d[s] \/ (d[s] = None /\ d2[s] = n)
  /\ \A s \in Sources : b2[s] = b[s] \/ b2[s] = n
  /\ Existed(b2, d2) \subseteq Existed(b, d) \cup more
  /\ Existed(b, d) \ less \subseteq Existed(b2, d2) /\ less \cap Existed(b2, d2) = {}
  /\ \A s \in more : d2[s] = None
  /\ \A s \in Sources :
       /\ r2[s] = {} => r[s] = {} \/ s \in none
       /\ r2[s] # {} => \/ \E u \in r2[s] : n <= u
                        \/ r[s] # {} /\ \A t \in r[s] : \E u \in r2[s] : t <= u

Notes(walk, later, more, less, none) ==
  /\ later.ever = walk.ever \cup more /\ later.always = walk.always \ less
  /\ later.empty = walk.empty \cup none
  /\ later.first = walk.first /\ later.began = walk.began

\* A walk trails the database as it moves on.
LEMMA TrailsOn ==
  ASSUME NEW b \in [Sources -> Times], NEW d \in [Sources -> Times], NEW r, NEW n,
         NEW b2 \in [Sources -> Times], NEW d2 \in [Sources -> Times], NEW r2, NEW n2,
         NEW more, NEW less, NEW none, Moves(b, d, r, n, b2, d2, r2, n2, more, less, none),
         NEW walk \in Walks, Trails(walk, b, d, n)
  PROVE  Trails(walk, b2, d2, n2)
<1>1. walk.began \in Nat /\ n \in Nat /\ n2 \in Nat /\ walk.began <= n /\ n <= n2
  BY DEF Walks, Trails, Moves
<1>2. ASSUME NEW s \in walk.ever, d2[s] # None PROVE walk.began <= d2[s]
  <2>1. s \in Sources
    BY DEF Walks
  <2> QED BY <1>1, <1>2, <2>1 DEF Moves, Trails
<1>3. ASSUME NEW s \in Existed(b2, d2) \ walk.always PROVE walk.began <= b2[s]
  <2>1. s \in Sources /\ b2[s] # None /\ d2[s] = None
    BY <1>3 DEF Existed
  <2>2. CASE b2[s] = n
    BY <1>1, <2>2
  <2>3. CASE b2[s] = b[s]
    <3>1. d[s] = None
      BY <1>1, <2>1, SourcesNamed DEF Moves
    <3>2. s \in Existed(b, d) \ walk.always
      BY <1>3, <2>1, <2>3, <3>1 DEF Existed
    <3> QED BY <2>3, <3>2 DEF Trails
  <2> QED BY <2>1, <2>2, <2>3 DEF Moves
<1> QED BY <1>1, <1>2, <1>3 DEF Trails

\* A walk that has taken note has taken note of what there is.
LEMMA SeesOn ==
  ASSUME NEW b \in [Sources -> Times], NEW d \in [Sources -> Times],
         NEW r \in [Sources -> SUBSET Nat], NEW n,
         NEW b2 \in [Sources -> Times], NEW d2 \in [Sources -> Times],
         NEW r2 \in [Sources -> SUBSET Nat], NEW n2,
         NEW more, NEW less, NEW none, Moves(b, d, r, n, b2, d2, r2, n2, more, less, none),
         NEW walk \in Walks, NEW later \in Walks, Notes(walk, later, more, less, none),
         Sees(walk, b, d, r, n)
  PROVE  Sees(later, b2, d2, r2, n2)
<1>1. n \in Nat /\ n2 \in Nat /\ n <= n2
  BY DEF Moves
<1>2. later.always \subseteq Existed(b2, d2) /\ Existed(b2, d2) \subseteq later.ever
  BY DEF Sees, Moves, Notes
<1>3. \A s \in Sources : r2[s] = {} => s \in later.empty
  BY DEF Sees, Moves, Notes
<1>4. ASSUME NEW s \in Sources, later.first[s] # None
      PROVE  later.first[s] <= n2 /\ (r2[s] # {} => \E t \in r2[s] : later.first[s] <= t)
  <2> DEFINE first == walk.first[s]
  <2>1. later.first[s] = first /\ first \in Nat
    BY <1>4 DEF Notes, Walks, Times
  <2>2. first <= n /\ (r[s] # {} => \E t \in r[s] : first <= t)
    BY <1>4, <2>1 DEF Sees
  <2>3. r[s] \subseteq Nat /\ r2[s] \subseteq Nat
    OBVIOUS
  <2>4. ASSUME r2[s] # {} PROVE \E t \in r2[s] : first <= t
    <3>1. CASE \E u \in r2[s] : n <= u
      <4>1. PICK u \in r2[s] : n <= u
        BY <3>1
      <4>2. u \in Nat /\ first <= u
        BY <1>1, <2>1, <2>2, <2>3, <4>1
      <4> QED BY <4>2
    <3>2. CASE r[s] # {} /\ \A t \in r[s] : \E u \in r2[s] : t <= u
      <4>1. PICK t \in r[s] : first <= t
        BY <2>2, <3>2
      <4>2. PICK u \in r2[s] : t <= u
        BY <3>2
      <4>3. first <= u
        BY <2>1, <2>3, <4>1, <4>2
      <4> QED BY <4>3
    <3> QED BY <2>4, <3>1, <3>2 DEF Moves
  <2> HIDE DEF first
  <2> QED BY <1>1, <2>1, <2>2, <2>4
<1> QED BY <1>2, <1>3, <1>4 DEF Sees

\* A call's promises survive what happens to the database, once its walk has noted it.
LEMMA CallOn ==
  ASSUME NEW b \in [Sources -> Times], NEW d \in [Sources -> Times],
         NEW r \in [Sources -> SUBSET Nat], NEW n, \A s \in Sources : r[s] \subseteq 0..n,
         NEW b2 \in [Sources -> Times], NEW d2 \in [Sources -> Times],
         NEW r2 \in [Sources -> SUBSET Nat], NEW n2,
         NEW more, NEW less, NEW none, Moves(b, d, r, n, b2, d2, r2, n2, more, less, none),
         NEW call \in CallRecords, CallHolds(call, b, d, r, n),
         call.pc \in WalkSteps,
         NEW later \in Walks, Notes(call.walk, later, more, less, none)
  PROVE  /\ [call EXCEPT !.walk = later] \in CallRecords
         /\ CallHolds([call EXCEPT !.walk = later], b2, d2, r2, n2)
<1> DEFINE walk == call.walk
           after == [call EXCEPT !.walk = later]
<1>1. InWalk(call, b, d, r, n) /\ call.outcome = None /\ walk \in Walks
  BY DEF CallHolds, InWalk, WalkSteps
<1>2. /\ after.pc = call.pc /\ after.asked = call.asked /\ after.catalog = call.catalog
      /\ after.left = call.left /\ after.span = call.span /\ after.walk = later
      /\ after.outcome = call.outcome /\ after \in CallRecords
  BY DEF CallRecords
<1> HIDE DEF after
<1>3. Trails(later, b2, d2, n2) /\ Sees(later, b2, d2, r2, n2)
  <2>1. Trails(walk, b, d, n) /\ Sees(walk, b, d, r, n)
    BY <1>1 DEF InWalk
  <2>2. Trails(walk, b2, d2, n2)
    BY <1>1, <2>1, TrailsOn
  <2>3. Sees(later, b2, d2, r2, n2)
    BY <1>1, <2>1, SeesOn
  <2>4. later.began = walk.began /\ walk.began <= n2
    BY <2>2 DEF Trails, Notes
  <2>5. \A s \in later.ever : d2[s] # None => walk.began <= d2[s]
    BY <2>2 DEF Trails, Notes, Moves
  <2>6. \A s \in Existed(b2, d2) \ later.always : walk.began <= b2[s]
    BY <2>2 DEF Trails, Notes, Moves
  <2> QED BY <2>3, <2>4, <2>5, <2>6 DEF Trails
<1>4. ListedSoFar(call.catalog, call.left, later)
  BY <1>1 DEF InWalk, ListedSoFar, EntryHolds, Notes
<1>5. \A names : NoneMissed(call.catalog, call.left, walk, names) =>
                  NoneMissed(call.catalog, call.left, later, names)
  BY DEF NoneMissed, Notes
<1>6. ASSUME call.pc = "newest" PROVE RangeRead(after, r2)
  <2> DEFINE s == Head(call.left)
  <2>1. RangeRead(call, r) /\ call.left # <<>> /\ call.left \in Seq(Sources)
    BY <1>1, <1>6 DEF InWalk, CallRecords
  <2>2. s \in Sources
    BY <2>1
  <2>3. /\ call.span \in RowSpans /\ call.span.oldest <= call.span.newest
        /\ s \notin walk.empty => \E t \in r[s] : call.span.newest <= t
        /\ walk.first[s] # None => walk.first[s] <= call.span.newest
    BY <2>1 DEF RangeRead
  <2>4. Head(after.left) = s
    BY <1>2
  <2> HIDE DEF s
  <2>5. ASSUME s \notin later.empty PROVE \E t \in r2[s] : call.span.newest <= t
    <3>1. PICK t \in r[s] : call.span.newest <= t
      BY <2>3, <2>5 DEF Notes
    <3>2. t \in Nat /\ n \in Nat /\ t <= n /\ call.span.newest \in Nat /\ r2[s] \subseteq Nat
      BY <2>2, <2>3, <3>1 DEF Moves, RowSpans
    <3>3. r2[s] # {}
      BY <2>2, <2>5, <3>1 DEF Moves, Notes
    <3>4. \E u \in r2[s] : t <= u
      <4>1. CASE \E u \in r2[s] : n <= u
        BY <3>2, <4>1
      <4>2. CASE \A v \in r[s] : \E u \in r2[s] : v <= u
        BY <3>1, <4>2
      <4>3. (\E u \in r2[s] : n <= u) \/ \A v \in r[s] : \E u \in r2[s] : v <= u
        BY <2>2, <3>3 DEF Moves
      <4> QED BY <4>1, <4>2, <4>3
    <3>5. PICK u \in r2[s] : t <= u
      BY <3>4
    <3>6. u \in Nat /\ call.span.newest <= u
      BY <3>1, <3>2, <3>5
    <3> QED BY <3>6
  <2> QED BY <1>2, <2>3, <2>4, <2>5 DEF RangeRead, Notes
<1>7. InWalk(after, b2, d2, r2, n2)
  <2>1. call.asked = later.began
    BY <1>1 DEF InWalk, Notes
  <2> QED BY <1>1, <1>2, <1>3, <1>4, <1>5, <1>6, <2>1 DEF InWalk
<1>8. None # "served"
  BY SourcesNamed
<1>9. CallHolds(after, b2, d2, r2, n2)
  BY <1>1, <1>2, <1>7, <1>8 DEF CallHolds
<1> QED BY <1>2, <1>9 DEF after

\* A call that has its answer, or has not asked, does not notice.
LEMMA AnswerStays ==
  ASSUME NEW b \in [Sources -> Times], NEW d \in [Sources -> Times],
         NEW r \in [Sources -> SUBSET Nat], NEW n,
         NEW b2 \in [Sources -> Times], NEW d2 \in [Sources -> Times],
         NEW r2 \in [Sources -> SUBSET Nat], NEW n2,
         NEW more, NEW less, NEW none, Moves(b, d, r, n, b2, d2, r2, n2, more, less, none),
         NEW call \in CallRecords, CallHolds(call, b, d, r, n),
         call.pc \notin WalkSteps
  PROVE  CallHolds(call, b2, d2, r2, n2)
<1>1. CASE call.outcome = "served"
  <2>1. /\ call.walk \in Walks /\ Trails(call.walk, b, d, n)
        /\ Finished(call.catalog, call.walk, call.ended, b, d, n)
    BY <1>1 DEF CallHolds, Finished
  <2>2. Trails(call.walk, b2, d2, n2)
    BY <2>1, TrailsOn
  <2>3. Finished(call.catalog, call.walk, call.ended, b2, d2, n2)
    BY <2>1, <2>2 DEF Finished
  <2> QED BY <2>3 DEF CallHolds
<1> QED BY <1>1 DEF CallHolds

\* A step of the database or the clock that every walk under way takes note of.
LEMMA DatabaseMoves ==
  ASSUME SourcesInv, NEW more, NEW less, NEW none, cache' = cache,
         born' \in [Sources -> Times], dropped' \in [Sources -> Times],
         rows' \in [Sources -> SUBSET Nat], \A s \in Sources : rows'[s] \subseteq 0..now',
         \A s \in Sources : born'[s] = None => dropped'[s] = None,
         Moves(born, dropped, rows, now, born', dropped', rows', now', more, less, none),
         NEW later, \A c \in Callers : Walking(c) =>
           later[c] \in Walks /\ Notes(calls[c].walk, later[c], more, less, none),
         calls' = [c \in Callers |-> IF Walking(c) THEN [calls[c] EXCEPT !.walk = later[c]]
                                                   ELSE calls[c]]
  PROVE  SourcesInv'
<1>1. SourcesShape /\ \A c \in Callers : CallHolds(calls[c], born, dropped, rows, now)
  BY DEF SourcesInv
<1>2. ASSUME NEW c \in Callers
      PROVE  /\ calls'[c] \in CallRecords
             /\ CallHolds(calls'[c], born', dropped', rows', now')
  <2>0. /\ calls[c] \in CallRecords
        /\ born \in [Sources -> Times] /\ dropped \in [Sources -> Times]
        /\ rows \in [Sources -> SUBSET Nat] /\ \A s \in Sources : rows[s] \subseteq 0..now
    BY <1>1 DEF SourcesShape
  <2>1. CASE Walking(c)
    <3>1. calls'[c] = [calls[c] EXCEPT !.walk = later[c]]
      BY <2>1
    <3>2. /\ calls[c].pc \in WalkSteps
          /\ Notes(calls[c].walk, later[c], more, less, none) /\ later[c] \in Walks
      BY <2>1 DEF Walking, WalkSteps
    <3>3. /\ [calls[c] EXCEPT !.walk = later[c]] \in CallRecords
          /\ CallHolds([calls[c] EXCEPT !.walk = later[c]], born', dropped', rows', now')
      BY <1>1, <2>0, <3>2, CallOn
    <3> QED BY <3>1, <3>3
  <2>2. CASE ~Walking(c)
    <3>1. calls'[c] = calls[c]
      BY <2>2
    <3>2. calls[c].pc \notin WalkSteps
      BY <2>2 DEF Walking, WalkSteps
    <3>3. CallHolds(calls[c], born', dropped', rows', now')
      BY <1>1, <2>0, <3>2, AnswerStays
    <3> QED BY <2>0, <3>1, <3>3
  <2> QED BY <2>1, <2>2
<1>3. SourcesShape'
  <2>1. now' \in Nat
    BY DEF Moves
  <2>2. calls' \in [Callers -> CallRecords]
    BY <1>2
  <2> QED BY <2>1, <2>2 DEF SourcesShape
<1>4. cache' # None => Finished(cache'.catalog, cache'.walk, cache'.ended, born', dropped', now')
  <2> SUFFICES ASSUME cache # None
               PROVE  Finished(cache.catalog, cache.walk, cache.ended, born', dropped', now')
    OBVIOUS
  <2>1. /\ Finished(cache.catalog, cache.walk, cache.ended, born, dropped, now)
        /\ born \in [Sources -> Times] /\ dropped \in [Sources -> Times]
    BY <1>1 DEF SourcesInv, SourcesShape
  <2>2. cache.walk \in Walks /\ Trails(cache.walk, born, dropped, now)
    BY <2>1 DEF Finished
  <2>3. Trails(cache.walk, born', dropped', now')
    BY <2>1, <2>2, TrailsOn
  <2> QED BY <2>1, <2>3 DEF Finished
<1> QED BY <1>2, <1>3, <1>4 DEF SourcesInv

\* A walk under way is a record of what it met.
LEMMA WalkUnderWay ==
  ASSUME SourcesInv, NEW c \in Callers
  PROVE  /\ calls[c] \in CallRecords
         /\ [calls[c] EXCEPT !.walk = calls[c].walk] = calls[c]
         /\ Walking(c) =>
              /\ calls[c].walk \in Walks
              /\ calls[c].walk = [ever |-> calls[c].walk.ever, always |-> calls[c].walk.always,
                                  first |-> calls[c].walk.first, empty |-> calls[c].walk.empty,
                                  began |-> calls[c].walk.began]
              /\ calls[c].walk.ever \subseteq Sources /\ calls[c].walk.always \subseteq Sources
              /\ calls[c].walk.empty \subseteq Sources
<1>1. calls[c] \in CallRecords
  BY DEF SourcesInv, SourcesShape
<1>2. [calls[c] EXCEPT !.walk = calls[c].walk] = calls[c]
  BY <1>1 DEF CallRecords
<1>3. Walking(c) => calls[c].walk \in Walks
  BY DEF SourcesInv, CallHolds, InWalk, Walking, WalkSteps
<1> QED BY <1>1, <1>2, <1>3 DEF Walks

\* A step that no walk needs to take note of.
LEMMA DatabaseGrows ==
  ASSUME SourcesInv, cache' = cache, calls' = calls, born' = born, dropped' = dropped,
         rows' \in [Sources -> SUBSET Nat], \A s \in Sources : rows'[s] \subseteq 0..now',
         now' \in Nat, now <= now',
         \A s \in Sources : rows'[s] = rows[s] \/ (rows[s] \subseteq rows'[s] /\ now \in rows'[s])
  PROVE  SourcesInv'
<1> DEFINE later == [c \in Callers |-> calls[c].walk]
<1>1. /\ now \in Nat /\ born \in [Sources -> Times] /\ dropped \in [Sources -> Times]
      /\ rows \in [Sources -> SUBSET Nat] /\ calls \in [Callers -> CallRecords]
      /\ \A s \in Sources : born[s] = None => dropped[s] = None
  BY DEF SourcesInv, SourcesShape
<1>2. \A s \in Sources : \A t \in rows[s] : t <= t
  BY <1>1
<1>3. \A s \in Sources : rows'[s] # {} =>
        \/ \E u \in rows'[s] : now <= u
        \/ rows[s] # {} /\ \A t \in rows[s] : \E u \in rows'[s] : t <= u
  <2>1. now <= now
    BY <1>1
  <2> QED BY <1>2, <2>1
<1>4. Moves(born, dropped, rows, now, born', dropped', rows', now', {}, {}, {})
  BY <1>1, <1>3 DEF Moves
<1>5. \A c \in Callers : Walking(c) =>
        later[c] \in Walks /\ Notes(calls[c].walk, later[c], {}, {}, {})
  BY WalkUnderWay DEF Notes
<1>6. calls' = [c \in Callers |-> IF Walking(c) THEN [calls[c] EXCEPT !.walk = later[c]]
                                                ELSE calls[c]]
  <2>1. calls = [c \in Callers |-> calls[c]]
    BY <1>1
  <2>2. \A c \in Callers : calls[c] = IF Walking(c) THEN [calls[c] EXCEPT !.walk = later[c]]
                                                    ELSE calls[c]
    BY WalkUnderWay
  <2> QED BY <2>1, <2>2
<1> HIDE DEF later
<1> QED BY <1>1, <1>4, <1>5, <1>6, DatabaseMoves

\* A source is created: every walk may meet it.
LEMMA SourcesCreate == ASSUME SourcesInv, NEW s \in Sources, Create(s) PROVE SourcesInv'
<1> DEFINE later == [c \in Callers |-> [calls[c].walk EXCEPT !.ever = @ \cup {s}]]
<1>1. /\ now \in Nat /\ born \in [Sources -> Times] /\ dropped \in [Sources -> Times]
      /\ rows \in [Sources -> SUBSET Nat] /\ calls \in [Callers -> CallRecords]
      /\ \A x \in Sources : born[x] = None => dropped[x] = None
      /\ \A x \in Sources : rows[x] \subseteq 0..now
  BY DEF SourcesInv, SourcesShape
<1>2. /\ now' = now /\ dropped' = dropped /\ rows' = rows /\ cache' = cache
      /\ born[s] = None /\ born' = [born EXCEPT ![s] = now] /\ dropped[s] = None
      /\ calls' = [c \in Callers |->
           IF Walking(c) THEN [calls[c] EXCEPT !.walk = [calls[c].walk EXCEPT !.ever = @ \cup {s}]]
                         ELSE calls[c]]
  BY <1>1 DEF Create, Note
<1>3. born' \in [Sources -> Times] /\ now <= now
  BY <1>1, <1>2 DEF Times
<1>4. \A x \in Sources : rows[x] # {} => \A t \in rows[x] : \E u \in rows[x] : t <= u
  <2>1. \A x \in Sources : \A t \in rows[x] : t <= t
    BY <1>1
  <2> QED BY <2>1
<1>5. Existed(born', dropped) \subseteq Existed(born, dropped) \cup {s}
  BY <1>1, <1>2 DEF Existed
<1>6. Existed(born, dropped) \subseteq Existed(born', dropped)
  BY <1>1, <1>2, SourcesNamed DEF Existed
<1>7. \A x \in Sources : born'[x] = born[x] \/ born'[x] = now
  BY <1>1, <1>2
<1>8. Moves(born, dropped, rows, now, born', dropped', rows', now', {s}, {}, {})
  BY <1>1, <1>2, <1>3, <1>4, <1>5, <1>6, <1>7 DEF Moves
<1>9. ASSUME NEW c \in Callers, Walking(c)
      PROVE  later[c] \in Walks /\ Notes(calls[c].walk, later[c], {s}, {}, {})
  <2>1. calls[c].walk \in Walks
    BY <1>9, WalkUnderWay
  <2> QED BY <2>1 DEF Notes, Walks
<1>10. calls' = [c \in Callers |-> IF Walking(c) THEN [calls[c] EXCEPT !.walk = later[c]]
                                                 ELSE calls[c]]
  BY <1>2
<1>11. \A x \in Sources : born'[x] = None => dropped'[x] = None
  BY <1>1, <1>2
<1> HIDE DEF later
<1> QED BY <1>1, <1>2, <1>3, <1>8, <1>9, <1>10, <1>11, DatabaseMoves

\* A source is dropped with its rows.
LEMMA SourcesDrop == ASSUME SourcesInv, NEW s \in Sources, Drop(s) PROVE SourcesInv'
<1> DEFINE later == [c \in Callers |-> [calls[c].walk EXCEPT !.always = @ \ {s},
                                                             !.empty = @ \cup {s}]]
<1>1. /\ now \in Nat /\ born \in [Sources -> Times] /\ dropped \in [Sources -> Times]
      /\ rows \in [Sources -> SUBSET Nat] /\ calls \in [Callers -> CallRecords]
      /\ \A x \in Sources : born[x] = None => dropped[x] = None
      /\ \A x \in Sources : rows[x] \subseteq 0..now
  BY DEF SourcesInv, SourcesShape
<1>2. /\ now' = now /\ born' = born /\ cache' = cache
      /\ s \in tables /\ dropped' = [dropped EXCEPT ![s] = now] /\ rows' = [rows EXCEPT ![s] = {}]
      /\ calls' = [c \in Callers |->
           IF Walking(c) THEN [calls[c] EXCEPT !.walk = [calls[c].walk EXCEPT !.always = @ \ {s},
                                                                 !.empty = @ \cup {s}]]
                         ELSE calls[c]]
  BY <1>1 DEF Drop, Note
<1>3. /\ dropped' \in [Sources -> Times] /\ rows' \in [Sources -> SUBSET Nat] /\ now <= now
      /\ \A x \in Sources : rows'[x] \subseteq 0..now
      /\ \A x \in Sources : rows'[x] = rows[x] \/ (x = s /\ rows'[x] = {})
      /\ \A x \in Sources : dropped'[x] = dropped[x] \/ (x = s /\ dropped'[x] = now)
  <2>1. /\ \A x \in Sources : rows'[x] = IF x = s THEN {} ELSE rows[x]
        /\ \A x \in Sources : dropped'[x] = IF x = s THEN now ELSE dropped[x]
    BY <1>1, <1>2
  <2>2. dropped' \in [Sources -> Times]
    BY <1>1, <1>2 DEF Times
  <2>3. rows' \in [Sources -> SUBSET Nat]
    BY <1>1, <1>2
  <2>4. \A x \in Sources : rows'[x] \subseteq 0..now
    BY <1>1, <2>1
  <2> QED BY <1>1, <2>1, <2>2, <2>3, <2>4
<1>4. born[s] # None /\ dropped[s] = None
  BY <1>2 DEF tables
<1>5. \A x \in Sources : rows'[x] # {} => rows[x] # {} /\ \A t \in rows[x] : \E u \in rows'[x] : t <= u
  <2>1. \A x \in Sources : \A t \in rows[x] : t <= t
    BY <1>1
  <2> QED BY <1>3, <2>1
<1>6. Existed(born, dropped') = Existed(born, dropped) \ {s}
  BY <1>1, <1>2, <1>4, SourcesNamed DEF Existed
<1>7. Moves(born, dropped, rows, now, born', dropped', rows', now', {}, {s}, {s})
  BY <1>1, <1>2, <1>3, <1>4, <1>5, <1>6 DEF Moves
<1>8. ASSUME NEW c \in Callers, Walking(c)
      PROVE  later[c] \in Walks /\ Notes(calls[c].walk, later[c], {}, {s}, {s})
  <2>1. calls[c].walk \in Walks
    BY <1>8, WalkUnderWay
  <2> QED BY <2>1 DEF Notes, Walks
<1>9. calls' = [c \in Callers |-> IF Walking(c) THEN [calls[c] EXCEPT !.walk = later[c]]
                                                ELSE calls[c]]
  BY <1>2
<1>10. \A x \in Sources : born'[x] = None => dropped'[x] = None
  BY <1>1, <1>2, <1>3, <1>4
<1> HIDE DEF later
<1> QED BY <1>1, <1>2, <1>3, <1>7, <1>8, <1>9, <1>10, DatabaseMoves

\* Rows come: no walk needs to know.
LEMMA SourcesInsert == ASSUME SourcesInv, NEW s \in Sources, Insert(s) PROVE SourcesInv'
<1>1. /\ now \in Nat /\ rows \in [Sources -> SUBSET Nat]
      /\ \A x \in Sources : rows[x] \subseteq 0..now
  BY DEF SourcesInv, SourcesShape
<1>2. /\ now' = now /\ born' = born /\ dropped' = dropped /\ cache' = cache /\ calls' = calls
      /\ rows' = [rows EXCEPT ![s] = @ \cup {now}]
  BY DEF Insert
<1>3. /\ now' \in Nat /\ now <= now' /\ now \in 0..now
      /\ \A x \in Sources : rows'[x] = IF x = s THEN rows[x] \cup {now} ELSE rows[x]
  BY <1>1, <1>2
<1>4. rows' \in [Sources -> SUBSET Nat] /\ \A x \in Sources : rows'[x] \subseteq 0..now'
  BY <1>1, <1>2, <1>3
<1>5. \A x \in Sources : rows'[x] = rows[x] \/ (rows[x] \subseteq rows'[x] /\ now \in rows'[x])
  BY <1>3
<1> QED BY <1>2, <1>3, <1>4, <1>5, DatabaseGrows

\* Retention drops the oldest rows: what remains is newer, and a source that has none
\* is noted as empty.
LEMMA SourcesRetain == ASSUME SourcesInv, NEW s \in Sources, Retain(s) PROVE SourcesInv'
<1> DEFINE rest == rows[s] \ {Min(rows[s])}
           none == IF rest = {} THEN {s} ELSE {}
           later == [c \in Callers |-> [calls[c].walk EXCEPT !.empty = @ \cup none]]
<1>1. /\ now \in Nat /\ born \in [Sources -> Times] /\ dropped \in [Sources -> Times]
      /\ rows \in [Sources -> SUBSET Nat] /\ calls \in [Callers -> CallRecords]
      /\ \A x \in Sources : born[x] = None => dropped[x] = None
      /\ \A x \in Sources : rows[x] \subseteq 0..now
  BY DEF SourcesInv, SourcesShape
<1>2. /\ now' = now /\ born' = born /\ dropped' = dropped /\ cache' = cache
      /\ rows[s] # {} /\ rows' = [rows EXCEPT ![s] = rest] /\ rows'[s] = rest
  BY <1>1 DEF Retain
<1>3. calls' = [c \in Callers |->
        IF Walking(c)
        THEN [calls[c] EXCEPT !.walk = [calls[c].walk EXCEPT
                                          !.empty = IF rows'[s] = {} THEN @ \cup {s} ELSE @]]
        ELSE calls[c]]
  BY DEF Retain, Note
<1>4. /\ rows' \in [Sources -> SUBSET Nat] /\ now <= now
      /\ \A x \in Sources : rows'[x] = IF x = s THEN rest ELSE rows[x]
      /\ \A x \in Sources : rows'[x] \subseteq 0..now
  BY <1>1, <1>2
<1>5. \A t \in rows[s] : rest # {} => \E u \in rest : t <= u
  <2> SUFFICES ASSUME NEW t \in rows[s], rest # {} PROVE \E u \in rest : t <= u
    OBVIOUS
  <2>1. PICK u \in rest : TRUE
    OBVIOUS
  <2>2. /\ \A x \in rows[s] : Min(rows[s]) <= x
        /\ t \in Nat /\ u \in Nat /\ u \in rows[s]
    BY <1>1, <1>2, RowsOrdered DEF SourcesInv
  <2>3. CASE t = Min(rows[s])
    BY <2>1, <2>2, <2>3
  <2>4. CASE t # Min(rows[s])
    BY <2>2, <2>4
  <2> QED BY <2>3, <2>4
<1>6. \A x \in Sources : rows'[x] # {} => rows[x] # {} /\ \A t \in rows[x] : \E u \in rows'[x] : t <= u
  <2>1. \A x \in Sources : \A t \in rows[x] : t <= t
    BY <1>1
  <2> HIDE DEF rest
  <2> QED BY <1>2, <1>4, <1>5, <2>1
<1>7. \A x \in Sources : rows'[x] = {} => rows[x] = {} \/ x \in none
  BY <1>4
<1>8. Moves(born, dropped, rows, now, born', dropped', rows', now', {}, {}, none)
  <2> HIDE DEF none
  <2> QED BY <1>1, <1>2, <1>4, <1>6, <1>7 DEF Moves
<1>9. ASSUME NEW c \in Callers, Walking(c)
      PROVE  /\ later[c] \in Walks /\ Notes(calls[c].walk, later[c], {}, {}, none)
             /\ later[c] = [calls[c].walk EXCEPT
                              !.empty = IF rows'[s] = {} THEN @ \cup {s} ELSE @]
  <2>1. calls[c].walk \in Walks /\ none \subseteq Sources
    BY <1>9, WalkUnderWay
  <2>2. later[c] = [calls[c].walk EXCEPT !.empty = @ \cup none]
    OBVIOUS
  <2>3. calls[c].walk.empty \cup none =
          IF rows'[s] = {} THEN calls[c].walk.empty \cup {s} ELSE calls[c].walk.empty
    BY <1>2
  <2> HIDE DEF none, later
  <2>4. later[c] \in Walks /\ Notes(calls[c].walk, later[c], {}, {}, none)
    BY <2>1, <2>2 DEF Notes, Walks
  <2> QED BY <2>2, <2>3, <2>4
<1>10. calls' = [c \in Callers |-> IF Walking(c) THEN [calls[c] EXCEPT !.walk = later[c]]
                                                 ELSE calls[c]]
  <2> HIDE DEF later, none, rest
  <2> QED BY <1>3, <1>9
<1> HIDE DEF later, none, rest
<1> QED BY <1>1, <1>2, <1>4, <1>8, <1>9, <1>10, DatabaseMoves

\* Time passes: no walk needs to know.
LEMMA SourcesTick == ASSUME SourcesInv, Tick PROVE SourcesInv'
<1>1. /\ now \in Nat /\ rows \in [Sources -> SUBSET Nat]
      /\ \A x \in Sources : rows[x] \subseteq 0..now
  BY DEF SourcesInv, SourcesShape
<1>2. /\ now' = now + 1 /\ born' = born /\ dropped' = dropped /\ rows' = rows
      /\ cache' = cache /\ calls' = calls
  BY DEF Tick, database
<1>3. now' \in Nat /\ now <= now' /\ 0..now \subseteq 0..now'
  BY <1>1, <1>2
<1> QED BY <1>1, <1>2, <1>3, DatabaseGrows

-----------------------------------------------------------------------------
(* The catalog of tables: the calls *)

\* A step of one call, which may fill the cache.
LEMMA OneCall ==
  ASSUME SourcesInv, NEW c \in Callers, NEW call \in CallRecords,
         UNCHANGED <<now, born, dropped, rows>>, calls' = [calls EXCEPT ![c] = call],
         CallHolds(call, born, dropped, rows, now),
         cache' = cache \/ Finished(cache'.catalog, cache'.walk, cache'.ended, born, dropped, now)
  PROVE  SourcesInv'
<1>1. SourcesShape /\ \A e \in Callers : CallHolds(calls[e], born, dropped, rows, now)
  BY DEF SourcesInv
<1>2. calls' \in [Callers -> CallRecords]
  BY <1>1 DEF SourcesShape
<1>3. \A e \in Callers : calls'[e] = IF e = c THEN call ELSE calls[e]
  BY <1>1 DEF SourcesShape
<1>4. SourcesShape'
  BY <1>1, <1>2 DEF SourcesShape
<1>5. \A e \in Callers : CallHolds(calls'[e], born', dropped', rows', now')
  BY <1>1, <1>3
<1>6. cache' # None => Finished(cache'.catalog, cache'.walk, cache'.ended, born', dropped', now')
  BY DEF SourcesInv
<1> QED BY <1>4, <1>5, <1>6 DEF SourcesInv

\* The fields of a call after a step of its walk.
LEMMA CallMovesOn ==
  ASSUME NEW call \in CallRecords, NEW pc \in {"idle", "done"} \cup WalkSteps
  PROVE  LET after == [call EXCEPT !.pc = pc]
         IN /\ after \in CallRecords /\ after.pc = pc /\ after.asked = call.asked
            /\ after.catalog = call.catalog /\ after.left = call.left /\ after.walk = call.walk
            /\ after.span = call.span /\ after.outcome = call.outcome
BY DEF CallRecords

\* The fields of a call that gets its answer.
LEMMA CallServed ==
  ASSUME NEW call \in CallRecords, NEW catalog \in Seq(Entries), NEW walk \in Walks,
         NEW ended \in Nat
  PROVE  LET after == Serve(call, catalog, walk, ended)
         IN /\ after \in CallRecords /\ after.pc = "done" /\ after.asked = call.asked
            /\ after.catalog = catalog /\ after.walk = walk /\ after.ended = ended
            /\ after.outcome = "served"
<1> DEFINE after == [call EXCEPT !.pc = "done", !.catalog = catalog, !.walk = walk,
                                 !.ended = ended, !.outcome = "served"]
<1>1. after \in CallRecords
  BY DEF CallRecords, Times
<1>2. /\ after.pc = "done" /\ after.asked = call.asked
      /\ after.catalog = catalog /\ after.walk = walk /\ after.ended = ended
      /\ after.outcome = "served"
  BY DEF CallRecords
<1> QED BY <1>1, <1>2 DEF Serve

\* A walk goes on to its next source, or fills the cache and answers.
LEMMA ProceedHolds ==
  ASSUME SourcesInv, NEW c \in Callers, NEW call \in CallRecords,
         UNCHANGED <<now, born, dropped, rows>>, Proceed(c, call),
         call.walk \in Walks, call.asked = call.walk.began, call.outcome = None,
         Trails(call.walk, born, dropped, now), Sees(call.walk, born, dropped, rows, now),
         ListedSoFar(call.catalog, call.left, call.walk),
         NoneMissed(call.catalog, call.left, call.walk, Sources)
  PROVE  SourcesInv'
<1>1. now \in Nat /\ TTL \in Nat /\ None \notin Nat /\ None # "served"
  BY SourcesNamed DEF SourcesInv, SourcesShape
<1>2. CASE call.left # <<>>
  <2> DEFINE after == [call EXCEPT !.pc = "column"]
  <2>1. /\ after \in CallRecords /\ after.pc = "column" /\ after.asked = call.asked
        /\ after.catalog = call.catalog /\ after.left = call.left /\ after.walk = call.walk
        /\ after.outcome = None
    BY CallMovesOn DEF WalkSteps
  <2>2. calls' = [calls EXCEPT ![c] = after] /\ cache' = cache
    BY <1>2 DEF Proceed
  <2> HIDE DEF after
  <2>3. InWalk(after, born, dropped, rows, now)
    BY <1>2, <2>1 DEF InWalk
  <2>4. CallHolds(after, born, dropped, rows, now)
    BY <1>1, <2>1, <2>3 DEF CallHolds
  <2> QED BY <2>1, <2>2, <2>4, OneCall
<1>3. CASE call.left = <<>>
  <2> DEFINE after == Serve(call, call.catalog, call.walk, now)
             kept == [catalog |-> call.catalog, walk |-> call.walk, ended |-> now]
  <2>1. /\ after \in CallRecords /\ after.pc = "done" /\ after.asked = call.asked
        /\ after.catalog = call.catalog /\ after.walk = call.walk /\ after.ended = now
        /\ after.outcome = "served"
    <3>1. call.catalog \in Seq(Entries)
      BY DEF CallRecords
    <3> QED BY <1>1, <3>1, CallServed
  <2>2. calls' = [calls EXCEPT ![c] = after] /\ cache' = kept
    BY <1>3 DEF Proceed
  <2>3. kept.catalog = call.catalog /\ kept.walk = call.walk /\ kept.ended = now
    OBVIOUS
  <2> HIDE DEF after, kept
  <2>4. call.walk.began \in Nat /\ call.walk.began <= now
    BY DEF Walks, Trails
  <2>5. Finished(call.catalog, call.walk, now, born, dropped, now)
    BY <1>1, <1>3, <2>4 DEF Finished, CallRecords
  <2>6. call.asked <= now + TTL
    BY <1>1, <2>4
  <2>7. CallHolds(after, born, dropped, rows, now)
    BY <2>1, <2>4, <2>5, <2>6 DEF CallHolds, WalkSteps
  <2> QED BY <2>1, <2>2, <2>3, <2>5, <2>7, OneCall
<1> QED BY <1>2, <1>3

\* The source at hand gets its entry, and nothing is missed.
LEMMA DescribedHolds ==
  ASSUME NEW call \in CallRecords, call.left # <<>>,
         ListedSoFar(call.catalog, call.left, call.walk),
         NoneMissed(call.catalog, call.left, call.walk, Sources),
         NEW column \in BOOLEAN, NEW min \in Times, NEW max \in Times,
         EntryHolds([source |-> Head(call.left), column |-> column, min |-> min, max |-> max],
                    call.walk),
         NEW after, after = Described(call, column, min, max)
  PROVE  /\ after \in CallRecords /\ after.walk = call.walk /\ after.asked = call.asked
         /\ after.outcome = call.outcome
         /\ ListedSoFar(after.catalog, after.left, after.walk)
         /\ NoneMissed(after.catalog, after.left, after.walk, Sources)
<1> DEFINE entry == [source |-> Head(call.left), column |-> column, min |-> min, max |-> max]
           N == Len(call.catalog)
<1>1. call.left \in Seq(Sources) /\ call.catalog \in Seq(Entries)
  BY DEF CallRecords
<1>2. /\ Head(call.left) \in Sources /\ Head(call.left) = call.left[1]
      /\ Tail(call.left) \in Seq(Sources) /\ Len(Tail(call.left)) = Len(call.left) - 1
      /\ \A i \in 1..(Len(call.left) - 1) : Tail(call.left)[i] = call.left[i + 1]
      /\ Len(call.left) \in Nat \ {0}
  BY <1>1
<1>3. entry \in Entries /\ entry.source = call.left[1]
  BY <1>2 DEF Entries
<1>4. /\ after.walk = call.walk /\ after.asked = call.asked /\ after.outcome = call.outcome
      /\ after.left = Tail(call.left) /\ after.catalog = Append(call.catalog, entry)
      /\ after = [call EXCEPT !.left = Tail(call.left), !.span = None,
                              !.catalog = Append(call.catalog, entry)]
  BY DEF Described, CallRecords
<1> HIDE DEF entry
<1>5. Append(call.catalog, entry) \in Seq(Entries)
  BY <1>1, <1>3
<1>6. after \in CallRecords
  BY <1>2, <1>4, <1>5 DEF CallRecords
<1>7. /\ N \in Nat /\ Len(after.catalog) = N + 1 /\ DOMAIN after.catalog = 1..(N + 1)
      /\ \A i \in 1..N : after.catalog[i] = call.catalog[i]
      /\ after.catalog[N + 1] = entry /\ DOMAIN call.catalog = 1..N
  BY <1>1, <1>3, <1>4
<1>8. /\ DOMAIN call.left = 1..Len(call.left) /\ DOMAIN after.left = 1..(Len(call.left) - 1)
      /\ \A i \in DOMAIN after.left : i + 1 \in DOMAIN call.left /\ after.left[i] = call.left[i + 1]
  BY <1>1, <1>2, <1>4
<1>9. ListedSoFar(after.catalog, after.left, after.walk)
  <2>1. ASSUME NEW i \in DOMAIN after.catalog PROVE EntryHolds(after.catalog[i], call.walk)
    <3>1. CASE i = N + 1
      BY <1>7, <3>1 DEF entry
    <3>2. CASE i # N + 1
      BY <1>7, <3>2 DEF ListedSoFar
    <3> QED BY <3>1, <3>2
  <2>2. \A i \in DOMAIN after.left : after.left[i] \in call.walk.ever
    BY <1>8 DEF ListedSoFar
  <2> QED BY <1>4, <2>1, <2>2 DEF ListedSoFar
<1>10. ASSUME NEW s \in call.walk.always \cap Sources
       PROVE  \/ \E i \in DOMAIN after.catalog : after.catalog[i].source = s
              \/ \E i \in DOMAIN after.left : after.left[i] = s
  <2>1. CASE \E i \in DOMAIN call.catalog : call.catalog[i].source = s
    <3>1. PICK i \in DOMAIN call.catalog : call.catalog[i].source = s
      BY <2>1
    <3>2. i \in DOMAIN after.catalog /\ after.catalog[i].source = s
      BY <1>7, <3>1
    <3> QED BY <3>2
  <2>2. CASE \E i \in DOMAIN call.left : call.left[i] = s
    <3>1. PICK i \in DOMAIN call.left : call.left[i] = s
      BY <2>2
    <3>2. CASE i = 1
      <4>1. N + 1 \in DOMAIN after.catalog /\ after.catalog[N + 1].source = s
        BY <1>3, <1>7, <3>1, <3>2
      <4> QED BY <4>1
    <3>3. CASE i # 1
      <4>1. i - 1 \in DOMAIN after.left /\ after.left[i - 1] = s
        BY <1>2, <1>8, <3>1, <3>3
      <4> QED BY <4>1
    <3> QED BY <3>2, <3>3
  <2> QED BY <2>1, <2>2 DEF NoneMissed
<1>11. NoneMissed(after.catalog, after.left, after.walk, Sources)
  BY <1>4, <1>10 DEF NoneMissed
<1> QED BY <1>4, <1>6, <1>9, <1>11

\* The walk of a call, and the source it is at.
LEMMA AtHand ==
  ASSUME SourcesInv, NEW c \in Callers, calls[c].pc \in {"column", "span", "newest"}
  PROVE  /\ calls[c] \in CallRecords /\ calls[c].left # <<>> /\ calls[c].outcome = None
         /\ Head(calls[c].left) \in Sources /\ Head(calls[c].left) \in calls[c].walk.ever
         /\ InWalk(calls[c], born, dropped, rows, now)
         /\ NoneMissed(calls[c].catalog, calls[c].left, calls[c].walk, Sources)
         /\ tables = Existed(born, dropped)
<1>1. calls[c] \in CallRecords /\ CallHolds(calls[c], born, dropped, rows, now)
  BY DEF SourcesInv, SourcesShape
<1>2. InWalk(calls[c], born, dropped, rows, now) /\ calls[c].outcome = None
  BY <1>1 DEF CallHolds, WalkSteps
<1>3. /\ calls[c].left # <<>> /\ calls[c].left \in Seq(Sources)
      /\ NoneMissed(calls[c].catalog, calls[c].left, calls[c].walk, Sources)
  BY <1>1, <1>2 DEF InWalk, CallRecords
<1>4. Head(calls[c].left) \in Sources /\ 1 \in DOMAIN calls[c].left /\ Head(calls[c].left) = calls[c].left[1]
  BY <1>3
<1>5. Head(calls[c].left) \in calls[c].walk.ever
  BY <1>2, <1>4 DEF InWalk, ListedSoFar
<1> QED BY <1>1, <1>2, <1>3, <1>4, <1>5 DEF tables, Existed

\* An entry that holds of its walk, and on with the next source.
LEMMA EntryMade ==
  ASSUME SourcesInv, NEW c \in Callers, calls[c].pc \in {"column", "span", "newest"},
         UNCHANGED <<now, born, dropped, rows>>,
         NEW column \in BOOLEAN, NEW min \in Times, NEW max \in Times,
         EntryHolds([source |-> Head(calls[c].left), column |-> column, min |-> min, max |-> max],
                    calls[c].walk),
         Proceed(c, Described(calls[c], column, min, max))
  PROVE  SourcesInv'
<1> DEFINE call == calls[c]
           after == Described(calls[c], column, min, max)
<1>1. /\ call \in CallRecords /\ call.left # <<>> /\ call.outcome = None
      /\ InWalk(call, born, dropped, rows, now) /\ NoneMissed(call.catalog, call.left, call.walk, Sources)
  BY AtHand
<1>2. /\ call.walk \in Walks /\ call.asked = call.walk.began
      /\ Trails(call.walk, born, dropped, now) /\ Sees(call.walk, born, dropped, rows, now)
      /\ ListedSoFar(call.catalog, call.left, call.walk)
  BY <1>1 DEF InWalk
<1> HIDE DEF call, after
<1>3. after = Described(call, column, min, max)
  BY DEF after, call
<1>4. EntryHolds([source |-> Head(call.left), column |-> column, min |-> min, max |-> max], call.walk)
  BY DEF call
<1>5. /\ after \in CallRecords /\ after.walk = call.walk /\ after.asked = call.asked
      /\ after.outcome = call.outcome
      /\ ListedSoFar(after.catalog, after.left, after.walk)
      /\ NoneMissed(after.catalog, after.left, after.walk, Sources)
  BY <1>1, <1>2, <1>3, <1>4, DescribedHolds
<1>6. Proceed(c, after)
  BY DEF after
<1> QED BY <1>1, <1>2, <1>5, <1>6, ProceedHolds

\* A call asks: it is told what is kept, or a walk begins.
LEMMA SourcesAsk == ASSUME SourcesInv, NEW c \in Callers, Ask(c) PROVE SourcesInv'
<1> DEFINE call == calls[c]
<1>1. /\ now \in Nat /\ born \in [Sources -> Times] /\ dropped \in [Sources -> Times]
      /\ rows \in [Sources -> SUBSET Nat] /\ \A s \in Sources : rows[s] \subseteq 0..now
      /\ call \in CallRecords /\ CallHolds(call, born, dropped, rows, now) /\ SourcesShape
      /\ cache # None => Finished(cache.catalog, cache.walk, cache.ended, born, dropped, now)
      /\ None \notin Nat /\ None # "served" /\ TTL \in Nat
  BY SourcesNamed DEF SourcesInv, SourcesShape
<1>2. /\ call.pc = "idle" /\ call.catalog = <<>> /\ call.left = <<>> /\ call.outcome = None
      /\ UNCHANGED <<now, born, dropped, rows>> /\ cache' = cache
  BY <1>1 DEF Ask, database, CallHolds
<1> DEFINE asked == [call EXCEPT !.asked = now]
<1>3. /\ asked \in CallRecords /\ asked.asked = now /\ asked.pc = "idle" /\ asked.catalog = <<>>
      /\ asked.left = <<>> /\ asked.outcome = None
  BY <1>1, <1>2 DEF CallRecords, Times
<1>4. calls' = [calls EXCEPT ![c] =
         IF Valid THEN Serve(asked, cache.catalog, cache.walk, cache.ended)
                  ELSE [asked EXCEPT !.pc = "hypertables", !.walk = Walk]]
  BY DEF Ask
<1> HIDE DEF call, asked
<1>5. CASE Valid
  <2> DEFINE after == Serve(asked, cache.catalog, cache.walk, cache.ended)
  <2>1. /\ now < cache.ended + TTL
        /\ Finished(cache.catalog, cache.walk, cache.ended, born, dropped, now)
    BY <1>1, <1>5 DEF Valid
  <2>2. cache.catalog \in Seq(Entries) /\ cache.walk \in Walks /\ cache.ended \in Nat
    BY <2>1 DEF Finished
  <2>3. /\ after \in CallRecords /\ after.pc = "done" /\ after.asked = now
        /\ after.catalog = cache.catalog /\ after.walk = cache.walk /\ after.ended = cache.ended
        /\ after.outcome = "served"
    BY <1>3, <2>2, CallServed
  <2> HIDE DEF after
  <2>4. CallHolds(after, born, dropped, rows, now)
    BY <1>1, <2>1, <2>2, <2>3 DEF CallHolds, WalkSteps
  <2>5. calls' = [calls EXCEPT ![c] = after]
    BY <1>4, <1>5 DEF after
  <2> QED BY <1>2, <2>3, <2>4, <2>5, OneCall
<1>6. CASE ~Valid
  <2> DEFINE after == [asked EXCEPT !.pc = "hypertables", !.walk = Walk]
  <2>1. tables = Existed(born, dropped) /\ tables \subseteq Sources
    BY DEF tables, Existed
  <2>2. \A s \in Sources : /\ Newest(s) \in Times
                           /\ Newest(s) # None => Newest(s) \in rows[s]
    <3>1. TAKE s \in Sources
    <3>2. CASE rows[s] = {}
      BY <3>2 DEF Newest, Times
    <3>3. CASE rows[s] # {}
      <4>1. Max(rows[s]) \in rows[s] /\ Max(rows[s]) \in Nat
        BY <1>1, <3>3, RowsOrdered
      <4> QED BY <3>3, <4>1 DEF Newest, Times
    <3> QED BY <3>2, <3>3
  <2>3. /\ Walk.ever = tables /\ Walk.always = tables /\ Walk.began = now
        /\ Walk.empty = {s \in Sources : rows[s] = {}}
        /\ \A s \in Sources : Walk.first[s] = Newest(s)
    BY DEF Walk
  <2>4. Walk \in Walks
    <3>1. [s \in Sources |-> Newest(s)] \in [Sources -> Times]
      BY <2>2
    <3> QED BY <1>1, <2>1, <3>1 DEF Walk, Walks
  <2> DEFINE walk == Walk
  <2> HIDE DEF walk
  <2>5. Trails(walk, born, dropped, now)
    BY <1>1, <2>1, <2>3 DEF Trails, Existed, walk
  <2>6. Sees(walk, born, dropped, rows, now)
    <3>1. \A s \in Sources : walk.first[s] # None =>
            walk.first[s] <= now /\ (rows[s] # {} => \E t \in rows[s] : walk.first[s] <= t)
      <4> SUFFICES ASSUME NEW s \in Sources, walk.first[s] # None
                   PROVE  walk.first[s] <= now /\ \E t \in rows[s] : walk.first[s] <= t
        OBVIOUS
      <4>1. walk.first[s] \in rows[s] /\ rows[s] \subseteq 0..now
        BY <1>1, <2>2, <2>3 DEF walk
      <4>2. walk.first[s] <= now /\ walk.first[s] <= walk.first[s]
        BY <1>1, <4>1
      <4> QED BY <4>1, <4>2
    <3> QED BY <2>1, <2>3, <3>1 DEF Sees, walk
  <2>7. /\ after \in CallRecords /\ after.pc = "hypertables" /\ after.walk = walk
        /\ after.catalog = <<>> /\ after.left = <<>> /\ after.asked = now /\ after.outcome = None
    <3>1. walk \in Walks
      BY <2>4 DEF walk
    <3>2. after = [asked EXCEPT !.pc = "hypertables", !.walk = walk]
      BY DEF walk
    <3> HIDE DEF after
    <3> QED BY <1>3, <3>1, <3>2 DEF CallRecords, WalkSteps
  <2> HIDE DEF after
  <2>8. ListedSoFar(after.catalog, after.left, walk)
    BY <2>7 DEF ListedSoFar
  <2>9. InWalk(after, born, dropped, rows, now)
    BY <2>3, <2>4, <2>5, <2>6, <2>7, <2>8 DEF InWalk, walk
  <2>10. CallHolds(after, born, dropped, rows, now)
    BY <1>1, <2>7, <2>9 DEF CallHolds
  <2>11. calls' = [calls EXCEPT ![c] = after]
    BY <1>4, <1>6 DEF after
  <2> QED BY <1>2, <2>7, <2>10, <2>11, OneCall
<1> QED BY <1>5, <1>6

\* What a statement finds of names: those that exist.
LEMMA ExistingHolds ==
  ASSUME NEW names \in Seq(Sources)
  PROVE  /\ Existing(names) \in Seq(Sources)
         /\ \A i \in 1..Len(Existing(names)) : Existing(names)[i] \in tables
         /\ \A s \in tables \cap ToSet(names) : \E i \in 1..Len(Existing(names)) : Existing(names)[i] = s
<1>1. /\ Kept(names, tables) \in Seq(Sources \cap tables)
      /\ \A x \in tables : (\E i \in 1..Len(names) : names[i] = x) <=>
           \E n \in 1..Len(Kept(names, tables)) : Kept(names, tables)[n] = x
  <2>1. Kept(names, tables) \in Seq(Sources \cap tables)
    BY KeptLists
  <2>2. ASSUME NEW x \in tables
        PROVE  (\E i \in 1..Len(names) : names[i] = x) <=>
                 \E n \in 1..Len(Kept(names, tables)) : Kept(names, tables)[n] = x
    BY KeptMembers
  <2> QED BY <2>1, <2>2
<1>2. \A s \in ToSet(names) : \E i \in 1..Len(names) : names[i] = s
  BY DEF ToSet
<1> DEFINE kept == Kept(names, tables)
<1> HIDE DEF kept
<1>3. kept \in Seq(Sources \cap tables)
  BY <1>1 DEF kept
<1>4. kept \in Seq(Sources) /\ \A i \in 1..Len(kept) : kept[i] \in tables
  BY <1>3
<1>5. \A s \in tables \cap ToSet(names) : \E i \in 1..Len(kept) : kept[i] = s
  BY <1>1, <1>2 DEF kept
<1> QED BY <1>4, <1>5 DEF Existing, kept

\* The hypertables are listed.
LEMMA SourcesHypertables == ASSUME SourcesInv, NEW c \in Callers, ListHypertables(c) PROVE SourcesInv'
<1> DEFINE call == calls[c]
           left == Existing(Hypertables)
           after == [call EXCEPT !.pc = "aggregates", !.left = left]
<1>1. /\ call \in CallRecords /\ CallHolds(call, born, dropped, rows, now)
      /\ calls \in [Callers -> CallRecords] /\ None # "served"
  BY SourcesNamed DEF SourcesInv, SourcesShape
<1>2. call.pc = "hypertables" /\ UNCHANGED <<now, born, dropped, rows>> /\ cache' = cache
  BY DEF ListHypertables, database
<1>3. calls' = [calls EXCEPT ![c] = after]
  BY <1>1 DEF ListHypertables
<1>4. InWalk(call, born, dropped, rows, now) /\ call.outcome = None
  BY <1>1, <1>2 DEF CallHolds, WalkSteps
<1>5. /\ call.walk \in Walks /\ call.asked = call.walk.began
      /\ Trails(call.walk, born, dropped, now) /\ Sees(call.walk, born, dropped, rows, now)
      /\ call.catalog = <<>>
  BY <1>2, <1>4 DEF InWalk
<1>6. /\ left \in Seq(Sources) /\ \A i \in 1..Len(left) : left[i] \in tables
      /\ \A s \in tables \cap ToSet(Hypertables) : \E i \in 1..Len(left) : left[i] = s
  BY SourcesNamed, ExistingHolds
<1> HIDE DEF left
<1>7. /\ after \in CallRecords /\ after.pc = "aggregates" /\ after.walk = call.walk
      /\ after.catalog = <<>> /\ after.left = left /\ after.asked = call.asked
      /\ after.outcome = None
  <2>1. "aggregates" \in {"idle", "done"} \cup WalkSteps
    BY DEF WalkSteps
  <2>2. after \in CallRecords
    BY <1>1, <1>6, <2>1 DEF CallRecords
  <2> QED BY <1>1, <1>4, <1>5, <2>2 DEF CallRecords
<1> HIDE DEF after, call
<1>8. call.walk.always \subseteq tables /\ tables \subseteq call.walk.ever
  BY <1>5 DEF Sees, Existed, tables
<1>9. DOMAIN left = 1..Len(left)
  BY <1>6
<1>10. ListedSoFar(after.catalog, after.left, call.walk)
  BY <1>6, <1>7, <1>8, <1>9 DEF ListedSoFar
<1>11. NoneMissed(after.catalog, after.left, call.walk, ToSet(Hypertables))
  BY <1>6, <1>7, <1>8, <1>9 DEF NoneMissed
<1>12. InWalk(after, born, dropped, rows, now)
  BY <1>5, <1>7, <1>10, <1>11 DEF InWalk
<1>13. CallHolds(after, born, dropped, rows, now)
  BY <1>1, <1>7, <1>12 DEF CallHolds
<1> QED BY <1>2, <1>3, <1>7, <1>13, OneCall

\* The continuous aggregates are listed: now nothing that exists all through is missed.
LEMMA SourcesAggregates == ASSUME SourcesInv, NEW c \in Callers, ListAggregates(c) PROVE SourcesInv'
<1> DEFINE call == calls[c]
           more == Existing(Aggregates)
           after == [call EXCEPT !.left = @ \o more]
<1>1. /\ call \in CallRecords /\ CallHolds(call, born, dropped, rows, now)
  BY DEF SourcesInv, SourcesShape
<1>2. call.pc = "aggregates" /\ UNCHANGED <<now, born, dropped, rows>> /\ Proceed(c, after)
  BY DEF ListAggregates, database
<1>3. InWalk(call, born, dropped, rows, now) /\ call.outcome = None
  BY <1>1, <1>2 DEF CallHolds, WalkSteps
<1>4. /\ call.walk \in Walks /\ call.asked = call.walk.began
      /\ Trails(call.walk, born, dropped, now) /\ Sees(call.walk, born, dropped, rows, now)
      /\ ListedSoFar(call.catalog, call.left, call.walk)
      /\ NoneMissed(call.catalog, call.left, call.walk, ToSet(Hypertables))
  BY <1>2, <1>3 DEF InWalk
<1>5. /\ more \in Seq(Sources) /\ \A i \in 1..Len(more) : more[i] \in tables
      /\ \A s \in tables \cap ToSet(Aggregates) : \E i \in 1..Len(more) : more[i] = s
  BY SourcesNamed, ExistingHolds
<1> HIDE DEF more
<1>6. call.left \in Seq(Sources)
  BY <1>1 DEF CallRecords
<1>7. call.left \o more \in Seq(Sources)
  BY <1>5, <1>6
<1>8. /\ after \in CallRecords /\ after.walk = call.walk /\ after.catalog = call.catalog
      /\ after.left = call.left \o more /\ after.asked = call.asked /\ after.outcome = None
  BY <1>1, <1>3, <1>7 DEF CallRecords
<1> HIDE DEF after, call
<1>9. call.walk.always \subseteq tables /\ tables \subseteq call.walk.ever
  BY <1>4 DEF Sees, Existed, tables
<1>10. /\ DOMAIN after.left = 1..(Len(call.left) + Len(more)) /\ Len(call.left) \in Nat /\ Len(more) \in Nat
       /\ DOMAIN call.left = 1..Len(call.left)
       /\ \A i \in 1..Len(call.left) : after.left[i] = call.left[i]
       /\ \A i \in 1..Len(more) : after.left[Len(call.left) + i] = more[i]
       /\ \A i \in DOMAIN after.left : i \in 1..Len(call.left) \/
            \E j \in 1..Len(more) : after.left[i] = more[j]
  <2>1. Len(call.left) \in Nat /\ Len(more) \in Nat /\ DOMAIN call.left = 1..Len(call.left)
    BY <1>5, <1>6
  <2>2. /\ DOMAIN after.left = 1..(Len(call.left) + Len(more))
        /\ \A i \in 1..Len(call.left) : after.left[i] = call.left[i]
        /\ \A i \in 1..Len(more) : after.left[Len(call.left) + i] = more[i]
    BY <1>5, <1>6, <1>8, <2>1
  <2>3. ASSUME NEW i \in DOMAIN after.left, i \notin 1..Len(call.left)
        PROVE  \E j \in 1..Len(more) : after.left[i] = more[j]
    <3>1. i - Len(call.left) \in 1..Len(more) /\ i = Len(call.left) + (i - Len(call.left))
      BY <2>1, <2>2, <2>3
    <3>2. after.left[i] = more[i - Len(call.left)]
      BY <2>2, <3>1
    <3> QED BY <3>1, <3>2
  <2> QED BY <2>1, <2>2, <2>3
<1>11. ListedSoFar(after.catalog, after.left, after.walk)
  <2>1. ASSUME NEW i \in DOMAIN after.left PROVE after.left[i] \in call.walk.ever
    <3>1. CASE i \in 1..Len(call.left)
      BY <1>4, <1>10, <3>1 DEF ListedSoFar
    <3>2. CASE \E j \in 1..Len(more) : after.left[i] = more[j]
      BY <1>5, <1>9, <3>2
    <3> QED BY <1>10, <3>1, <3>2
  <2> QED BY <1>4, <1>8, <2>1 DEF ListedSoFar
<1>12. ASSUME NEW s \in call.walk.always \cap Sources
       PROVE  \/ \E i \in DOMAIN call.catalog : call.catalog[i].source = s
              \/ \E i \in DOMAIN after.left : after.left[i] = s
  <2>1. CASE s \in ToSet(Hypertables)
    <3>1. CASE \E i \in DOMAIN call.left : call.left[i] = s
      <4>1. PICK i \in 1..Len(call.left) : call.left[i] = s
        BY <1>10, <3>1
      <4>2. i \in DOMAIN after.left /\ after.left[i] = s
        BY <1>10, <4>1
      <4> QED BY <4>2
    <3> QED BY <1>4, <2>1, <3>1 DEF NoneMissed
  <2>2. CASE s \in ToSet(Aggregates)
    <3>1. PICK i \in 1..Len(more) : more[i] = s
      BY <1>5, <1>9, <2>2
    <3>2. Len(call.left) + i \in DOMAIN after.left /\ after.left[Len(call.left) + i] = s
      BY <1>10, <3>1
    <3> QED BY <3>2
  <2> QED BY <2>1, <2>2, SourcesNamed
<1>13. NoneMissed(after.catalog, after.left, after.walk, Sources)
  BY <1>8, <1>12 DEF NoneMissed
<1> QED BY <1>2, <1>4, <1>8, <1>11, <1>13, ProceedHolds

\* The source at hand has its time column, or was dropped since it was listed.
LEMMA SourcesColumn == ASSUME SourcesInv, NEW c \in Callers, DetectColumn(c) PROVE SourcesInv'
<1> DEFINE call == calls[c]
           s == Head(call.left)
           after == [call EXCEPT !.pc = "span"]
<1>1. call.pc = "column" /\ UNCHANGED <<now, born, dropped, rows>>
  BY DEF DetectColumn, database
<1>2. /\ call \in CallRecords /\ call.left # <<>> /\ call.outcome = None
      /\ s \in Sources /\ s \in call.walk.ever /\ InWalk(call, born, dropped, rows, now)
      /\ tables = Existed(born, dropped)
  BY <1>1, AtHand
<1>3. calls \in [Callers -> CallRecords] /\ None # "served"
  BY SourcesNamed DEF SourcesInv, SourcesShape
<1>4. CASE s \in tables
  <2>1. calls' = [calls EXCEPT ![c] = after] /\ cache' = cache
    BY <1>3, <1>4 DEF DetectColumn
  <2>2. "span" \in {"idle", "done"} \cup WalkSteps
    BY DEF WalkSteps
  <2>3. /\ after \in CallRecords /\ after.pc = "span" /\ after.asked = call.asked
        /\ after.catalog = call.catalog /\ after.left = call.left /\ after.walk = call.walk
        /\ after.outcome = None
    BY <1>2, <2>2, CallMovesOn
  <2> HIDE DEF after, call
  <2>4. InWalk(after, born, dropped, rows, now)
    BY <1>1, <1>2, <2>3 DEF InWalk
  <2>5. CallHolds(after, born, dropped, rows, now)
    BY <1>3, <2>3, <2>4 DEF CallHolds
  <2> QED BY <1>1, <2>1, <2>3, <2>5, OneCall
<1>5. CASE s \notin tables
  <2>1. Proceed(c, Described(calls[c], FALSE, None, None))
    BY <1>5 DEF DetectColumn
  <2>2. s \notin call.walk.always
    BY <1>2, <1>5 DEF InWalk, Sees
  <2>3. EntryHolds([source |-> s, column |-> FALSE, min |-> None, max |-> None], call.walk)
    BY <1>2, <2>2 DEF EntryHolds
  <2>4. None \in Times /\ FALSE \in BOOLEAN
    BY DEF Times
  <2> QED BY <1>1, <2>1, <2>3, <2>4, EntryMade
<1> QED BY <1>4, <1>5

\* The chunks of the source at hand: the newest of them, or no range.
LEMMA SourcesSpan == ASSUME SourcesInv, NEW c \in Callers, ReadSpan(c) PROVE SourcesInv'
<1> DEFINE call == calls[c]
           s == Head(call.left)
           span == [oldest |-> Min(rows[s]), newest |-> Max(rows[s])]
           after == [call EXCEPT !.pc = "newest", !.span = span]
<1>1. call.pc = "span" /\ UNCHANGED <<now, born, dropped, rows>>
  BY DEF ReadSpan, database
<1>2. /\ call \in CallRecords /\ call.left # <<>> /\ call.outcome = None
      /\ s \in Sources /\ s \in call.walk.ever /\ InWalk(call, born, dropped, rows, now)
  BY <1>1, AtHand
<1>3. /\ calls \in [Callers -> CallRecords] /\ None # "served" /\ rows \in [Sources -> SUBSET Nat]
      /\ SourcesShape
  BY SourcesNamed DEF SourcesInv, SourcesShape
<1>4. Sees(call.walk, born, dropped, rows, now) /\ call.walk \in Walks
  BY <1>2 DEF InWalk
<1>5. CASE rows[s] # {}
  <2>1. calls' = [calls EXCEPT ![c] = after] /\ cache' = cache
    BY <1>3, <1>5 DEF ReadSpan
  <2>2. /\ Min(rows[s]) \in Nat /\ Max(rows[s]) \in Nat /\ Max(rows[s]) \in rows[s]
        /\ \A t \in rows[s] : Min(rows[s]) <= t /\ t <= Max(rows[s])
    BY <1>2, <1>3, <1>5, RowsOrdered
  <2>3. /\ span \in RowSpans /\ span.oldest <= span.newest /\ span.newest \in rows[s]
        /\ \A t \in rows[s] : t <= span.newest
    BY <2>2 DEF RowSpans
  <2> HIDE DEF span
  <2>4. "newest" \in {"idle", "done"} \cup WalkSteps
    BY DEF WalkSteps
  <2>5. after \in CallRecords
    BY <1>2, <2>3, <2>4 DEF CallRecords
  <2>6. /\ after.pc = "newest" /\ after.asked = call.asked
        /\ after.catalog = call.catalog /\ after.left = call.left /\ after.walk = call.walk
        /\ after.span = span /\ after.outcome = None
    BY <1>2 DEF CallRecords
  <2> HIDE DEF after
  <2>7. RangeRead(after, rows)
    <3>1. \E t \in rows[s] : span.newest <= t
      <4>1. span.newest <= span.newest
        BY <2>3 DEF RowSpans
      <4> QED BY <2>3, <4>1
    <3>2. ASSUME call.walk.first[s] # None PROVE call.walk.first[s] <= span.newest
      <4>1. PICK t \in rows[s] : call.walk.first[s] <= t
        BY <1>2, <1>4, <1>5, <3>2 DEF Sees
      <4>2. /\ t <= span.newest /\ t \in Nat /\ span.newest \in Nat /\ call.walk.first[s] \in Nat
        BY <1>2, <1>3, <1>4, <2>3, <3>2, <4>1 DEF Walks, Times, RowSpans
      <4> HIDE DEF call, s
      <4> QED BY <4>1, <4>2
    <3> HIDE DEF call
    <3> QED BY <2>3, <2>6, <3>1, <3>2 DEF RangeRead
  <2> HIDE DEF call
  <2>8. InWalk(after, born, dropped, rows, now)
    BY <1>1, <1>2, <2>6, <2>7 DEF InWalk
  <2>9. CallHolds(after, born, dropped, rows, now)
    BY <1>3, <2>6, <2>8 DEF CallHolds
  <2> QED BY <1>1, <2>1, <2>5, <2>9, OneCall
<1>6. CASE rows[s] = {}
  <2>1. Proceed(c, Described(calls[c], TRUE, None, None))
    BY <1>6 DEF ReadSpan
  <2>2. s \in call.walk.empty
    BY <1>2, <1>4, <1>6 DEF Sees
  <2>3. EntryHolds([source |-> s, column |-> TRUE, min |-> None, max |-> None], call.walk)
    BY <1>2, <2>2 DEF EntryHolds
  <2>4. None \in Times /\ TRUE \in BOOLEAN
    BY DEF Times
  <2> QED BY <1>1, <2>1, <2>3, <2>4, EntryMade
<1> QED BY <1>5, <1>6

\* The newest value from the newest chunk on, if the chunk is still there or a newer one.
LEMMA SourcesNewest == ASSUME SourcesInv, NEW c \in Callers, ReadNewest(c) PROVE SourcesInv'
<1> DEFINE call == calls[c]
           s == Head(call.left)
           recent == {t \in rows[s] : t >= call.span.newest}
           max == NewestFrom(s, call.span.newest)
<1>1. call.pc = "newest" /\ UNCHANGED <<now, born, dropped, rows>>
  BY DEF ReadNewest, database
<1>2. /\ call \in CallRecords /\ call.left # <<>> /\ call.outcome = None
      /\ s \in Sources /\ s \in call.walk.ever /\ InWalk(call, born, dropped, rows, now)
  BY <1>1, AtHand
<1>3. /\ rows \in [Sources -> SUBSET Nat] /\ \A x \in Sources : rows[x] \subseteq 0..now
      /\ now \in Nat /\ None \notin Nat
  BY SourcesNamed DEF SourcesInv, SourcesShape
<1>4. call.walk \in Walks /\ RangeRead(call, rows)
  BY <1>1, <1>2 DEF InWalk
<1>5. /\ call.span.oldest \in Nat /\ call.span.newest \in Nat /\ call.span.oldest <= call.span.newest
      /\ s \notin call.walk.empty => \E t \in rows[s] : call.span.newest <= t
      /\ call.walk.first[s] # None => call.walk.first[s] <= call.span.newest
  BY <1>4 DEF RangeRead, RowSpans
<1>6. Proceed(c, Described(calls[c], TRUE, call.span.oldest, max))
  BY DEF ReadNewest
<1>7. CASE recent = {}
  <2>1. max = None
    BY <1>7 DEF NewestFrom
  <2>2. s \in call.walk.empty
    <3>1. \A t \in rows[s] : ~(call.span.newest <= t)
      BY <1>2, <1>3, <1>5, <1>7
    <3> QED BY <1>5, <3>1
  <2>3. EntryHolds([source |-> s, column |-> TRUE, min |-> call.span.oldest, max |-> max], call.walk)
    BY <1>2, <2>1, <2>2 DEF EntryHolds
  <2>4. max \in Times /\ call.span.oldest \in Times /\ TRUE \in BOOLEAN
    BY <1>5, <2>1 DEF Times
  <2> QED BY <1>1, <1>6, <2>3, <2>4, EntryMade
<1>8. CASE recent # {}
  <2>1. recent \in SUBSET Nat /\ recent \in SUBSET (0..now)
    BY <1>2, <1>3
  <2>2. IsFiniteSet(recent)
    <3>1. IsFiniteSet(0..now)
      BY <1>3, FS_Interval
    <3> HIDE DEF recent
    <3> QED BY <2>1, <3>1, FS_Subset
  <2>3. Max(recent) \in recent
    <3> HIDE DEF recent
    <3> QED BY <1>8, <2>1, <2>2, MinAndMax
  <2>4. max = Max(recent)
    BY <1>8 DEF NewestFrom
  <2>5. max \in Nat /\ call.span.newest <= max
    BY <1>2, <1>3, <1>5, <2>3, <2>4
  <2> HIDE DEF max, recent
  <2>6. call.span.oldest <= max /\ (call.walk.first[s] # None => call.walk.first[s] <= max)
    <3>1. call.walk.first[s] \in Times
      BY <1>2, <1>4 DEF Walks
    <3> HIDE DEF call, s
    <3> QED BY <1>5, <2>5, <3>1 DEF Times
  <2>7. max # None /\ max \in Times /\ call.span.oldest \in Times /\ TRUE \in BOOLEAN
    BY <1>3, <1>5, <2>5 DEF Times
  <2>8. EntryHolds([source |-> s, column |-> TRUE, min |-> call.span.oldest, max |-> max], call.walk)
    BY <1>2, <2>6, <2>7 DEF EntryHolds
  <2> QED BY <1>1, <1>6, <2>7, <2>8, EntryMade
<1> QED BY <1>7, <1>8

\* A call that failed, and one that returns, promises nothing.
LEMMA SourcesOver ==
  ASSUME SourcesInv, NEW c \in Callers, Fail(c) \/ Return(c) PROVE SourcesInv'
<1> DEFINE failed == [Idle EXCEPT !.pc = "done", !.outcome = "failed"]
<1>1. None # "served" /\ calls \in [Callers -> CallRecords]
  BY SourcesNamed DEF SourcesInv, SourcesShape
<1>2. <<>> \in Seq(Entries) /\ <<>> \in Seq(Sources)
  OBVIOUS
<1>3. Idle \in CallRecords
  BY <1>2 DEF Idle, CallRecords, Times
<1>4. CallHolds(Idle, born, dropped, rows, now)
  BY <1>1 DEF CallHolds, Idle, WalkSteps
<1>5. failed \in CallRecords /\ failed.pc = "done" /\ failed.outcome = "failed"
  BY <1>2 DEF Idle, CallRecords, Times
<1> HIDE DEF failed
<1>6. CallHolds(failed, born, dropped, rows, now)
  BY <1>5 DEF CallHolds, WalkSteps
<1>7. /\ UNCHANGED <<now, born, dropped, rows>> /\ cache' = cache
      /\ calls' = [calls EXCEPT ![c] = failed] \/ calls' = [calls EXCEPT ![c] = Idle]
  BY DEF Fail, Return, database, failed
<1> QED BY <1>3, <1>4, <1>5, <1>6, <1>7, OneCall

-----------------------------------------------------------------------------
(* The catalog of tables: the theorems *)

\* The invariant holds at the start.
LEMMA SourcesStart == ASSUME Init PROVE SourcesInv
<1>1. None # "served" /\ None \notin Nat
  BY SourcesNamed
<1>2. <<>> \in Seq(Entries) /\ <<>> \in Seq(Sources)
  OBVIOUS
<1>3. Idle \in CallRecords
  BY <1>2 DEF Idle, CallRecords, Times
<1>4. CallHolds(Idle, born, dropped, rows, now)
  BY <1>1 DEF CallHolds, Idle, WalkSteps
<1>5. SourcesShape
  <2>1. now = 0 /\ calls = [c \in Callers |-> Idle]
    BY DEF Init
  <2>2. born \in [Sources -> Times] /\ dropped \in [Sources -> Times]
    BY DEF Init, Times
  <2>3. \A s \in Sources : dropped[s] = None
    BY DEF Init
  <2>4. rows \in [Sources -> SUBSET Nat] /\ \A s \in Sources : rows[s] \subseteq 0..0
    BY DEF Init
  <2>5. calls \in [Callers -> CallRecords]
    BY <1>3, <2>1
  <2> QED BY <2>1, <2>2, <2>3, <2>4, <2>5 DEF SourcesShape
<1>6. cache = None /\ \A c \in Callers : calls[c] = Idle
  BY DEF Init
<1> QED BY <1>4, <1>5, <1>6 DEF SourcesInv

\* Every step keeps it, and so does none.
LEMMA SourcesSteps == ASSUME SourcesInv, [Next]_vars PROVE SourcesInv'
<1>1. CASE Next
  <2>1. CASE Tick
    BY <2>1, SourcesTick
  <2>2. ASSUME NEW s \in Sources, Create(s) \/ Drop(s) \/ Insert(s) \/ Retain(s) PROVE SourcesInv'
    BY <2>2, SourcesCreate, SourcesDrop, SourcesInsert, SourcesRetain
  <2>3. ASSUME NEW c \in Callers,
               \/ Ask(c) \/ ListHypertables(c) \/ ListAggregates(c)
               \/ DetectColumn(c) \/ ReadSpan(c) \/ ReadNewest(c) \/ Fail(c) \/ Return(c)
        PROVE  SourcesInv'
    BY <2>3, SourcesAsk, SourcesHypertables, SourcesAggregates, SourcesColumn, SourcesSpan,
       SourcesNewest, SourcesOver
  <2> QED BY <1>1, <2>1, <2>2, <2>3 DEF Next
<1>2. CASE UNCHANGED vars
  <2>1. /\ now' = now /\ born' = born /\ dropped' = dropped /\ rows' = rows
        /\ cache' = cache /\ calls' = calls
    BY <1>2 DEF vars
  <2>2. now' \in Nat /\ now <= now' /\ rows' \in [Sources -> SUBSET Nat]
        /\ \A s \in Sources : rows'[s] \subseteq 0..now'
    BY <2>1 DEF SourcesInv, SourcesShape
  <2> QED BY <2>1, <2>2, DatabaseGrows
<1> QED BY <1>1, <1>2

\* What a catalog that was told says of its walk and of the database.
LEMMA FinishedHolds ==
  ASSUME NEW catalog, NEW walk, NEW ended, NEW b, NEW d, NEW n,
         Finished(catalog, walk, ended, b, d, n)
  PROVE  /\ \A i \in DOMAIN catalog : EntryHolds(catalog[i], walk)
         /\ \A s \in walk.always : Chosen(catalog, s) = "known"
         /\ \A s \in Sources : s \notin walk.ever => Chosen(catalog, s) # "known"
         /\ walk \in Walks /\ ended \in Nat /\ walk.began <= ended /\ Trails(walk, b, d, n)
<1>1. /\ walk \in Walks /\ ended \in Nat /\ walk.began <= ended /\ Trails(walk, b, d, n)
      /\ \A i \in DOMAIN catalog : EntryHolds(catalog[i], walk)
      /\ NoneMissed(catalog, <<>>, walk, Sources)
  BY DEF Finished, ListedSoFar
<1>2. walk.always \subseteq Sources
  BY <1>1 DEF Walks
<1>3. ASSUME NEW s \in walk.always PROVE Chosen(catalog, s) = "known"
  <2>1. PICK i \in DOMAIN catalog : catalog[i].source = s
    BY <1>1, <1>2 DEF NoneMissed
  <2>2. catalog[i].column
    BY <1>1, <2>1 DEF EntryHolds
  <2> QED BY <2>1, <2>2 DEF Chosen
<1>4. ASSUME NEW s \in Sources, s \notin walk.ever PROVE Chosen(catalog, s) # "known"
  <2>1. \A i \in DOMAIN catalog : catalog[i].source # s
    BY <1>1, <1>4 DEF EntryHolds
  <2> QED BY <2>1 DEF Chosen
<1> QED BY <1>1, <1>3, <1>4

\* An answered call has a catalog that is of its walk.
LEMMA CatalogIsOfItsWalk == SourcesInv => CatalogOfItsWalk
<1> SUFFICES ASSUME SourcesInv, NEW c \in Callers, Answered(c)
             PROVE  /\ Listed(calls[c].catalog) \subseteq calls[c].walk.ever
                    /\ \A s \in calls[c].walk.always : Chosen(calls[c].catalog, s) = "known"
                    /\ \A i \in DOMAIN calls[c].catalog :
                         LET entry == calls[c].catalog[i]
                             first == calls[c].walk.first[entry.source]
                         IN IF entry.max = None
                            THEN entry.source \in calls[c].walk.empty \/ entry.source \notin calls[c].walk.always
                            ELSE entry.min <= entry.max /\ (first # None => first <= entry.max)
  BY DEF CatalogOfItsWalk
<1>1. Finished(calls[c].catalog, calls[c].walk, calls[c].ended, born, dropped, now)
  BY DEF SourcesInv, CallHolds, Answered
<1>2. /\ \A i \in DOMAIN calls[c].catalog : EntryHolds(calls[c].catalog[i], calls[c].walk)
      /\ \A s \in calls[c].walk.always : Chosen(calls[c].catalog, s) = "known"
  BY <1>1, FinishedHolds
<1>3. Listed(calls[c].catalog) \subseteq calls[c].walk.ever
  BY <1>2 DEF Listed, EntryHolds
<1> QED BY <1>2, <1>3 DEF EntryHolds

\* An answered call is told of the database no later than the time to live and the walk.
LEMMA CatalogDoesTrail == SourcesInv => CatalogTrails
<1> SUFFICES ASSUME SourcesInv, NEW c \in Callers, NEW s \in Sources, Answered(c)
             PROVE  LET call == calls[c]
                        lag == TTL + (call.ended - call.walk.began)
                        told == Chosen(call.catalog, s)
                    IN /\ told = "known" /\ dropped[s] # None => call.asked <= dropped[s] + lag
                       /\ told = "unknown_table" /\ s \in tables => call.asked <= born[s] + lag
  BY DEF CatalogTrails
<1> DEFINE call == calls[c]
           walk == call.walk
           told == Chosen(call.catalog, s)
<1>1. /\ Finished(call.catalog, walk, call.ended, born, dropped, now)
      /\ call.asked \in Nat /\ call.asked <= call.ended + TTL
  BY DEF SourcesInv, CallHolds, Answered
<1>2. /\ \A x \in walk.always : Chosen(call.catalog, x) = "known"
      /\ \A x \in Sources : x \notin walk.ever => Chosen(call.catalog, x) # "known"
      /\ walk \in Walks /\ call.ended \in Nat /\ Trails(walk, born, dropped, now)
  BY <1>1, FinishedHolds
<1>3. /\ walk.began \in Nat /\ TTL \in Nat /\ None \notin Nat
      /\ born[s] \in Times /\ dropped[s] \in Times
  BY <1>2, SourcesNamed DEF Walks, SourcesInv, SourcesShape
<1>4. ASSUME told = "known", dropped[s] # None
      PROVE  call.asked <= dropped[s] + (TTL + (call.ended - walk.began))
  <2>1. s \in walk.ever
    BY <1>2, <1>4
  <2>2. walk.began <= dropped[s] /\ dropped[s] \in Nat
    BY <1>2, <1>3, <1>4, <2>1 DEF Trails, Times
  <2> HIDE DEF call, walk
  <2> QED BY <1>1, <1>2, <1>3, <2>2
<1>5. ASSUME told = "unknown_table", s \in tables
      PROVE  call.asked <= born[s] + (TTL + (call.ended - walk.began))
  <2>1. s \notin walk.always
    BY <1>2, <1>5
  <2>2. s \in Existed(born, dropped)
    BY <1>5 DEF tables, Existed
  <2>3. walk.began <= born[s] /\ born[s] \in Nat
    BY <1>2, <1>3, <2>1, <2>2 DEF Trails, Times, Existed
  <2> HIDE DEF call, walk
  <2> QED BY <1>1, <1>2, <1>3, <2>3
<1> QED BY <1>4, <1>5

\* The invariant of the catalog of tables holds in every state.
THEOREM SourcesHold == Spec => []SourcesInv
<1>1. Init => SourcesInv
  BY SourcesStart
<1>2. SourcesInv /\ [Next]_vars => SourcesInv'
  BY SourcesSteps
<1> QED BY <1>1, <1>2, PTL DEF Spec

\* Whoever made the walk, a catalog that is told is of it.
THEOREM CatalogsAreOfTheirWalks == Spec => []CatalogOfItsWalk
BY SourcesHold, CatalogIsOfItsWalk, PTL

\* What is told trails the database by the time to live and the walk, never by more.
THEOREM CatalogsTrail == Spec => []CatalogTrails
BY SourcesHold, CatalogDoesTrail, PTL

-----------------------------------------------------------------------------
(* Lemmas about cut lists *)

\* The smaller of two numbers.
LEMMA MinOfTwo ==
  ASSUME NEW a \in Nat, NEW b \in Nat
  PROVE  Min({a, b}) = IF a <= b THEN a ELSE b
<1>1. {a, b} \in SUBSET Nat /\ {a, b} # {}
  OBVIOUS
<1>2. IsFiniteSet({a, b})
  <2>1. {a, b} = {a} \cup {b}
    OBVIOUS
  <2>2. IsFiniteSet({a})
    BY FS_Singleton
  <2>3. IsFiniteSet({a} \cup {b})
    BY <2>2, FS_AddElement
  <2> QED BY <2>1, <2>3
<1>3. Min({a, b}) \in {a, b} /\ \A p \in {a, b} : Min({a, b}) <= p
  BY <1>1, <1>2, MinAndMax
<1> DEFINE min == Min({a, b})
<1> HIDE DEF min
<1>4. (min = a \/ min = b) /\ min <= a /\ min <= b
  BY <1>3 DEF min
<1>5. min = IF a <= b THEN a ELSE b
  BY <1>4
<1> QED BY <1>5 DEF min

\* A cut list is the beginning of what was found, and whether that is all is told.
LEMMA CutLists ==
  ASSUME NEW X, NEW found \in Seq(X), NEW limit \in Nat
  PROVE  /\ Cut(found, limit) \in Seq(X)
         /\ Len(Cut(found, limit)) = Min({limit, Len(found)})
         /\ Len(Cut(found, limit)) = IF limit <= Len(found) THEN limit ELSE Len(found)
         /\ \A i \in 1..Len(Cut(found, limit)) : Cut(found, limit)[i] = found[i]
         /\ Truncated(found, limit) <=> Len(Cut(found, limit)) < Len(found)
<1> DEFINE K == Min({limit, Len(found)})
           cut == Cut(found, limit)
<1>1. Len(found) \in Nat
  OBVIOUS
<1>2. K = IF limit <= Len(found) THEN limit ELSE Len(found)
  BY <1>1, MinOfTwo
<1>3. cut = SubSeq(found, 1, K)
  BY DEF Cut
<1> HIDE DEF K, cut
<1>4. K \in Nat /\ K <= Len(found) /\ 1 \in Int /\ K \in Int
  BY <1>1, <1>2
<1>5. \A i \in 1..K : found[i] \in X
  BY <1>1, <1>4
<1>6. /\ SubSeq(found, 1, K) \in Seq(X)
      /\ Len(SubSeq(found, 1, K)) = IF 1 <= K THEN K - 1 + 1 ELSE 0
      /\ \A i \in 1..(K - 1 + 1) : SubSeq(found, 1, K)[i] = found[1 + i - 1]
  BY <1>4, <1>5, SubSeqProperties
<1>7. cut \in Seq(X) /\ Len(cut) = K /\ \A i \in 1..K : cut[i] = found[i]
  <2>1. Len(cut) = K
    BY <1>3, <1>4, <1>6
  <2>2. K - 1 + 1 = K /\ \A i \in 1..K : 1 + i - 1 = i
    BY <1>4
  <2> QED BY <1>3, <1>6, <2>1, <2>2
<1>8. Truncated(found, limit) <=> Len(cut) < Len(found)
  BY <1>1, <1>2, <1>7 DEF Truncated
<1> QED BY <1>2, <1>7, <1>8 DEF cut, K

\* What a cut list shows is at its place of what was found.
LEMMA CutPlaces ==
  ASSUME NEW X, NEW found \in Seq(X), NEW limit \in Nat, NEW cut, cut = Cut(found, limit)
  PROVE  \A i \in 1..Len(cut) : cut[i] = found[i]
<1>1. \A i \in 1..Len(Cut(found, limit)) : Cut(found, limit)[i] = found[i]
  BY CutLists, Zenon
<1> QED BY <1>1, Zenon

\* What is shown of a list is taken from places of it, no two of one place.
TakenFrom(shown, list) ==
  \E places \in [1..Len(shown) -> 1..Len(list)] :
    /\ \A n \in 1..Len(shown) : shown[n] = list[places[n]]
    /\ \A m, n \in 1..Len(shown) : places[m] = places[n] => m = n

\* The newest of a list: what is cut off is no newer than what is shown.
LEMMA NewestShown ==
  ASSUME NEW X, NEW list \in Seq(X), \A x \in X : x.at \in Nat, NEW limit \in Nat,
         NEW shown, shown = Cut(NewestFirst(list), limit)
  PROVE  /\ shown \in Seq(X)
         /\ Len(shown) = Min({limit, Len(list)})
         /\ Truncated(list, limit) <=> Len(shown) < Len(list)
         /\ TakenFrom(shown, list)
         /\ \A i \in 1..Len(list) : list[i] \in Range(shown) \/
              \A n \in 1..Len(shown) : list[i].at <= shown[n].at
<1> DEFINE sorted == NewestFirst(list)
           N == Len(list)
<1>1. /\ sorted \in Seq(X) /\ Len(sorted) = N
      /\ \A m, n \in 1..N : m <= n => sorted[n].at <= sorted[m].at
  BY NewestFirstLists
<1>2. Rearranges(sorted, list)
  BY NewestFirstLists
<1> HIDE DEF sorted
<1>3. PICK at \in [1..N -> 1..N] :
        /\ \A n \in 1..N : sorted[n] = list[at[n]]
        /\ \A i \in 1..N : \E n \in 1..N : at[n] = i
        /\ \A m, n \in 1..N : at[m] = at[n] => m = n
  BY <1>2 DEF Rearranges
<1>4. /\ shown \in Seq(X) /\ Len(shown) = Min({limit, N})
      /\ Len(shown) = IF limit <= N THEN limit ELSE N
      /\ \A i \in 1..Len(shown) : shown[i] = sorted[i]
      /\ Truncated(sorted, limit) <=> Len(shown) < N
  <2>1. shown = Cut(sorted, limit)
    BY DEF sorted
  <2>2. shown \in Seq(X) /\ Len(shown) = Min({limit, Len(sorted)})
    BY <1>1, <2>1, CutLists
  <2>3. Len(shown) = IF limit <= Len(sorted) THEN limit ELSE Len(sorted)
    BY <1>1, <2>1, CutLists
  <2>4. \A i \in 1..Len(shown) : shown[i] = sorted[i]
    <3>1. \A i \in 1..Len(Cut(sorted, limit)) : Cut(sorted, limit)[i] = sorted[i]
      BY <1>1, CutLists, Zenon
    <3> QED BY <2>1, <3>1
  <2>5. Truncated(sorted, limit) <=> Len(shown) < Len(sorted)
    BY <1>1, <2>1, CutLists
  <2> QED BY <1>1, <2>2, <2>3, <2>4, <2>5
<1>5. N \in Nat /\ Len(shown) \in Nat /\ Len(shown) <= N /\ 1..Len(shown) \subseteq 1..N
  <2>1. N \in Nat
    OBVIOUS
  <2> HIDE DEF N
  <2>2. Len(shown) \in Nat /\ Len(shown) <= N
    BY <1>4, <2>1
  <2> QED BY <2>1, <2>2
<1>6. Truncated(list, limit) <=> Len(shown) < N
  BY <1>1, <1>4 DEF Truncated
<1>7. TakenFrom(shown, list)
  <2> DEFINE places == [n \in 1..Len(shown) |-> at[n]]
  <2>1. places \in [1..Len(shown) -> 1..N]
    BY <1>3, <1>5
  <2>2. \A n \in 1..Len(shown) : shown[n] = list[places[n]]
    BY <1>3, <1>4, <1>5
  <2>3. \A m, n \in 1..Len(shown) : places[m] = places[n] => m = n
    BY <1>3, <1>5
  <2> HIDE DEF places
  <2> QED BY <2>1, <2>2, <2>3 DEF TakenFrom
<1>8. ASSUME NEW i \in 1..N, list[i] \notin Range(shown), NEW n \in 1..Len(shown)
      PROVE  list[i].at <= shown[n].at
  <2>1. PICK m \in 1..N : at[m] = i
    BY <1>3
  <2>2. sorted[m] = list[i]
    BY <1>3, <2>1
  <2>3. m \notin 1..Len(shown)
    <3>1. ASSUME m \in 1..Len(shown) PROVE FALSE
      <4>1. shown[m] = list[i] /\ m \in DOMAIN shown
        <5>1. DOMAIN shown = 1..Len(shown)
          BY <1>4
        <5> QED BY <1>4, <2>2, <3>1, <5>1
      <4>2. shown[m] \in Range(shown)
        BY <4>1 DEF Range
      <4> QED BY <1>8, <4>1, <4>2
    <3> QED BY <3>1
  <2>4. n <= m /\ n \in 1..N
    BY <1>5, <2>3
  <2> QED BY <1>1, <1>4, <2>2, <2>4
<1> QED BY <1>4, <1>6, <1>7, <1>8

-----------------------------------------------------------------------------
(* The backup server: the inductive invariant *)

\* The datastores there are, as the server lists them, and what a request finds, of
\* garbage collections g and jobs j.
StoresAt(g) == Kept(Stores, {s \in Range(Stores) : g[s] # "none"})
GcAt(g) == [i \in DOMAIN StoresAt(g) |-> [store |-> StoresAt(g)[i], run |-> g[StoresAt(g)[i]]]]
JobsAt(j) == {[job |-> k, run |-> j[k]] : k \in {l \in VerifyJobs : j[l] # "none"}}

ReportFields == {"pc", "limit", "since", "open", "got", "answer", "metGc", "metJobs"}
GcStates == [Range(Stores) -> Runs \cup {"none"}]

\* What was answered was so at some time of the call, each at its own.
Gathered(r) ==
  /\ r.open \subseteq Requests /\ DOMAIN r.got = Requests \ r.open
  /\ r.metGc \subseteq GcStates
  /\ "usage" \notin r.open => \E m \in r.metGc : r.got["usage"] = StoresAt(m)
  /\ "gc" \notin r.open => \E m \in r.metGc : r.got["gc"] = GcAt(m)
  /\ "verify" \notin r.open => \E m \in r.metJobs : r.got["verify"] = JobsAt(m)

PbsInv ==
  /\ gc \in GcStates
  /\ report = [f \in ReportFields |-> report[f]]
  /\ report.pc = "idle" => report.got = <<>>
  /\ report.pc = "reading" => gc \in report.metGc /\ jobs \in report.metJobs /\ Gathered(report)
  /\ JobsAreTheirs
  /\ PbsCutsTold

-----------------------------------------------------------------------------
(* The backup server: the report of the datastores *)

\* The datastores of one moment: no two of one name, all that are there.
LEMMA StoresListed ==
  ASSUME NEW g
  PROVE  /\ StoresAt(g) \in Seq(Range(Stores)) /\ Len(StoresAt(g)) \in Nat
         /\ \A i \in 1..Len(StoresAt(g)) : StoresAt(g)[i] \in Range(Stores) /\ g[StoresAt(g)[i]] # "none"
         /\ \A i, k \in 1..Len(StoresAt(g)) : StoresAt(g)[i] = StoresAt(g)[k] => i = k
         /\ \A s \in Range(Stores) : g[s] # "none" => \E i \in 1..Len(StoresAt(g)) : StoresAt(g)[i] = s
<1> DEFINE T == {s \in Range(Stores) : g[s] # "none"}
           list == StoresAt(g)
<1>1. Stores \in Seq(Range(Stores)) /\ IsInjective(Stores)
  <2>1. Stores \in Seq(STRING) /\ IsInjective(Stores)
    BY PbsAssumption
  <2>2. \A i \in 1..Len(Stores) : Stores[i] \in Range(Stores)
    BY <2>1 DEF Range
  <2> QED BY <2>1, <2>2
<1>2. list = Kept(Stores, T)
  BY DEF StoresAt
<1>3. \A s \in T : s \in Range(Stores) /\ g[s] # "none"
  OBVIOUS
<1>4. \A s \in Range(Stores) : g[s] # "none" => s \in T
  OBVIOUS
<1>5. \A s \in Range(Stores) : \E i \in 1..Len(Stores) : Stores[i] = s
  BY <1>1 DEF Range
<1> HIDE DEF T, list
<1>6. list \in Seq(Range(Stores) \cap T) /\ Len(list) \in Nat
  BY <1>1, <1>2, KeptLists
<1>7. \A i \in 1..Len(list) : list[i] \in T
  BY <1>6
<1>8. list \in Seq(Range(Stores))
  BY <1>6
<1>9. \A i, k \in 1..Len(list) : list[i] = list[k] => i = k
  BY <1>1, <1>2, KeptOnce
<1>10. \A s \in T : \E i \in 1..Len(list) : list[i] = s
  <2>1. \A s \in T : (\E i \in 1..Len(Stores) : Stores[i] = s) <=> \E i \in 1..Len(list) : list[i] = s
    BY <1>1, <1>2, KeptMembers
  <2> QED BY <1>3, <1>5, <2>1
<1> QED BY <1>3, <1>4, <1>6, <1>7, <1>8, <1>9, <1>10 DEF list

\* The garbage collection joined to a datastore was its own at the moment of the answer;
\* "none" means that the datastore was not there.
LEMMA GcJoined ==
  ASSUME NEW g \in GcStates, NEW usage, NEW i, usage[i] \in Range(Stores)
  PROVE  GcOf(usage, GcAt(g), i) = g[usage[i]]
<1> DEFINE listed == GcAt(g)
           s == usage[i]
           named == {n \in DOMAIN listed : listed[n].store = s}
           N == Len(StoresAt(g))
<1>1. /\ N \in Nat /\ DOMAIN StoresAt(g) = 1..N
      /\ \A k \in Range(Stores) : g[k] # "none" => \E n \in 1..N : StoresAt(g)[n] = k
  BY StoresListed
<1>2. /\ DOMAIN listed = 1..N
      /\ \A n \in 1..N : listed[n].store = StoresAt(g)[n] /\ listed[n].run = g[StoresAt(g)[n]]
  BY <1>1 DEF GcAt
<1>3. GcOf(usage, listed, i) = IF named = {} THEN "none" ELSE listed[Max(named)].run
  BY DEF GcOf
<1> HIDE DEF listed, N
<1>4. CASE named = {}
  <2>1. g[s] = "none"
    BY <1>1, <1>2, <1>4
  <2> QED BY <1>3, <1>4, <2>1 DEF listed
<1>5. CASE named # {}
  <2>1. named \in SUBSET (1..N) /\ named \in SUBSET Nat
    BY <1>1, <1>2
  <2>2. IsFiniteSet(named)
    <3>1. IsFiniteSet(1..N)
      BY <1>1, FS_Interval
    <3> HIDE DEF named
    <3> QED BY <2>1, <3>1, FS_Subset
  <2>3. Max(named) \in named
    <3> HIDE DEF named
    <3> QED BY <1>5, <2>1, <2>2, MinAndMax
  <2>4. Max(named) \in 1..N /\ listed[Max(named)].store = s
    BY <1>2, <2>3
  <2>5. listed[Max(named)].run = g[s]
    BY <1>2, <2>4
  <2> HIDE DEF named
  <2> QED BY <1>3, <1>5, <2>5 DEF listed
<1> QED BY <1>4, <1>5

\* The jobs joined to a datastore are its own: each as it was at the moment of the answer.
LEMMA JobsJoined ==
  ASSUME NEW m, NEW s, NEW j \in VerifyJobs
  PROVE  LET said == {v \in {w \in JobsAt(m) : w.job.store = s} : v.job = j}
         IN IF j.store = s
            THEN said = IF m[j] = "none" THEN {} ELSE {[job |-> j, run |-> m[j]]}
            ELSE said = {}
<1> DEFINE said == {v \in {w \in JobsAt(m) : w.job.store = s} : v.job = j}
<1>1. \A v : v \in JobsAt(m) <=> \E k \in VerifyJobs : m[k] # "none" /\ v = [job |-> k, run |-> m[k]]
  BY DEF JobsAt
<1>2. \A v : v \in said <=> v \in JobsAt(m) /\ v.job.store = s /\ v.job = j
  OBVIOUS
<1> HIDE DEF said
<1>3. \A v : v \in said => j.store = s /\ m[j] # "none" /\ v = [job |-> j, run |-> m[j]]
  <2> SUFFICES ASSUME NEW v \in said
               PROVE  j.store = s /\ m[j] # "none" /\ v = [job |-> j, run |-> m[j]]
    OBVIOUS
  <2>1. PICK k \in VerifyJobs : m[k] # "none" /\ v = [job |-> k, run |-> m[k]]
    BY <1>1, <1>2
  <2>2. k = j /\ v.job.store = s
    BY <1>2, <2>1
  <2> QED BY <1>2, <2>1, <2>2
<1>4. ASSUME j.store = s, m[j] # "none" PROVE [job |-> j, run |-> m[j]] \in said
  BY <1>1, <1>2, <1>4
<1>5. CASE j.store = s /\ m[j] # "none"
  BY <1>3, <1>4, <1>5 DEF said
<1>6. CASE ~(j.store = s /\ m[j] # "none")
  <2>1. said = {}
    BY <1>3, <1>6
  <2> QED BY <1>6, <2>1 DEF said
<1> QED BY <1>5, <1>6

\* JobsAreTheirs, of an answer and of what a call met.
Theirs(told, metGc, metJobs) ==
  LET named(s) == {i \in DOMAIN told : told[i].name = s}
      throughout(s) == \A m \in metGc : m[s] # "none"
  IN /\ \A s \in Range(Stores) : Cardinality(named(s)) <= 1 /\ (throughout(s) => named(s) # {})
     /\ \A i \in DOMAIN told :
          /\ \E m \in metGc : m[told[i].name] # "none"
          /\ \E m \in metGc : m[told[i].name] = told[i].gc
          /\ \A j \in VerifyJobs :
               LET said == {v \in told[i].verify : v.job = j}
               IN IF j.store = told[i].name
                  THEN \E m \in metJobs :
                         said = IF m[j] = "none" THEN {} ELSE {[job |-> j, run |-> m[j]]}
                  ELSE said = {}

\* Three answers of three moments, joined by the datastore's name, are the datastore's.
LEMMA JoinedAreTheirs ==
  ASSUME NEW metGc \in SUBSET GcStates, NEW metJobs,
         NEW u \in metGc, NEW g \in metGc, NEW m \in metJobs,
         NEW got, got["usage"] = StoresAt(u), got["gc"] = GcAt(g), got["verify"] = JobsAt(m)
  PROVE  Theirs(Joined(got), metGc, metJobs)
<1> DEFINE list == StoresAt(u)
           N == Len(list)
           told == Joined(got)
<1>1. /\ N \in Nat /\ DOMAIN list = 1..N
      /\ \A i \in 1..N : list[i] \in Range(Stores) /\ u[list[i]] # "none"
      /\ \A i, k \in 1..N : list[i] = list[k] => i = k
      /\ \A s \in Range(Stores) : u[s] # "none" => \E i \in 1..N : list[i] = s
  BY StoresListed
<1>2. /\ DOMAIN told = 1..N
      /\ \A i \in 1..N : /\ told[i].name = list[i]
                         /\ told[i].gc = GcOf(list, GcAt(g), i)
                         /\ told[i].verify = {w \in JobsAt(m) : w.job.store = list[i]}
  <2> HIDE DEF list, N
  <2>1. got["usage"] = list
    BY DEF list
  <2>2. told = [i \in 1..N |-> [name |-> list[i], gc |-> GcOf(list, GcAt(g), i),
                                verify |-> {w \in JobsAt(m) : w.job.store = list[i]}]]
    BY <1>1, <2>1 DEF Joined
  <2> HIDE DEF told
  <2> QED BY <2>2
<1> HIDE DEF list, N, told
<1>3. ASSUME NEW s \in Range(Stores)
      PROVE  /\ Cardinality({i \in DOMAIN told : told[i].name = s}) <= 1
             /\ (\A w \in metGc : w[s] # "none") => {i \in DOMAIN told : told[i].name = s} # {}
  <2> DEFINE named == {i \in DOMAIN told : told[i].name = s}
  <2>1. \A i, k \in named : i = k
    BY <1>1, <1>2
  <2>2. named = {} \/ \E i : named = {i}
    BY <2>1
  <2>3. Cardinality(named) <= 1
    <3> HIDE DEF named
    <3>1. CASE named = {}
      BY <3>1, FS_EmptySet
    <3>2. CASE \E i : named = {i}
      <4>1. PICK i : named = {i}
        BY <3>2
      <4>2. Cardinality(named) = 1
        BY <4>1, FS_Singleton
      <4> QED BY <4>2
    <3> QED BY <2>2, <3>1, <3>2
  <2>4. ASSUME \A w \in metGc : w[s] # "none" PROVE named # {}
    <3>1. PICK i \in 1..N : list[i] = s
      BY <1>1, <2>4
    <3>2. i \in named
      BY <1>2, <3>1
    <3> QED BY <3>2
  <2> QED BY <2>3, <2>4
<1>4. ASSUME NEW i \in DOMAIN told
      PROVE  /\ \E w \in metGc : w[told[i].name] # "none"
             /\ \E w \in metGc : w[told[i].name] = told[i].gc
             /\ \A j \in VerifyJobs :
                  LET said == {v \in told[i].verify : v.job = j}
                  IN IF j.store = told[i].name
                     THEN \E w \in metJobs :
                            said = IF w[j] = "none" THEN {} ELSE {[job |-> j, run |-> w[j]]}
                     ELSE said = {}
  <2>1. /\ told[i].name = list[i] /\ list[i] \in Range(Stores) /\ u[list[i]] # "none"
        /\ told[i].gc = GcOf(list, GcAt(g), i)
        /\ told[i].verify = {w \in JobsAt(m) : w.job.store = list[i]}
    BY <1>1, <1>2
  <2>2. told[i].gc = g[list[i]]
    BY <2>1, GcJoined
  <2>3. ASSUME NEW j \in VerifyJobs
        PROVE  LET said == {v \in told[i].verify : v.job = j}
               IN IF j.store = told[i].name
                  THEN \E w \in metJobs :
                         said = IF w[j] = "none" THEN {} ELSE {[job |-> j, run |-> w[j]]}
                  ELSE said = {}
    <3> DEFINE s == list[i]
               said == {v \in {w \in JobsAt(m) : w.job.store = s} : v.job = j}
    <3>1. IF j.store = s
          THEN said = IF m[j] = "none" THEN {} ELSE {[job |-> j, run |-> m[j]]}
          ELSE said = {}
      BY JobsJoined
    <3> QED BY <2>1, <3>1
  <2> QED BY <2>1, <2>2, <2>3
<1>5. Theirs(told, metGc, metJobs)
  BY <1>3, <1>4 DEF Theirs
<1> QED BY <1>5 DEF told

-----------------------------------------------------------------------------
(* The backup server: the steps *)

\* A report that promises nothing yet, or that a step gave what it promises.
LEMMA ReportStep ==
  ASSUME gc' \in GcStates, report' = [f \in ReportFields |-> report'[f]],
         report'.pc = "idle" => report'.got = <<>>,
         report'.pc = "reading" =>
           gc' \in report'.metGc /\ jobs' \in report'.metJobs /\ Gathered(report'),
         report'.pc = "datastores" => Theirs(report'.answer, report'.metGc, report'.metJobs),
         PbsCutsTold'
  PROVE  PbsInv'
<1>1. JobsAreTheirs'
  BY DEF JobsAreTheirs, Theirs
<1> QED BY <1>1 DEF PbsInv

\* A report whose state is none of those that promise something about their lists.
LEMMA NoCutYet == ASSUME report'.pc \notin {"snapshots", "tasks"} PROVE PbsCutsTold'
BY DEF PbsCutsTold

\* A step that leaves the call as it is.
LEMMA ReportStays ==
  ASSUME PbsInv, gc' = gc, jobs' = jobs, report' = report PROVE PbsInv'
<1>1. PbsCutsTold' /\ JobsAreTheirs'
  BY DEF PbsInv, PbsCutsTold, JobsAreTheirs
<1> QED BY <1>1 DEF PbsInv

\* The backup server changes: a call under way takes note.
LEMMA ServerChanges == ASSUME PbsInv, gc' \in GcStates, Noted PROVE PbsInv'
<1>1. CASE report.pc = "reading"
  <2>1. /\ report' = [report EXCEPT !.metGc = @ \cup {gc'}, !.metJobs = @ \cup {jobs'}]
        /\ report = [f \in ReportFields |-> report[f]]
    BY <1>1 DEF Noted, PbsInv
  <2>2. /\ report' = [f \in ReportFields |-> report'[f]] /\ report'.pc = "reading"
        /\ report'.open = report.open /\ report'.got = report.got
        /\ report'.metGc = report.metGc \cup {gc'} /\ report'.metJobs = report.metJobs \cup {jobs'}
    BY <1>1, <2>1 DEF ReportFields
  <2>3. Gathered(report)
    BY <1>1 DEF PbsInv
  <2>4. Gathered(report')
    BY <2>2, <2>3 DEF Gathered
  <2>5. PbsCutsTold'
    BY <2>2, NoCutYet
  <2> QED BY <2>2, <2>4, <2>5, ReportStep
<1>2. CASE report.pc # "reading"
  <2>1. report' = report
    BY <1>2 DEF Noted
  <2>2. PbsCutsTold' /\ JobsAreTheirs'
    BY <2>1 DEF PbsInv, PbsCutsTold, JobsAreTheirs
  <2> QED BY <1>2, <2>1, <2>2 DEF PbsInv
<1> QED BY <1>1, <1>2

\* Datastores and jobs come, run and go.
LEMMA ServerSteps ==
  ASSUME PbsInv,
         \/ \E s \in Range(Stores) : AddStore(s) \/ RemoveStore(s) \/ CollectGarbage(s)
         \/ \E j \in VerifyJobs : ChangeJob(j)
  PROVE  PbsInv'
<1>1. gc \in GcStates
  BY DEF PbsInv
<1>2. Noted
  BY DEF AddStore, RemoveStore, CollectGarbage, ChangeJob
<1>3. gc' \in GcStates
  BY <1>1 DEF AddStore, RemoveStore, CollectGarbage, ChangeJob, GcStates, Runs
<1> QED BY <1>2, <1>3, ServerChanges

\* A call asks the three things at once.
LEMMA PbsAsks == ASSUME PbsInv, AskDatastores PROVE PbsInv'
<1>1. /\ gc \in GcStates /\ gc' = gc /\ jobs' = jobs /\ report.got = <<>>
      /\ report = [f \in ReportFields |-> report[f]]
      /\ report' = [report EXCEPT !.pc = "reading", !.open = Requests,
                                  !.metGc = {gc}, !.metJobs = {jobs}]
  BY DEF AskDatastores, PbsInv
<1>2. /\ report' = [f \in ReportFields |-> report'[f]] /\ report'.pc = "reading"
      /\ report'.open = Requests /\ report'.got = <<>>
      /\ report'.metGc = {gc} /\ report'.metJobs = {jobs}
  BY <1>1 DEF ReportFields
<1>3. Gathered(report')
  <2>1. DOMAIN report'.got = Requests \ report'.open
    BY <1>2
  <2>2. "usage" \in report'.open /\ "gc" \in report'.open /\ "verify" \in report'.open
    BY <1>2 DEF Requests
  <2>3. report'.metGc \subseteq GcStates /\ report'.open \subseteq Requests
    BY <1>1, <1>2
  <2> QED BY <2>1, <2>2, <2>3 DEF Gathered
<1>4. PbsCutsTold'
  BY <1>2, NoCutYet
<1> QED BY <1>1, <1>2, <1>3, <1>4, ReportStep

\* A request is answered: the last of them makes the report.
LEMMA PbsAnswers == ASSUME PbsInv, NEW r \in Requests, AnswerRequest(r) PROVE PbsInv'
<1> DEFINE got == [q \in DOMAIN report.got \cup {r} |-> IF q = r THEN Found(r) ELSE report.got[q]]
           open == report.open \ {r}
<1>1. /\ gc \in GcStates /\ gc' = gc /\ jobs' = jobs
      /\ report = [f \in ReportFields |-> report[f]] /\ report.pc = "reading"
      /\ gc \in report.metGc /\ jobs \in report.metJobs /\ Gathered(report) /\ r \in report.open
      /\ report' = IF report.open = {r}
                   THEN [report EXCEPT !.pc = "datastores", !.open = {}, !.got = <<>>,
                                       !.answer = Joined(got)]
                   ELSE [report EXCEPT !.open = @ \ {r}, !.got = got]
  BY DEF AnswerRequest, PbsInv
<1>2. /\ Found("usage") = StoresAt(gc) /\ Found("gc") = GcAt(gc) /\ Found("verify") = JobsAt(jobs)
  BY DEF Found, There, StoresAt, GcAt, JobsAt
<1>3. /\ DOMAIN report.got = Requests \ report.open /\ report.open \subseteq Requests
      /\ report.metGc \subseteq GcStates
      /\ "usage" \notin report.open => \E m \in report.metGc : report.got["usage"] = StoresAt(m)
      /\ "gc" \notin report.open => \E m \in report.metGc : report.got["gc"] = GcAt(m)
      /\ "verify" \notin report.open => \E m \in report.metJobs : report.got["verify"] = JobsAt(m)
  BY <1>1 DEF Gathered
<1>4. /\ DOMAIN got = Requests \ open /\ got[r] = Found(r)
      /\ \A q \in Requests \ report.open : got[q] = report.got[q]
  BY <1>1, <1>3
<1> HIDE DEF got
<1>5. /\ "usage" \notin open => \E m \in report.metGc : got["usage"] = StoresAt(m)
      /\ "gc" \notin open => \E m \in report.metGc : got["gc"] = GcAt(m)
      /\ "verify" \notin open => \E m \in report.metJobs : got["verify"] = JobsAt(m)
  <2>1. ASSUME "usage" \notin open PROVE \E m \in report.metGc : got["usage"] = StoresAt(m)
    BY <1>1, <1>2, <1>3, <1>4, <2>1 DEF Requests
  <2>2. ASSUME "gc" \notin open PROVE \E m \in report.metGc : got["gc"] = GcAt(m)
    BY <1>1, <1>2, <1>3, <1>4, <2>2 DEF Requests
  <2>3. ASSUME "verify" \notin open PROVE \E m \in report.metJobs : got["verify"] = JobsAt(m)
    BY <1>1, <1>2, <1>3, <1>4, <2>3 DEF Requests
  <2> QED BY <2>1, <2>2, <2>3
<1>6. CASE report.open = {r}
  <2>1. report' = [report EXCEPT !.pc = "datastores", !.open = {}, !.got = <<>>, !.answer = Joined(got)]
    BY <1>1, <1>6
  <2>2. /\ report' = [f \in ReportFields |-> report'[f]] /\ report'.pc = "datastores"
        /\ report'.answer = Joined(got) /\ report'.metGc = report.metGc
        /\ report'.metJobs = report.metJobs
    BY <1>1, <2>1 DEF ReportFields
  <2>3. PICK u \in report.metGc : got["usage"] = StoresAt(u)
    BY <1>5, <1>6
  <2>4. PICK g \in report.metGc : got["gc"] = GcAt(g)
    BY <1>5, <1>6
  <2>5. PICK m \in report.metJobs : got["verify"] = JobsAt(m)
    BY <1>5, <1>6
  <2>6. Theirs(Joined(got), report.metGc, report.metJobs)
    BY <1>3, <2>3, <2>4, <2>5, JoinedAreTheirs
  <2>7. PbsCutsTold'
    BY <2>2, NoCutYet
  <2> QED BY <1>1, <2>2, <2>6, <2>7, ReportStep
<1>7. CASE report.open # {r}
  <2>1. report' = [report EXCEPT !.open = @ \ {r}, !.got = got]
    BY <1>1, <1>7
  <2>2. /\ report' = [f \in ReportFields |-> report'[f]] /\ report'.pc = "reading"
        /\ report'.open = open /\ report'.got = got /\ report'.metGc = report.metGc
        /\ report'.metJobs = report.metJobs
    BY <1>1, <2>1 DEF ReportFields
  <2>3. open \subseteq Requests
    BY <1>3
  <2> HIDE DEF open
  <2>4. Gathered(report')
    BY <1>3, <1>4, <1>5, <2>2, <2>3 DEF Gathered
  <2>5. PbsCutsTold'
    BY <2>2, NoCutYet
  <2> QED BY <1>1, <2>2, <2>4, <2>5, ReportStep
<1> QED BY <1>6, <1>7

\* A request fails the call, and the others run on for nobody.
LEMMA PbsFails ==
  ASSUME PbsInv, NEW r \in Requests, RequestRefused(r) \/ RunsOn(r) PROVE PbsInv'
<1>1. /\ gc \in GcStates /\ gc' = gc /\ jobs' = jobs
      /\ report = [f \in ReportFields |-> report[f]]
  BY DEF RequestRefused, RunsOn, PbsInv
<1>2. CASE RequestRefused(r)
  <2>1. report' = [report EXCEPT !.pc = "failed", !.open = @ \ {r}, !.got = <<>>]
    BY <1>2 DEF RequestRefused
  <2>2. report' = [f \in ReportFields |-> report'[f]] /\ report'.pc = "failed"
    BY <1>1, <2>1 DEF ReportFields
  <2> QED BY <1>1, <2>2, NoCutYet, ReportStep
<1>3. CASE RunsOn(r)
  <2>1. report' = [report EXCEPT !.open = @ \ {r}] /\ report.pc = "failed"
    BY <1>3 DEF RunsOn
  <2>2. report' = [f \in ReportFields |-> report'[f]] /\ report'.pc = "failed"
    BY <1>1, <2>1 DEF ReportFields
  <2> QED BY <1>1, <2>2, NoCutYet, ReportStep
<1> QED BY <1>2, <1>3

\* No more is shown than the bridge's limit.
LEMMA Capped ==
  ASSUME NEW limit \in Limits
  PROVE  /\ Cap(limit) \in Nat /\ Cap(limit) <= RowLimit /\ RowLimit \in Nat
         /\ limit # 0 => Cap(limit) # 0
<1>1. limit \in Nat /\ RowLimit \in Nat \ {0}
  BY CutsAssumption
<1>2. Cap(limit) = IF limit <= RowLimit THEN limit ELSE RowLimit
  BY <1>1, MinOfTwo DEF Cap
<1> QED BY <1>1, <1>2

VerifiedSnapshots == [group : Nat, at : Nat, verified : Verifications]

\* The states of verification divide the snapshots, so their numbers add up.
LEMMA CountsAddUp ==
  ASSUME NEW list \in Seq(VerifiedSnapshots)
  PROVE  LET with(v) == Cardinality({i \in DOMAIN list : list[i].verified = v})
         IN with("ok") + with("failed") + with("unverified") = Len(list)
<1> DEFINE all == DOMAIN list
           A == {i \in all : list[i].verified = "ok"}
           B == {i \in all : list[i].verified = "failed"}
           C == {i \in all : list[i].verified = "unverified"}
<1>1. all = 1..Len(list) /\ Len(list) \in Nat
  OBVIOUS
<1>2. IsFiniteSet(all) /\ Cardinality(all) = Len(list)
  BY <1>1, FS_Interval
<1>3. \A i \in all : list[i].verified \in Verifications
  <2>1. \A i \in 1..Len(list) : list[i] \in VerifiedSnapshots
    OBVIOUS
  <2>2. \A e \in VerifiedSnapshots : e.verified \in Verifications
    BY DEF VerifiedSnapshots
  <2> QED BY <1>1, <2>1, <2>2
<1>4. /\ all = (A \cup B) \cup C /\ A \cap B = {} /\ (A \cup B) \cap C = {}
      /\ A \in SUBSET all /\ B \in SUBSET all /\ C \in SUBSET all
  BY <1>3 DEF Verifications
<1> HIDE DEF all, A, B, C
<1>5. IsFiniteSet(A) /\ IsFiniteSet(B) /\ IsFiniteSet(C)
  BY <1>2, <1>4, FS_Subset
<1>6. Cardinality({}) = 0
  BY FS_EmptySet
<1>7. /\ IsFiniteSet(A \cup B)
      /\ Cardinality(A \cup B) = Cardinality(A) + Cardinality(B) - Cardinality(A \cap B)
  BY <1>5, FS_Union
<1>8. Cardinality((A \cup B) \cup C) = Cardinality(A \cup B) + Cardinality(C) - Cardinality((A \cup B) \cap C)
  BY <1>5, <1>7, FS_Union
<1>9. Cardinality(A) \in Nat /\ Cardinality(B) \in Nat /\ Cardinality(C) \in Nat
  BY <1>5, FS_CardinalityType
<1>10. Cardinality(A) + Cardinality(B) + Cardinality(C) = Len(list)
  <2>1. Cardinality(A \cap B) = 0 /\ Cardinality((A \cup B) \cap C) = 0
    BY <1>4, <1>6
  <2>2. Cardinality((A \cup B) \cup C) = Len(list)
    BY <1>2, <1>4
  <2> DEFINE a == Cardinality(A)
             b == Cardinality(B)
             c == Cardinality(C)
             ab == Cardinality(A \cup B)
  <2>3. ab = a + b - 0 /\ Len(list) = ab + c - 0
    BY <1>7, <1>8, <2>1, <2>2
  <2> HIDE DEF a, b, c, ab
  <2>4. a \in Nat /\ b \in Nat /\ c \in Nat
    BY <1>9 DEF a, b, c
  <2>5. a + b + c = Len(list)
    BY <2>3, <2>4
  <2> QED BY <2>5 DEF a, b, c
<1> QED BY <1>10 DEF A, B, C, all

\* What is in a list is at one of its places.
LEMMA RangeOfList ==
  ASSUME NEW X, NEW list \in Seq(X)
  PROVE  \A t : t \in Range(list) <=> \E i \in 1..Len(list) : t = list[i]
<1>1. DOMAIN list = 1..Len(list)
  OBVIOUS
<1>2. \A t : t \in Range(list) <=> \E i \in DOMAIN list : t = list[i]
  BY DEF Range
<1> QED BY <1>1, <1>2

\* A list of snapshots shows the newest, and the numbers beside it are of all of them.
LEMMA SnapshotsTold ==
  ASSUME NEW listed \in Seq(VerifiedSnapshots), NEW limit \in Nat,
         NEW a, a = SnapshotsAnswer(listed, limit)
  PROVE  /\ Len(a.shown) = Min({limit, a.count})
         /\ a.truncated <=> Len(a.shown) < Len(listed)
         /\ a.counts["ok"] + a.counts["failed"] + a.counts["unverified"] = a.count
         /\ \A e \in Range(listed) \ Range(a.shown), f \in Range(a.shown) : e.at <= f.at
<1>1. /\ a.count = Len(listed) /\ a.truncated = Truncated(listed, limit)
      /\ a.shown = Cut(NewestFirst(listed), limit)
      /\ \A v \in Verifications : a.counts[v] = Cardinality({i \in DOMAIN listed : listed[i].verified = v})
  BY DEF SnapshotsAnswer
<1>2. \A x \in VerifiedSnapshots : x.at \in Nat
  BY DEF VerifiedSnapshots
<1> DEFINE shown == a.shown
<1> HIDE DEF shown
<1>3. shown = Cut(NewestFirst(listed), limit)
  BY <1>1 DEF shown
<1>4. /\ shown \in Seq(VerifiedSnapshots) /\ Len(shown) = Min({limit, Len(listed)})
      /\ Truncated(listed, limit) <=> Len(shown) < Len(listed)
      /\ \A i \in 1..Len(listed) : listed[i] \in Range(shown) \/
           \A n \in 1..Len(shown) : listed[i].at <= shown[n].at
  BY <1>2, <1>3, NewestShown
<1>5. a.counts["ok"] + a.counts["failed"] + a.counts["unverified"] = a.count
  BY <1>1, CountsAddUp DEF Verifications
<1>6. ASSUME NEW e \in Range(listed) \ Range(shown), NEW f \in Range(shown)
      PROVE  e.at <= f.at
  <2>1. PICK i \in 1..Len(listed) : e = listed[i]
    BY RangeOfList
  <2>2. PICK n \in 1..Len(shown) : f = shown[n]
    BY <1>4, RangeOfList
  <2> QED BY <1>4, <2>1, <2>2
<1> QED BY <1>1, <1>4, <1>5, <1>6 DEF shown

\* A list of snapshots is asked for.
LEMMA PbsSnapshots == ASSUME PbsInv, NEW limit \in Limits, ListSnapshots(limit) PROVE PbsInv'
<1>1. /\ gc \in GcStates /\ gc' = gc /\ jobs' = jobs
      /\ report = [f \in ReportFields |-> report[f]]
  BY DEF ListSnapshots, PbsInv
<1>2. CASE limit = 0
  <2>1. report' = [report EXCEPT !.pc = "refused"]
    BY <1>2 DEF ListSnapshots, Refuse
  <2>2. report' = [f \in ReportFields |-> report'[f]] /\ report'.pc = "refused"
    BY <1>1, <2>1 DEF ReportFields
  <2> QED BY <1>1, <2>2, NoCutYet, ReportStep
<1>3. CASE limit # 0
  <2>1. \E held \in SUBSET Range(Snapshots) : \E verified \in [held -> Verifications] :
          LET there == Kept(Snapshots, held)
              listed == [i \in DOMAIN there |-> [group |-> there[i].group, at |-> there[i].at,
                                                 verified |-> verified[there[i]]]]
          IN report' = [report EXCEPT !.pc = "snapshots", !.limit = Cap(limit), !.got = listed,
                                      !.answer = SnapshotsAnswer(listed, Cap(limit))]
    BY <1>3 DEF ListSnapshots
  <2>a. PICK held \in SUBSET Range(Snapshots) : \E verified \in [held -> Verifications] :
          LET there == Kept(Snapshots, held)
              listed == [i \in DOMAIN there |-> [group |-> there[i].group, at |-> there[i].at,
                                                 verified |-> verified[there[i]]]]
          IN report' = [report EXCEPT !.pc = "snapshots", !.limit = Cap(limit), !.got = listed,
                                      !.answer = SnapshotsAnswer(listed, Cap(limit))]
    BY <2>1
  <2>2. PICK verified \in [held -> Verifications] :
          LET there == Kept(Snapshots, held)
              listed == [i \in DOMAIN there |-> [group |-> there[i].group, at |-> there[i].at,
                                                 verified |-> verified[there[i]]]]
          IN report' = [report EXCEPT !.pc = "snapshots", !.limit = Cap(limit), !.got = listed,
                                      !.answer = SnapshotsAnswer(listed, Cap(limit))]
    BY <2>a
  <2> DEFINE there == Kept(Snapshots, held)
             listed == [i \in DOMAIN there |-> [group |-> there[i].group, at |-> there[i].at,
                                                verified |-> verified[there[i]]]]
             S == [group : Nat, at : Nat]
  <2>3. there \in Seq(S \cap held) /\ Len(there) \in Nat
    <3>1. Snapshots \in Seq(S)
      BY PbsAssumption
    <3> HIDE DEF S
    <3> QED BY <3>1, KeptLists
  <2> HIDE DEF there
  <2>4. listed \in Seq(VerifiedSnapshots)
    <3>1. DOMAIN there = 1..Len(there) /\ \A i \in 1..Len(there) : there[i] \in S \cap held
      <4> HIDE DEF S
      <4> QED BY <2>3
    <3>2. \A i \in 1..Len(there) : listed[i] \in VerifiedSnapshots
      BY <3>1 DEF VerifiedSnapshots
    <3>3. listed = [i \in 1..Len(there) |-> listed[i]]
      BY <3>1
    <3> HIDE DEF listed
    <3> QED BY <2>3, <3>2, <3>3
  <2>5. report' = [report EXCEPT !.pc = "snapshots", !.limit = Cap(limit), !.got = listed,
                                 !.answer = SnapshotsAnswer(listed, Cap(limit))]
    BY <2>2 DEF there
  <2> HIDE DEF listed
  <2>6. /\ report' = [f \in ReportFields |-> report'[f]] /\ report'.pc = "snapshots"
        /\ report'.limit = Cap(limit) /\ report'.got = listed
        /\ report'.answer = SnapshotsAnswer(listed, Cap(limit))
    BY <1>1, <2>5 DEF ReportFields
  <2>7. PbsCutsTold'
    <3> DEFINE a == report'.answer
    <3> HIDE DEF a
    <3>1. a = SnapshotsAnswer(listed, Cap(limit)) /\ Cap(limit) \in Nat
      BY <2>6, Capped DEF a
    <3>2. /\ Len(a.shown) = Min({Cap(limit), a.count})
          /\ a.truncated <=> Len(a.shown) < Len(listed)
          /\ a.counts["ok"] + a.counts["failed"] + a.counts["unverified"] = a.count
          /\ \A e \in Range(listed) \ Range(a.shown), f \in Range(a.shown) : e.at <= f.at
      BY <2>4, <3>1, SnapshotsTold, Zenon
    <3> QED BY <2>6, <3>2 DEF PbsCutsTold, a
  <2> QED BY <1>1, <2>6, <2>7, ReportStep
<1> QED BY <1>2, <1>3

Since(log, since) == {t \in log : t >= since}

\* The log is asked for one task more than is shown, so that a cut list says so.
LEMMA TasksTold ==
  ASSUME NEW log \in SUBSET TaskTimes, NEW since \in Nat, NEW limit \in Nat,
         NEW wanted, wanted = Since(log, since),
         NEW sent, sent = Cut(Descending(wanted), Wanted(limit)),
         NEW shown, shown = Cut(sent, limit)
  PROVE  /\ Truncated(sent, limit) <=> wanted \ Range(shown) # {}
         /\ \A t \in wanted \ Range(shown), u \in Range(shown) : t < u
         /\ Len(shown) \in Nat /\ Len(shown) <= limit
<1> DEFINE all == Descending(wanted)
           N == Cardinality(wanted)
<1>1. wanted \in SUBSET Nat /\ IsFiniteSet(wanted)
  <2>1. TaskTimes \subseteq Nat /\ IsFiniteSet(TaskTimes) /\ wanted \in SUBSET TaskTimes
    BY PbsAssumption DEF Since
  <2> QED BY <2>1, FS_Subset
<1>2. /\ N \in Nat /\ all \in [1..N -> wanted]
      /\ \A p \in wanted : \E n \in 1..N : all[n] = p
      /\ \A m, n \in 1..N : m < n => all[m] > all[n]
  BY <1>1, DescendingLists
<1>3. sent = Cut(all, limit + 1)
  BY DEF Wanted
<1> HIDE DEF all, N
<1>4. all \in Seq(wanted) /\ Len(all) = N
  BY <1>2
<1>5. /\ sent \in Seq(wanted) /\ Len(sent) = IF limit + 1 <= N THEN limit + 1 ELSE N
      /\ \A i \in 1..Len(sent) : sent[i] = all[i]
  <2>1. limit + 1 \in Nat
    OBVIOUS
  <2>2. /\ sent \in Seq(wanted)
        /\ Len(sent) = IF limit + 1 <= Len(all) THEN limit + 1 ELSE Len(all)
    BY <1>3, <1>4, <2>1, CutLists
  <2>3. \A i \in 1..Len(Cut(all, limit + 1)) : Cut(all, limit + 1)[i] = all[i]
    BY <1>4, <2>1, CutLists, Zenon
  <2> QED BY <1>3, <1>4, <2>2, <2>3
<1>6. /\ shown \in Seq(wanted) /\ Len(shown) = IF limit <= Len(sent) THEN limit ELSE Len(sent)
      /\ \A i \in 1..Len(shown) : shown[i] = sent[i]
  <2>0. sent \in Seq(wanted)
    BY <1>5
  <2>1. \A i \in 1..Len(shown) : shown[i] = sent[i]
    BY <2>0, CutPlaces
  <2>2. /\ shown \in Seq(wanted)
        /\ Len(shown) = IF limit <= Len(sent) THEN limit ELSE Len(sent)
    BY <1>5, CutLists
  <2> QED BY <2>1, <2>2
<1>7. /\ Len(shown) \in Nat /\ Len(shown) <= limit /\ Len(shown) <= N
      /\ Len(sent) > limit <=> limit < N
      /\ limit < N => Len(shown) = limit
      /\ limit >= N => Len(shown) = N
      /\ Len(shown) <= Len(sent) /\ Len(sent) \in Nat
  BY <1>2, <1>5, <1>6
<1>8. \A i \in 1..Len(shown) : shown[i] = all[i] /\ i \in 1..N
  <2>1. \A i \in 1..Len(shown) : i \in 1..Len(sent) /\ i \in 1..N
    BY <1>2, <1>7
  <2> QED BY <1>5, <1>6, <2>1
<1>9. \A t : t \in Range(shown) <=> \E i \in 1..Len(shown) : t = shown[i]
  BY <1>6, RangeOfList
<1>10. ASSUME NEW t \in wanted, t \notin Range(shown)
       PROVE  \E n \in 1..N : all[n] = t /\ Len(shown) < n
  <2>1. PICK n \in 1..N : all[n] = t
    BY <1>2
  <2>2. n \notin 1..Len(shown)
    BY <1>8, <1>9, <1>10, <2>1
  <2>3. Len(shown) < n
    BY <1>2, <1>7, <2>2
  <2> QED BY <2>1, <2>3
<1>11. ASSUME NEW t \in wanted \ Range(shown), NEW u \in Range(shown) PROVE t < u
  <2>1. PICK n \in 1..N : all[n] = t /\ Len(shown) < n
    BY <1>10
  <2>2. PICK i \in 1..Len(shown) : u = all[i] /\ i \in 1..N
    BY <1>8, <1>9
  <2>3. i < n
    BY <1>7, <2>1, <2>2
  <2>4. all[i] > all[n] /\ all[i] \in Nat /\ all[n] \in Nat
    BY <1>1, <1>2, <2>1, <2>2, <2>3
  <2> QED BY <2>1, <2>2, <2>4
<1>12. Truncated(sent, limit) <=> limit < N
  BY <1>7 DEF Truncated
<1>13. ASSUME limit < N PROVE wanted \ Range(shown) # {}
  <2>1. limit + 1 \in 1..N
    BY <1>2, <1>13
  <2>2. all[limit + 1] \in wanted
    BY <1>2, <2>1
  <2>3. ASSUME all[limit + 1] \in Range(shown) PROVE FALSE
    <3>1. PICK i \in 1..Len(shown) : all[limit + 1] = all[i] /\ i \in 1..N
      BY <1>8, <1>9, <2>3
    <3>2. i < limit + 1
      BY <1>7, <1>13, <3>1
    <3>3. all[i] > all[limit + 1] /\ all[i] \in Nat
      BY <1>1, <1>2, <2>1, <3>1, <3>2
    <3> QED BY <3>1, <3>3
  <2> QED BY <2>2, <2>3
<1>14. ASSUME ~(limit < N) PROVE wanted \ Range(shown) = {}
  <2> SUFFICES ASSUME NEW t \in wanted, t \notin Range(shown) PROVE FALSE
    OBVIOUS
  <2>1. PICK n \in 1..N : Len(shown) < n
    BY <1>10
  <2> QED BY <1>2, <1>7, <1>14, <2>1
<1> QED BY <1>7, <1>11, <1>12, <1>13, <1>14

\* The log of tasks is asked for.
LEMMA PbsTasks ==
  ASSUME PbsInv, NEW since \in DaysAgo, NEW limit \in Limits, ListTasks(since, limit) PROVE PbsInv'
<1>1. /\ gc \in GcStates /\ gc' = gc /\ jobs' = jobs
      /\ report = [f \in ReportFields |-> report[f]]
  BY DEF ListTasks, PbsInv
<1>2. CASE since = 0 \/ limit = 0
  <2>1. report' = [report EXCEPT !.pc = "refused"]
    BY <1>2 DEF ListTasks, Refuse
  <2>2. report' = [f \in ReportFields |-> report'[f]] /\ report'.pc = "refused"
    BY <1>1, <2>1 DEF ReportFields
  <2> QED BY <1>1, <2>2, NoCutYet, ReportStep
<1>3. CASE ~(since = 0 \/ limit = 0)
  <2>1. PICK log \in SUBSET TaskTimes :
          LET entries == Descending({t \in log : t >= since})
              sent == Cut(entries, Wanted(Cap(limit)))
          IN report' = [report EXCEPT
               !.pc = "tasks", !.limit = Cap(limit), !.since = since, !.got = log,
               !.answer = [truncated |-> Truncated(sent, Cap(limit)),
                           shown |-> Cut(sent, Cap(limit))]]
    BY <1>3 DEF ListTasks
  <2> DEFINE wanted == {t \in log : t >= since}
             sent == Cut(Descending(wanted), Wanted(Cap(limit)))
             shown == Cut(sent, Cap(limit))
             told == [truncated |-> Truncated(sent, Cap(limit)), shown |-> shown]
  <2>2. report' = [report EXCEPT !.pc = "tasks", !.limit = Cap(limit), !.since = since,
                                 !.got = log, !.answer = told]
    BY <2>1
  <2>3. told.truncated = Truncated(sent, Cap(limit)) /\ told.shown = shown
    OBVIOUS
  <2> HIDE DEF wanted, sent, shown, told
  <2>4. /\ report' = [f \in ReportFields |-> report'[f]] /\ report'.pc = "tasks"
        /\ report'.since = since /\ report'.got = log /\ report'.answer = told
    BY <1>1, <2>2 DEF ReportFields
  <2>5. /\ Truncated(sent, Cap(limit)) <=> wanted \ Range(shown) # {}
        /\ \A t \in wanted \ Range(shown), u \in Range(shown) : t < u
        /\ Len(shown) \in Nat /\ Len(shown) <= Cap(limit)
    <3>1. since \in Nat /\ Cap(limit) \in Nat
      BY PbsAssumption, Capped
    <3>2. /\ wanted = Since(log, since)
          /\ sent = Cut(Descending(wanted), Wanted(Cap(limit)))
          /\ shown = Cut(sent, Cap(limit))
      BY DEF wanted, sent, shown, Since
    <3> QED BY <3>1, <3>2, TasksTold, Zenon
  <2>6. Len(shown) <= RowLimit
    BY <2>5, Capped
  <2>7. {t \in report'.got : t >= report'.since} = wanted
    BY <2>4 DEF wanted
  <2>8. PbsCutsTold'
    BY <2>3, <2>4, <2>5, <2>6, <2>7 DEF PbsCutsTold
  <2> QED BY <1>1, <2>4, <2>8, ReportStep
<1> QED BY <1>2, <1>3

-----------------------------------------------------------------------------
(* The backup server: the theorems *)

\* The invariant holds at the start.
LEMMA PbsStart == ASSUME PbsInit PROVE PbsInv
<1>1. gc \in GcStates
  BY DEF PbsInit, GcStates, Runs
<1>2. report = NoReport
  BY DEF PbsInit
<1>3. report = [f \in ReportFields |-> report[f]] /\ report.pc = "idle" /\ report.got = <<>>
  BY <1>2 DEF NoReport, ReportFields
<1>4. JobsAreTheirs /\ PbsCutsTold
  BY <1>3 DEF JobsAreTheirs, PbsCutsTold
<1> QED BY <1>1, <1>3, <1>4 DEF PbsInv

\* Every step keeps it, and so does none.
LEMMA PbsSteps == ASSUME PbsInv, [PbsNext]_pbsVars PROVE PbsInv'
<1>1. ASSUME PbsNext PROVE PbsInv'
  BY <1>1, ServerSteps, PbsAsks, PbsAnswers, PbsFails, PbsSnapshots, PbsTasks DEF PbsNext
<1>2. ASSUME UNCHANGED pbsVars PROVE PbsInv'
  BY <1>2, ReportStays DEF pbsVars
<1> QED BY <1>1, <1>2

\* The invariant of the backup server's tools holds in every state.
THEOREM PbsHolds == PbsSpec => []PbsInv
<1>1. PbsInit => PbsInv
  BY PbsStart
<1>2. PbsInv /\ [PbsNext]_pbsVars => PbsInv'
  BY PbsSteps
<1> QED BY <1>1, <1>2, PTL DEF PbsSpec

\* What a report says of a datastore was true of that datastore.
THEOREM ReportsAreTheirs == PbsSpec => []JobsAreTheirs
<1>1. PbsInv => JobsAreTheirs
  BY DEF PbsInv
<1> QED BY <1>1, PbsHolds, PTL

\* The lists of snapshots and of tasks show the newest and say when they are cut.
THEOREM PbsListsAreTold == PbsSpec => []PbsCutsTold
<1>1. PbsInv => PbsCutsTold
  BY DEF PbsInv
<1> QED BY <1>1, PbsHolds, PTL

-----------------------------------------------------------------------------
(* The object store: the inductive invariant *)

FoundObjects == [key : KeyIds, at : Nat \ {Never}]
Versions == [place : Places, at : Nat \ {Never}]
Told == {<<b, Summary(f)>> : b \in Range(Buckets), f \in Seq(FoundObjects)}
ListingFields == {"pc", "left", "bucket", "prefix", "limit", "found", "answer", "met", "lost"}

LastKey(found) == IF found = <<>> THEN 0 ELSE Last(found).key

\* What is listed of a bucket up to a key: in the order of the keys, only what stood at
\* some time of the call, and all that stood all through.
ReadTo(found, b, prefix, met, lost, last) ==
  /\ \A i, j \in 1..Len(found) : i < j => found[i].key < found[j].key
  /\ \A i \in 1..Len(found) :
       /\ found[i].key <= last /\ IsPrefix(prefix, Keys[found[i].key])
       /\ [place |-> <<b, found[i].key>>, at |-> found[i].at] \in met
  /\ \A k \in KeyIds : k <= last /\ IsPrefix(prefix, Keys[k]) /\ <<b, k>> \notin lost =>
       \E i \in 1..Len(found) : found[i].key = k

\* The call has taken note of what stands and of what does not.
Noticed(o, met, lost) ==
  /\ met \in SUBSET Versions /\ IsFiniteSet(met)
  /\ \A p \in Places : IF o[p] = Never THEN p \in lost ELSE [place |-> p, at |-> o[p]] \in met

\* What is told of the buckets so far is of whole listings.
BucketsTold(answer, met, lost) ==
  /\ answer \in Seq(Told)
  /\ \A i \in 1..Len(answer) : \E b \in Range(Buckets), f \in Seq(FoundObjects) :
       answer[i] = <<b, Summary(f)>> /\ ReadTo(f, b, <<>>, met, lost, Len(Keys))

\* No bucket in which something stood all through is passed over.
NoneLeftOut(answer, lost, rest) ==
  \A p \in Places \ lost : p[1] \in rest \/ \E i \in 1..Len(answer) : answer[i][1] = p[1]

UnderWay(pc) == pc \in {"names", "objects", "buckets", "done"}

\* A listing under way, a list of buckets under way, the two when they are done.
Listing(call) ==
  /\ call.found \in Seq(FoundObjects) /\ call.bucket \in Range(Buckets)
  /\ ReadTo(call.found, call.bucket, call.prefix, call.met, call.lost, LastKey(call.found))

ListingBuckets(call) ==
  /\ call.left \in Seq(Range(Buckets))
  /\ BucketsTold(call.answer, call.met, call.lost)
  /\ NoneLeftOut(call.answer, call.lost, Range(call.left) \cup {call.bucket})

BucketsDone(call) ==
  /\ call.prefix = <<>> /\ call.limit = 0
  /\ BucketsTold(call.answer, call.met, call.lost)
  /\ NoneLeftOut(call.answer, call.lost, {})

ObjectsDone(call) ==
  /\ call.limit \in Nat \ {0} /\ call.prefix \in Seq(STRING)
  /\ call.found \in Seq(FoundObjects) /\ call.bucket \in Range(Buckets)
  /\ ReadTo(call.found, call.bucket, call.prefix, call.met, call.lost, Len(Keys))
  /\ call.answer = ObjectsAnswer(call, call.found)

CallTells(call, o) ==
  /\ call = [f \in ListingFields |-> call[f]]
  /\ UnderWay(call.pc) => Noticed(o, call.met, call.lost)
  /\ call.pc \in {"idle", "names", "buckets"} => call.prefix = <<>> /\ call.limit = 0
  /\ call.pc \in {"idle", "names"} => call.found = <<>> /\ call.answer = <<>>
  /\ call.pc \in {"objects", "buckets"} => Listing(call)
  /\ call.pc = "objects" => call.limit \in Nat \ {0} /\ call.prefix \in Seq(STRING)
  /\ call.pc = "buckets" => ListingBuckets(call)
  /\ call.pc = "done" => BucketsDone(call) \/ ObjectsDone(call)

\* There is an object only where there is a bucket.
StoreHolds(b, o, w) ==
  /\ b \in SUBSET Range(Buckets) /\ o \in [Places -> Nat] /\ w \in Nat
  /\ \A p \in Places : o[p] # Never => p[1] \in b

S3Inv == StoreHolds(buckets, objects, writes) /\ CallTells(listing, objects)

-----------------------------------------------------------------------------
(* The object store: the store changes *)

\* What a function on a finite set covers is finite and no larger.
LEMMA Covered ==
  ASSUME NEW S, NEW T, IsFiniteSet(S), NEW f \in [S -> T], \A t \in T : \E s \in S : f[s] = t
  PROVE  IsFiniteSet(T) /\ Cardinality(T) <= Cardinality(S)
<1>1. f \in Surjection(S, T)
  BY DEF Surjection
<1> QED BY <1>1, FS_Surjection

\* There are finitely many places.
LEMMA PlacesFinite ==
  /\ IsFiniteSet(Places) /\ IsFiniteSet(KeyIds) /\ KeyIds = 1..Len(Keys) /\ Len(Keys) \in Nat
  /\ Places = Range(Buckets) \X KeyIds
<1>1. Buckets \in Seq(STRING) /\ Keys \in Seq(Seq(STRING))
  BY S3Assumption
<1>2. KeyIds = 1..Len(Keys) /\ Len(Keys) \in Nat
  BY <1>1 DEF KeyIds
<1>3. IsFiniteSet(KeyIds)
  BY <1>2, FS_Interval
<1>4. DOMAIN Buckets = 1..Len(Buckets) /\ Len(Buckets) \in Nat
  BY <1>1
<1>5. IsFiniteSet(DOMAIN Buckets)
  BY <1>4, FS_Interval
<1>6. /\ Buckets \in [DOMAIN Buckets -> Range(Buckets)]
      /\ \A b \in Range(Buckets) : \E i \in DOMAIN Buckets : Buckets[i] = b
  <2>1. Buckets = [i \in DOMAIN Buckets |-> Buckets[i]]
    BY <1>1, <1>4
  <2>2. \A i \in DOMAIN Buckets : Buckets[i] \in Range(Buckets)
    BY DEF Range
  <2>3. \A b \in Range(Buckets) : \E i \in DOMAIN Buckets : Buckets[i] = b
    BY DEF Range
  <2> QED BY <2>1, <2>2, <2>3
<1>7. IsFiniteSet(Range(Buckets))
  BY <1>5, <1>6, Covered
<1> QED BY <1>2, <1>3, <1>7, FS_Product DEF Places

\* The moment of a write is one.
LEMMA WritesAreLater ==
  ASSUME NEW p \in Places, NEW w \in Nat
  PROVE  Max(Range(Age)) + w + 1 \in Nat \ {Never}
<1>1. Age \in [KeyIds -> Nat \ {Never}]
  BY S3Assumption
<1>2. KeyIds # {} /\ IsFiniteSet(KeyIds)
  BY PlacesFinite DEF Places
<1>3. /\ Age \in [KeyIds -> Range(Age)] /\ Range(Age) \in SUBSET Nat /\ Range(Age) # {}
      /\ \A t \in Range(Age) : \E k \in KeyIds : Age[k] = t
  BY <1>1, <1>2 DEF Range
<1>4. IsFiniteSet(Range(Age))
  BY <1>2, <1>3, Covered
<1>5. Max(Range(Age)) \in Nat
  BY <1>3, <1>4, MinAndMax
<1> QED BY <1>5 DEF Never

\* What a listing tells stays true however the store moves on.
LEMMA ToldForGood ==
  ASSUME NEW call, NEW o, CallTells(call, o), NEW met, NEW lost, NEW o2, NEW call2,
         call2 = [call EXCEPT !.met = met, !.lost = lost],
         call.met \subseteq met, call.lost \subseteq lost,
         UnderWay(call.pc) => Noticed(o2, met, lost)
  PROVE  CallTells(call2, o2)
<1>1. call = [f \in ListingFields |-> call[f]]
  BY DEF CallTells
<1>2. /\ call2 = [f \in ListingFields |-> call2[f]]
      /\ call2.pc = call.pc /\ call2.left = call.left /\ call2.bucket = call.bucket
      /\ call2.prefix = call.prefix /\ call2.limit = call.limit /\ call2.found = call.found
      /\ call2.answer = call.answer /\ call2.met = met /\ call2.lost = lost
  BY <1>1 DEF ListingFields
<1>3. ASSUME NEW found, NEW b, NEW prefix, NEW last,
             ReadTo(found, b, prefix, call.met, call.lost, last)
      PROVE  ReadTo(found, b, prefix, met, lost, last)
  <2>1. /\ \A i, j \in 1..Len(found) : i < j => found[i].key < found[j].key
        /\ \A i \in 1..Len(found) :
             /\ found[i].key <= last /\ IsPrefix(prefix, Keys[found[i].key])
             /\ [place |-> <<b, found[i].key>>, at |-> found[i].at] \in met
    BY <1>3 DEF ReadTo
  <2>2. \A k \in KeyIds : k <= last /\ IsPrefix(prefix, Keys[k]) /\ <<b, k>> \notin lost =>
          \E i \in 1..Len(found) : found[i].key = k
    BY <1>3 DEF ReadTo
  <2> QED BY <2>1, <2>2 DEF ReadTo
<1>4. ASSUME NEW answer, BucketsTold(answer, call.met, call.lost)
      PROVE  BucketsTold(answer, met, lost)
  BY <1>3, <1>4 DEF BucketsTold
<1>5. ASSUME NEW answer, NEW rest, NoneLeftOut(answer, call.lost, rest)
      PROVE  NoneLeftOut(answer, lost, rest)
  BY <1>5 DEF NoneLeftOut
<1>6. Listing(call) => Listing(call2)
  BY <1>2, <1>3 DEF Listing
<1>7. ListingBuckets(call) => ListingBuckets(call2)
  BY <1>2, <1>4, <1>5 DEF ListingBuckets
<1>8. BucketsDone(call) => BucketsDone(call2)
  BY <1>2, <1>4, <1>5 DEF BucketsDone
<1>9. ObjectsDone(call) => ObjectsDone(call2)
  <2>1. ObjectsAnswer(call2, call.found) = ObjectsAnswer(call, call.found)
    BY <1>2 DEF ObjectsAnswer
  <2> QED BY <1>2, <1>3, <2>1 DEF ObjectsDone
<1> QED BY <1>2, <1>6, <1>7, <1>8, <1>9 DEF CallTells

\* An object is written.
LEMMA S3Puts == ASSUME S3Inv, NEW p \in Places, Put(p) PROVE S3Inv'
<1> DEFINE now_ == Max(Range(Age)) + writes + 1
           met == listing.met \cup {[place |-> p, at |-> now_]}
<1>1. /\ StoreHolds(buckets, objects, writes) /\ CallTells(listing, objects)
      /\ writes' = writes + 1 /\ p[1] \in buckets /\ buckets' = buckets
      /\ objects' = [objects EXCEPT ![p] = now_]
      /\ listing' = [listing EXCEPT !.met = met]
  BY DEF S3Inv, Put, Write
<1>2. now_ \in Nat \ {Never}
  BY <1>1, WritesAreLater DEF StoreHolds
<1> HIDE DEF now_
<1>3. /\ objects' \in [Places -> Nat] /\ objects'[p] = now_
      /\ \A q \in Places : q # p => objects'[q] = objects[q]
  BY <1>1, <1>2 DEF StoreHolds
<1>4. StoreHolds(buckets', objects', writes')
  BY <1>1, <1>3 DEF StoreHolds
<1>5. listing' = [listing EXCEPT !.met = met, !.lost = listing.lost]
  <2>1. listing = [f \in ListingFields |-> listing[f]]
    BY <1>1 DEF CallTells
  <2> QED BY <1>1, <2>1 DEF ListingFields
<1>6. ASSUME UnderWay(listing.pc) PROVE Noticed(objects', met, listing.lost)
  <2>1. Noticed(objects, listing.met, listing.lost)
    BY <1>1, <1>6 DEF CallTells
  <2>2. [place |-> p, at |-> now_] \in Versions
    BY <1>2 DEF Versions
  <2>3. IsFiniteSet(met)
    BY <2>1, FS_AddElement DEF Noticed
  <2>4. met \in SUBSET Versions
    BY <2>1, <2>2 DEF Noticed
  <2>5. ASSUME NEW q \in Places
        PROVE  IF objects'[q] = Never THEN q \in listing.lost ELSE [place |-> q, at |-> objects'[q]] \in met
    <3>1. CASE q = p
      BY <1>2, <1>3, <3>1
    <3>2. CASE q # p
      BY <1>3, <2>1, <3>2 DEF Noticed
    <3> QED BY <3>1, <3>2
  <2> HIDE DEF met
  <2> QED BY <2>3, <2>4, <2>5 DEF Noticed
<1>7. listing.met \subseteq met
  OBVIOUS
<1> HIDE DEF met
<1>8. CallTells(listing', objects')
  BY <1>1, <1>5, <1>6, <1>7, ToldForGood
<1> QED BY <1>4, <1>8 DEF S3Inv

\* An object is deleted.
LEMMA S3Deletes == ASSUME S3Inv, NEW p \in Places, Delete(p) PROVE S3Inv'
<1> DEFINE lost == listing.lost \cup {p}
<1>1. /\ StoreHolds(buckets, objects, writes) /\ CallTells(listing, objects)
      /\ writes' = writes + 1 /\ buckets' = buckets
      /\ objects' = [objects EXCEPT ![p] = Never]
      /\ listing' = [listing EXCEPT !.lost = lost]
  BY DEF S3Inv, Delete, Write
<1>2. /\ objects' \in [Places -> Nat] /\ objects'[p] = Never
      /\ \A q \in Places : q # p => objects'[q] = objects[q]
  BY <1>1 DEF StoreHolds, Never
<1>3. StoreHolds(buckets', objects', writes')
  BY <1>1, <1>2 DEF StoreHolds
<1>4. listing' = [listing EXCEPT !.met = listing.met, !.lost = lost]
  <2>1. listing = [f \in ListingFields |-> listing[f]]
    BY <1>1 DEF CallTells
  <2> QED BY <1>1, <2>1 DEF ListingFields
<1>5. ASSUME UnderWay(listing.pc) PROVE Noticed(objects', listing.met, lost)
  <2>1. Noticed(objects, listing.met, listing.lost)
    BY <1>1, <1>5 DEF CallTells
  <2> QED BY <1>2, <2>1 DEF Noticed
<1>6. listing.lost \subseteq lost
  OBVIOUS
<1> HIDE DEF lost
<1>7. CallTells(listing', objects')
  BY <1>1, <1>4, <1>5, <1>6, ToldForGood
<1> QED BY <1>3, <1>7 DEF S3Inv

\* A bucket is deleted: nothing is in it.
LEMMA S3DeletesBucket == ASSUME S3Inv, NEW b \in Range(Buckets), DeleteBucket(b) PROVE S3Inv'
<1>1. /\ StoreHolds(buckets, objects, writes) /\ CallTells(listing, objects)
      /\ writes' = writes + 1 /\ buckets' = buckets \ {b}
      /\ objects' = objects /\ listing' = listing
      /\ \A p \in Places : p[1] = b => objects[p] = Never
  BY DEF S3Inv, DeleteBucket, Write
<1>2. StoreHolds(buckets', objects', writes')
  BY <1>1 DEF StoreHolds
<1> QED BY <1>1, <1>2 DEF S3Inv

-----------------------------------------------------------------------------
(* The object store: a page *)

\* A page is the first of the keys beyond, in their order; it is all of them when they fit.
LEMMA PageTaken ==
  ASSUME NEW ids \in SUBSET KeyIds, \A k \in ids : objects[<<listing.bucket, k>>] \in Nat \ {Never},
         NEW page, page = PageOf(ids)
  PROVE  /\ page \in Seq(FoundObjects) /\ Len(page) \in Nat
         /\ \A i \in 1..Len(page) :
              page[i].key \in ids /\ page[i].at = objects[<<listing.bucket, page[i].key>>]
         /\ \A i, j \in 1..Len(page) : i < j => page[i].key < page[j].key
         /\ \A k \in ids, i \in 1..Len(page) :
              k <= page[i].key => \E j \in 1..Len(page) : page[j].key = k
         /\ Cardinality(ids) <= PageSize => \A k \in ids : \E j \in 1..Len(page) : page[j].key = k
<1> DEFINE upTo(k) == {j \in ids : j <= k}
           first == {k \in ids : Cardinality({j \in ids : j <= k}) <= PageSize}
           keys == Ascending(first)
           N == Cardinality(first)
<1>1. /\ ids \in SUBSET Nat /\ IsFiniteSet(ids) /\ PageSize \in Nat
      /\ Cardinality(ids) \in Nat
  <2>0. KeyIds = 1..Len(Keys) /\ IsFiniteSet(KeyIds) /\ Len(Keys) \in Nat
    BY PlacesFinite
  <2>1. IsFiniteSet(ids) /\ ids \in SUBSET Nat
    <3>1. IsFiniteSet(ids)
      BY <2>0, FS_Subset
    <3>2. ids \in SUBSET Nat
      BY <2>0
    <3> QED BY <3>1, <3>2
  <2> QED BY <2>1, FS_CardinalityType, S3Assumption
<1>2. \A k \in ids : k \in first <=> Cardinality(upTo(k)) <= PageSize
  OBVIOUS
<1>3. \A k \in ids : /\ upTo(k) \in SUBSET ids /\ IsFiniteSet(upTo(k)) /\ Cardinality(upTo(k)) \in Nat
                     /\ Cardinality(upTo(k)) <= Cardinality(ids)
  <2> TAKE k \in ids
  <2>1. upTo(k) \in SUBSET ids
    OBVIOUS
  <2> HIDE DEF upTo
  <2> QED BY <1>1, <2>1, FS_Subset, FS_CardinalityType
<1>4. ASSUME NEW k \in ids, NEW l \in first, k <= l PROVE k \in first
  <2>1. l \in ids /\ Cardinality(upTo(l)) <= PageSize
    BY <1>2
  <2>2. upTo(k) \in SUBSET upTo(l)
    <3> SUFFICES ASSUME NEW j \in ids, j <= k PROVE j <= l
      OBVIOUS
    <3>1. j \in Nat /\ k \in Nat /\ l \in Nat /\ k <= l
      BY <1>1, <1>4, <2>1
    <3> QED BY <3>1
  <2> HIDE DEF upTo, first
  <2>3. Cardinality(upTo(k)) <= Cardinality(upTo(l))
    BY <1>3, <2>1, <2>2, FS_Subset
  <2>4. Cardinality(upTo(k)) <= PageSize
    BY <1>1, <1>3, <2>1, <2>3
  <2> QED BY <1>2, <2>4
<1>5. ASSUME Cardinality(ids) <= PageSize, NEW k \in ids PROVE k \in first
  <2>1. Cardinality(upTo(k)) <= Cardinality(ids) /\ Cardinality(upTo(k)) \in Nat
    BY <1>3
  <2>2. Cardinality(upTo(k)) <= PageSize
    BY <1>1, <1>5, <2>1
  <2> QED BY <1>2, <2>2
<1>6. first \in SUBSET ids /\ first \in SUBSET Nat
  BY <1>1
<1>7. page = [i \in DOMAIN keys |-> [key |-> keys[i], at |-> objects[<<listing.bucket, keys[i]>>]]]
  BY DEF PageOf
<1> HIDE DEF first
<1>8. IsFiniteSet(first)
  BY <1>1, <1>6, FS_Subset
<1>9. /\ N \in Nat /\ keys \in [1..N -> first]
      /\ \A k \in first : \E n \in 1..N : keys[n] = k
      /\ \A m, n \in 1..N : m < n => keys[m] < keys[n]
  BY <1>6, <1>8, AscendingLists
<1> HIDE DEF keys, N
<1>10. page = [i \in 1..N |-> [key |-> keys[i], at |-> objects[<<listing.bucket, keys[i]>>]]]
  BY <1>7, <1>9
<1>11. \A i \in 1..N : keys[i] \in ids /\ keys[i] \in first /\ page[i] \in FoundObjects
         /\ page[i].key = keys[i] /\ page[i].at = objects[<<listing.bucket, keys[i]>>]
  <2> TAKE i \in 1..N
  <2>1. keys[i] \in first /\ keys[i] \in ids
    BY <1>6, <1>9
  <2>2. page[i] = [key |-> keys[i], at |-> objects[<<listing.bucket, keys[i]>>]]
    BY <1>10
  <2>3. keys[i] \in KeyIds /\ objects[<<listing.bucket, keys[i]>>] \in Nat \ {Never}
    BY <2>1
  <2> QED BY <2>1, <2>2, <2>3 DEF FoundObjects
<1>12. page \in Seq(FoundObjects) /\ Len(page) = N
  <2>1. page \in [1..N -> FoundObjects]
    BY <1>10, <1>11
  <2>2. page \in Seq(FoundObjects)
    BY <1>9, <2>1, SeqDef
  <2> QED BY <1>9, <2>1, <2>2, LenProperties
<1>13. ASSUME NEW k \in first PROVE \E j \in 1..N : page[j].key = k
  BY <1>9, <1>11
<1>14. ASSUME NEW k \in ids, NEW i \in 1..N, k <= page[i].key
       PROVE  \E j \in 1..N : page[j].key = k
  BY <1>4, <1>11, <1>13, <1>14
<1>15. \A i, j \in 1..N : i < j => page[i].key < page[j].key
  BY <1>9, <1>11
<1>16. \A i \in 1..N : page[i].key \in ids /\ page[i].at = objects[<<listing.bucket, page[i].key>>]
  BY <1>11
<1> QED BY <1>5, <1>9, <1>12, <1>13, <1>14, <1>15, <1>16

\* What is in a list of objects.
LEMMA FoundOf ==
  ASSUME NEW found \in Seq(FoundObjects), NEW i \in 1..Len(found)
  PROVE  /\ found[i] \in FoundObjects /\ found[i].key \in KeyIds /\ found[i].key \in Nat
         /\ found[i].key <= Len(Keys) /\ found[i].at \in Nat \ {Never}
<1>1. found[i] \in FoundObjects
  OBVIOUS
<1>2. found[i].key \in KeyIds /\ found[i].at \in Nat \ {Never}
  BY <1>1 DEF FoundObjects
<1> QED BY <1>1, <1>2, PlacesFinite

\* The last key of a list.
LEMMA LastOfList ==
  ASSUME NEW found \in Seq(FoundObjects)
  PROVE  /\ Len(found) \in Nat /\ LastKey(found) \in Nat
         /\ Len(found) = 0 => LastKey(found) = 0
         /\ Len(found) # 0 => LastKey(found) = found[Len(found)].key
<1>1. Len(found) \in Nat /\ (Len(found) = 0 <=> found = <<>>)
  BY EmptySeq
<1>2. CASE found = <<>>
  BY <1>1, <1>2 DEF LastKey
<1>3. CASE found # <<>>
  <2>1. Len(found) \in 1..Len(found)
    BY <1>1, <1>3
  <2>2. found[Len(found)] \in FoundObjects
    BY <2>1
  <2>3. found[Len(found)].key \in Nat
    BY <2>2, PlacesFinite DEF FoundObjects
  <2>4. LastKey(found) = found[Len(found)].key
    BY <1>3 DEF LastKey, Last
  <2> QED BY <1>1, <1>3, <2>3, <2>4
<1> QED BY <1>2, <1>3

\* A page is added to what is listed: up to its last key nothing is missing that stood
\* all through the call, and nothing at all when it was the last page.
LEMMA ReadOn ==
  ASSUME S3Inv, listing.pc \in {"objects", "buckets"},
         NEW found, found = listing.found \o PageOf(Beyond)
  PROVE  /\ found \in Seq(FoundObjects)
         /\ ReadTo(found, listing.bucket, listing.prefix, listing.met, listing.lost, LastKey(found))
         /\ Cardinality(Beyond) <= PageSize =>
              ReadTo(found, listing.bucket, listing.prefix, listing.met, listing.lost, Len(Keys))
<1> DEFINE old == listing.found
           b == listing.bucket
           ids == Beyond
           page == PageOf(Beyond)
           under(k) == IsPrefix(listing.prefix, Keys[k])
           L == LastKey(old)
           n == Len(old)
           m == Len(page)
<1>1. /\ Noticed(objects, listing.met, listing.lost) /\ Listing(listing)
      /\ objects \in [Places -> Nat]
  BY DEF S3Inv, StoreHolds, CallTells, UnderWay
<1>2. /\ old \in Seq(FoundObjects) /\ b \in Range(Buckets)
      /\ ReadTo(old, b, listing.prefix, listing.met, listing.lost, L)
  BY <1>1 DEF Listing
<1>3. \A k : k \in ids <=> k \in KeyIds /\ k > L /\ under(k) /\ objects[<<b, k>>] # Never
  BY DEF Beyond, LastKey
<1>4. \A k \in KeyIds : <<b, k>> \in Places
  BY <1>2, PlacesFinite
<1>5. ids \in SUBSET KeyIds /\ \A k \in ids : objects[<<b, k>>] \in Nat \ {Never}
  BY <1>1, <1>3, <1>4
<1>6. \A k \in KeyIds : k \in Nat /\ k <= Len(Keys)
  BY PlacesFinite
<1> HIDE DEF ids, L
<1>7. /\ page \in Seq(FoundObjects) /\ m \in Nat
      /\ \A i \in 1..m : page[i].key \in ids /\ page[i].at = objects[<<b, page[i].key>>]
      /\ \A i, j \in 1..m : i < j => page[i].key < page[j].key
      /\ \A k \in ids, i \in 1..m : k <= page[i].key => \E j \in 1..m : page[j].key = k
      /\ Cardinality(ids) <= PageSize => \A k \in ids : \E j \in 1..m : page[j].key = k
  BY <1>5, PageTaken DEF ids
<1>8. found = old \o page
  OBVIOUS
<1> HIDE DEF old, page, n, m
<1>9. n \in Nat /\ L \in Nat /\ (n = 0 => L = 0) /\ (n # 0 => L = old[n].key)
  BY <1>2, LastOfList DEF L, n
<1>10. /\ found \in Seq(FoundObjects) /\ Len(found) = n + m
       /\ \A i \in 1..n + m : found[i] = IF i <= n THEN old[i] ELSE page[i - n]
  <2>1. /\ old \o page \in Seq(FoundObjects) /\ Len(old \o page) = Len(old) + Len(page)
        /\ \A i \in 1..Len(old) + Len(page) :
             (old \o page)[i] = IF i <= Len(old) THEN old[i] ELSE page[i - Len(old)]
    BY <1>2, <1>7, ConcatProperties
  <2> QED BY <1>8, <2>1 DEF n, m
<1>11. \A i \in 1..n : old[i].key \in Nat
  BY <1>2, FoundOf DEF n
<1>12. \A i \in 1..m : page[i].key \in Nat /\ page[i].key > L /\ page[i].key \in KeyIds
  BY <1>3, <1>6, <1>7
<1>13. /\ \A i, j \in 1..n : i < j => old[i].key < old[j].key
       /\ \A i \in 1..n : /\ old[i].key <= L /\ under(old[i].key)
                          /\ [place |-> <<b, old[i].key>>, at |-> old[i].at] \in listing.met
       /\ \A k \in KeyIds : k <= L /\ under(k) /\ <<b, k>> \notin listing.lost =>
            \E i \in 1..n : old[i].key = k
  BY <1>2 DEF ReadTo, n
<1>14. \A i \in 1..m : [place |-> <<b, page[i].key>>, at |-> page[i].at] \in listing.met
  <2> TAKE i \in 1..m
  <2>1. /\ page[i].key \in KeyIds /\ page[i].at = objects[<<b, page[i].key>>]
        /\ objects[<<b, page[i].key>>] # Never
    BY <1>3, <1>7
  <2> QED BY <1>1, <1>4, <2>1 DEF Noticed
<1>15. ASSUME NEW i \in 1..n + m
       PROVE  \/ i \in 1..n /\ found[i] = old[i]
              \/ i - n \in 1..m /\ found[i] = page[i - n] /\ i > n
  <2>1. i \in 1..n \/ (i - n \in 1..m /\ i > n /\ ~(i <= n))
    BY <1>7, <1>9
  <2>2. found[i] = IF i <= n THEN old[i] ELSE page[i - n]
    BY <1>10
  <2>3. i \in 1..n => i <= n
    BY <1>9
  <2> QED BY <2>1, <2>2, <2>3
<1>16. ASSUME NEW i \in 1..n + m, NEW j \in 1..n + m, i < j PROVE found[i].key < found[j].key
  <2>1. CASE i \in 1..n /\ found[i] = old[i] /\ j \in 1..n /\ found[j] = old[j]
    BY <1>13, <1>16, <2>1
  <2>2. CASE i \in 1..n /\ found[i] = old[i] /\ j - n \in 1..m /\ found[j] = page[j - n]
    <3>1. /\ old[i].key \in Nat /\ old[i].key <= L
          /\ page[j - n].key \in Nat /\ page[j - n].key > L
      <4>1. old[i].key \in Nat /\ old[i].key <= L
        BY <1>11, <1>13, <2>2
      <4> DEFINE k == j - n
      <4>2. k \in 1..m
        BY <2>2
      <4> HIDE DEF k
      <4>3. page[k].key \in Nat /\ page[k].key > L
        BY <1>12, <4>2
      <4> QED BY <4>1, <4>3 DEF k
    <3>2. found[i].key = old[i].key /\ found[j].key = page[j - n].key
      BY <2>2
    <3> QED BY <1>9, <3>1, <3>2
  <2>3. CASE i - n \in 1..m /\ found[i] = page[i - n] /\ j - n \in 1..m /\ found[j] = page[j - n]
    <3>1. i - n < j - n
      BY <1>7, <1>9, <1>16
    <3>2. page[i - n].key < page[j - n].key
      <4>1. \A x, y \in 1..m : x < y => page[x].key < page[y].key
        BY <1>7
      <4> QED BY <2>3, <3>1, <4>1, Zenon
    <3> QED BY <2>3, <3>2
  <2>4. ~(i > n /\ j \in 1..n)
    BY <1>7, <1>9, <1>16
  <2> QED BY <1>15, <2>1, <2>2, <2>3, <2>4
<1>17. \A i \in 1..m : n + i \in 1..n + m /\ found[n + i] = page[i]
  <2> TAKE i \in 1..m
  <2>1. n + i \in 1..n + m /\ ~(n + i <= n) /\ (n + i) - n = i
    BY <1>7, <1>9
  <2>2. found[n + i] = IF n + i <= n THEN old[n + i] ELSE page[(n + i) - n]
    BY <1>10, <2>1
  <2> QED BY <2>1, <2>2
<1>18. \A i \in 1..n : i \in 1..n + m /\ found[i] = old[i]
  BY <1>7, <1>9, <1>10
<1>19. LastKey(found) = IF m = 0 THEN L ELSE page[m].key
  <2>1. /\ n + m = 0 => LastKey(found) = 0
        /\ n + m # 0 => LastKey(found) = found[n + m].key
    BY <1>10, LastOfList
  <2>2. CASE m = 0
    <3>1. n + m = n
      BY <1>9, <2>2
    <3>2. n # 0 => n \in 1..n
      BY <1>9
    <3> QED BY <1>9, <1>18, <2>1, <2>2, <3>1, <3>2
  <2>3. CASE m # 0
    <3>1. m \in 1..m /\ n + m # 0
      BY <1>7, <1>9, <2>3
    <3> QED BY <1>17, <2>1, <2>3, <3>1
  <2> QED BY <2>2, <2>3
<1>20. ASSUME NEW i \in 1..n + m PROVE found[i].key <= LastKey(found)
  <2>1. CASE i \in 1..n /\ found[i] = old[i]
    <3>1. CASE m = 0
      BY <1>13, <1>19, <2>1, <3>1
    <3>2. CASE m # 0
      <4>1. m \in 1..m
        BY <1>7, <3>2
      <4>2. page[m].key \in Nat /\ page[m].key > L
        BY <1>12, <4>1
      <4>3. old[i].key \in Nat /\ old[i].key <= L
        BY <1>11, <1>13, <2>1
      <4> QED BY <1>9, <1>19, <2>1, <3>2, <4>2, <4>3
    <3> QED BY <3>1, <3>2
  <2>2. CASE i - n \in 1..m /\ found[i] = page[i - n]
    <3>1. m # 0 /\ m \in 1..m /\ (i - n < m \/ i - n = m)
      BY <1>7, <2>2
    <3> QED BY <1>7, <1>12, <1>19, <2>2, <3>1
  <2> QED BY <1>15, <2>1, <2>2
<1>21. ASSUME NEW i \in 1..n + m
       PROVE  /\ found[i].key \in KeyIds /\ under(found[i].key)
              /\ [place |-> <<b, found[i].key>>, at |-> found[i].at] \in listing.met
  <2>1. found[i].key \in KeyIds
    BY <1>10, FoundOf
  <2>2. under(found[i].key)
    BY <1>3, <1>7, <1>13, <1>15
  <2> QED BY <1>13, <1>14, <1>15, <2>1, <2>2
<1>22. ASSUME NEW k \in KeyIds, under(k), <<b, k>> \notin listing.lost, k > L PROVE k \in ids
  BY <1>1, <1>3, <1>4, <1>22 DEF Noticed
<1>23. ASSUME NEW k \in KeyIds, k <= LastKey(found), under(k), <<b, k>> \notin listing.lost
       PROVE  \E i \in 1..n + m : found[i].key = k
  <2>1. CASE k <= L
    BY <1>13, <1>18, <1>23, <2>1
  <2>2. CASE ~(k <= L)
    <3>1. k > L /\ k \in ids
      BY <1>6, <1>9, <1>22, <1>23, <2>2
    <3>2. m # 0
      BY <1>6, <1>9, <1>19, <1>23, <3>1
    <3>3. m \in 1..m /\ k <= page[m].key
      BY <1>7, <1>19, <1>23, <3>2
    <3>4. PICK j \in 1..m : page[j].key = k
      BY <1>7, <3>1, <3>3
    <3> QED BY <1>17, <3>4
  <2> QED BY <2>1, <2>2
<1>24. ASSUME Cardinality(ids) <= PageSize, NEW k \in KeyIds, under(k), <<b, k>> \notin listing.lost
       PROVE  \E i \in 1..n + m : found[i].key = k
  <2>1. CASE k <= L
    BY <1>13, <1>18, <1>24, <2>1
  <2>2. CASE ~(k <= L)
    <3>1. k \in ids
      BY <1>6, <1>9, <1>22, <1>24, <2>2
    <3>2. PICK j \in 1..m : page[j].key = k
      BY <1>7, <1>24, <3>1
    <3> QED BY <1>17, <3>2
  <2> QED BY <2>1, <2>2
<1> HIDE DEF b
<1>25. ReadTo(found, b, listing.prefix, listing.met, listing.lost, LastKey(found))
  BY <1>10, <1>16, <1>20, <1>21, <1>23 DEF ReadTo
<1>26. ASSUME Cardinality(ids) <= PageSize
       PROVE  ReadTo(found, b, listing.prefix, listing.met, listing.lost, Len(Keys))
  BY <1>6, <1>10, <1>16, <1>21, <1>24, <1>26 DEF ReadTo
<1> QED BY <1>10, <1>25, <1>26 DEF b, ids

-----------------------------------------------------------------------------
(* The object store: the requests of a call *)

\* A step of the call alone.
LEMMA OnlyTheCall ==
  ASSUME S3Inv, UNCHANGED <<buckets, objects, writes>>, CallTells(listing', objects) PROVE S3Inv'
BY DEF S3Inv

\* A call that begins takes note of what stands.
LEMMA NoteTaken == ASSUME S3Inv PROVE Noticed(objects, Standing, Vacant)
<1> DEFINE there == {q \in Places : objects[q] # Never}
           note == [p \in there |-> [place |-> p, at |-> objects[p]]]
<1>1. objects \in [Places -> Nat]
  BY DEF S3Inv, StoreHolds
<1>2. there \in SUBSET Places /\ \A p \in there : objects[p] \in Nat \ {Never}
  BY <1>1
<1>3. Standing = {[place |-> p, at |-> objects[p]] : p \in there}
  BY DEF Standing
<1>4. \A p \in Places : IF objects[p] = Never THEN p \in Vacant ELSE p \in there
  BY DEF Vacant
<1> HIDE DEF there
<1>5. note \in [there -> Standing] /\ \A t \in Standing : \E p \in there : note[p] = t
  BY <1>3
<1>6. IsFiniteSet(there)
  BY <1>2, PlacesFinite, FS_Subset
<1> HIDE DEF note
<1>7. IsFiniteSet(Standing)
  BY <1>5, <1>6, Covered
<1>8. Standing \in SUBSET Versions
  BY <1>2, <1>3 DEF Versions
<1>9. ASSUME NEW p \in Places
      PROVE  IF objects[p] = Never THEN p \in Vacant ELSE [place |-> p, at |-> objects[p]] \in Standing
  BY <1>3, <1>4
<1> QED BY <1>7, <1>8, <1>9 DEF Noticed

\* Of nothing, nothing is listed.
LEMMA NothingListed ==
  ASSUME NEW b, NEW prefix, NEW met, NEW lost
  PROVE  /\ <<>> \in Seq(FoundObjects)
         /\ ReadTo(<<>>, b, prefix, met, lost, LastKey(<<>>))
<1>1. Len(<<>>) = 0 /\ LastKey(<<>>) = 0
  BY DEF LastKey
<1>2. \A k \in KeyIds : ~(k <= 0)
  BY PlacesFinite
<1>3. 1..0 = {}
  OBVIOUS
<1> QED BY <1>1, <1>2, <1>3 DEF ReadTo

\* list_s3_objects is called.
LEMMA S3AsksObjects ==
  ASSUME S3Inv, NEW b \in Range(Buckets), NEW prefix \in AskedPrefixes, NEW limit \in Limits,
         AskObjects(b, prefix, limit)
  PROVE  S3Inv'
<1>1. /\ CallTells(listing, objects) /\ listing.pc = "idle" /\ listing.found = <<>>
      /\ listing = [f \in ListingFields |-> listing[f]]
  BY DEF S3Inv, AskObjects, CallTells
<1>2. UNCHANGED <<buckets, objects, writes>>
  BY DEF AskObjects
<1>3. CASE limit = 0
  <2>1. listing' = [listing EXCEPT !.pc = "refused"]
    BY <1>3 DEF AskObjects
  <2>2. listing' = [f \in ListingFields |-> listing'[f]] /\ listing'.pc = "refused"
    BY <1>1, <2>1 DEF ListingFields
  <2>3. CallTells(listing', objects)
    BY <2>2 DEF CallTells, UnderWay
  <2> QED BY <1>2, <2>3, OnlyTheCall
<1>4. CASE limit # 0
  <2>1. listing' = [[listing EXCEPT !.met = Standing, !.lost = Vacant]
                      EXCEPT !.pc = "objects", !.bucket = b, !.prefix = prefix, !.limit = Cap(limit)]
    BY <1>4 DEF AskObjects, Asked
  <2>2. /\ listing' = [f \in ListingFields |-> listing'[f]] /\ listing'.pc = "objects"
        /\ listing'.bucket = b /\ listing'.prefix = prefix /\ listing'.limit = Cap(limit)
        /\ listing'.met = Standing /\ listing'.lost = Vacant /\ listing'.found = <<>>
    BY <1>1, <2>1 DEF ListingFields
  <2>3. Listing(listing')
    BY <2>2, NothingListed DEF Listing
  <2>4. prefix \in Seq(STRING)
    BY S3Assumption
  <2>5. Cap(limit) \in Nat \ {0}
    BY <1>4, Capped
  <2>6. CallTells(listing', objects)
    BY <2>2, <2>3, <2>4, <2>5, NoteTaken DEF CallTells
  <2> QED BY <1>2, <2>6, OnlyTheCall
<1> QED BY <1>3, <1>4

\* list_s3_buckets is called.
LEMMA S3AsksBuckets == ASSUME S3Inv, AskBuckets PROVE S3Inv'
<1>1. /\ CallTells(listing, objects) /\ listing.pc = "idle" /\ listing.found = <<>>
      /\ listing.answer = <<>> /\ listing.prefix = <<>> /\ listing.limit = 0
      /\ listing = [f \in ListingFields |-> listing[f]]
  BY DEF S3Inv, AskBuckets, CallTells
<1>2. listing' = [[listing EXCEPT !.met = Standing, !.lost = Vacant] EXCEPT !.pc = "names"]
  BY DEF AskBuckets, Asked
<1>3. /\ listing' = [f \in ListingFields |-> listing'[f]] /\ listing'.pc = "names"
      /\ listing'.met = Standing /\ listing'.lost = Vacant
      /\ listing'.found = <<>> /\ listing'.answer = <<>>
      /\ listing'.prefix = <<>> /\ listing'.limit = 0
  BY <1>1, <1>2 DEF ListingFields
<1>4. CallTells(listing', objects)
  BY <1>3, NoteTaken DEF CallTells
<1>5. UNCHANGED <<buckets, objects, writes>>
  BY DEF AskBuckets
<1> QED BY <1>4, <1>5, OnlyTheCall

\* What is in a list is its head or in its tail.
LEMMA HeadOrTail ==
  ASSUME NEW X, NEW list \in Seq(X), list # <<>>
  PROVE  /\ Head(list) \in X /\ Tail(list) \in Seq(X)
         /\ \A i \in 1..Len(list) : list[i] = Head(list) \/ list[i] \in Range(Tail(list))
<1> DEFINE tail == Tail(list)
<1>1. /\ Head(list) \in X /\ tail \in Seq(X) /\ Len(tail) = Len(list) - 1
      /\ \A i \in 1..Len(tail) : tail[i] = list[i + 1]
  BY HeadTailProperties
<1>2. Head(list) = list[1] /\ Len(list) \in Nat
  OBVIOUS
<1> HIDE DEF tail
<1>3. ASSUME NEW i \in 1..Len(list), i # 1 PROVE list[i] \in Range(tail)
  <2>1. i - 1 \in 1..Len(tail) /\ (i - 1) + 1 = i
    BY <1>1, <1>2, <1>3
  <2>2. tail[i - 1] = list[i]
    BY <1>1, <2>1
  <2> QED BY <1>1, <2>1, <2>2, RangeOfList
<1> QED BY <1>1, <1>2, <1>3 DEF tail

\* The buckets are named: every bucket in which something stands is among them.
LEMMA S3Names == ASSUME S3Inv, ListBuckets PROVE S3Inv'
<1> DEFINE names == Kept(Buckets, buckets)
<1>1. /\ StoreHolds(buckets, objects, writes) /\ CallTells(listing, objects)
      /\ listing.pc = "names" /\ listing.found = <<>> /\ listing.answer = <<>>
      /\ listing.prefix = <<>> /\ listing.limit = 0
      /\ listing = [f \in ListingFields |-> listing[f]]
      /\ Noticed(objects, listing.met, listing.lost)
  BY DEF S3Inv, ListBuckets, CallTells, UnderWay
<1>2. UNCHANGED <<buckets, objects, writes>>
  BY DEF ListBuckets
<1>3. listing' = IF names = <<>>
                 THEN [listing EXCEPT !.pc = "done"]
                 ELSE [listing EXCEPT !.pc = "buckets", !.bucket = Head(names), !.left = Tail(names)]
  BY DEF ListBuckets
<1>4. names \in Seq(Range(Buckets))
  <2>1. Buckets \in Seq(STRING) /\ buckets \in SUBSET Range(Buckets)
    BY <1>1, S3Assumption DEF StoreHolds
  <2>2. names \in Seq(STRING \cap buckets)
    BY <2>1, KeptLists
  <2>3. STRING \cap buckets \subseteq Range(Buckets)
    BY <2>1
  <2> QED BY <2>2, <2>3, SeqMonotonic
<1>5. ASSUME NEW p \in Places \ listing.lost PROVE \E i \in 1..Len(names) : names[i] = p[1]
  <2>1. p[1] \in buckets
    BY <1>1 DEF Noticed, StoreHolds
  <2>2. Buckets \in Seq(STRING) /\ buckets \in SUBSET Range(Buckets)
    BY <1>1, S3Assumption DEF StoreHolds
  <2>3. \E i \in 1..Len(Buckets) : Buckets[i] = p[1]
    BY <2>1, <2>2, RangeOfList
  <2>4. (\E i \in 1..Len(Buckets) : Buckets[i] = p[1]) <=>
          \E n \in 1..Len(Kept(Buckets, buckets)) : Kept(Buckets, buckets)[n] = p[1]
    <3> DEFINE x == p[1]
    <3>1. x \in buckets /\ Buckets \in Seq(STRING)
      BY <2>1, <2>2
    <3> HIDE DEF x
    <3>2. (\E i \in 1..Len(Buckets) : Buckets[i] = x) <=>
            \E n \in 1..Len(Kept(Buckets, buckets)) : Kept(Buckets, buckets)[n] = x
      BY <3>1, KeptMembers
    <3> QED BY <3>2 DEF x
  <2> QED BY <2>3, <2>4
<1>6. BucketsTold(<<>>, listing.met, listing.lost)
  <2>1. <<>> \in Seq(Told) /\ Len(<<>>) = 0 /\ 1..0 = {}
    OBVIOUS
  <2> QED BY <2>1 DEF BucketsTold
<1> HIDE DEF names
<1>7. CASE names = <<>>
  <2>1. listing' = [listing EXCEPT !.pc = "done"]
    BY <1>3, <1>7
  <2>2. /\ listing' = [f \in ListingFields |-> listing'[f]] /\ listing'.pc = "done"
        /\ listing'.met = listing.met /\ listing'.lost = listing.lost /\ listing'.answer = <<>>
        /\ listing'.prefix = <<>> /\ listing'.limit = 0
    BY <1>1, <2>1 DEF ListingFields
  <2>3. Places \ listing.lost = {}
    <3>1. Len(names) = 0 /\ 1..0 = {}
      BY <1>7
    <3> QED BY <1>5, <3>1
  <2>4. NoneLeftOut(<<>>, listing.lost, {})
    BY <2>3 DEF NoneLeftOut
  <2>5. BucketsDone(listing')
    BY <1>6, <2>2, <2>4 DEF BucketsDone
  <2>6. CallTells(listing', objects)
    BY <1>1, <2>2, <2>5 DEF CallTells
  <2> QED BY <1>2, <2>6, OnlyTheCall
<1>8. CASE names # <<>>
  <2>1. listing' = [listing EXCEPT !.pc = "buckets", !.bucket = Head(names), !.left = Tail(names)]
    BY <1>3, <1>8
  <2>2. /\ listing' = [f \in ListingFields |-> listing'[f]] /\ listing'.pc = "buckets"
        /\ listing'.met = listing.met /\ listing'.lost = listing.lost
        /\ listing'.answer = <<>> /\ listing'.found = <<>>
        /\ listing'.prefix = <<>> /\ listing'.limit = 0
        /\ listing'.bucket = Head(names) /\ listing'.left = Tail(names)
    BY <1>1, <2>1 DEF ListingFields
  <2>3. /\ Head(names) \in Range(Buckets) /\ Tail(names) \in Seq(Range(Buckets))
        /\ \A i \in 1..Len(names) : names[i] = Head(names) \/ names[i] \in Range(Tail(names))
    BY <1>4, <1>8, HeadOrTail
  <2>4. NoneLeftOut(<<>>, listing.lost, Range(Tail(names)) \cup {Head(names)})
    BY <1>5, <2>3 DEF NoneLeftOut
  <2>5. Listing(listing')
    BY <2>2, <2>3, NothingListed DEF Listing
  <2>6. ListingBuckets(listing')
    BY <1>6, <2>2, <2>3, <2>4 DEF ListingBuckets
  <2>7. CallTells(listing', objects)
    BY <1>1, <2>2, <2>5, <2>6 DEF CallTells
  <2> QED BY <1>2, <2>7, OnlyTheCall
<1> QED BY <1>7, <1>8

\* One more bucket is told of.
LEMMA OneMoreTold ==
  ASSUME NEW answer, NEW met, NEW lost, NEW b \in Range(Buckets), NEW f \in Seq(FoundObjects),
         BucketsTold(answer, met, lost), ReadTo(f, b, <<>>, met, lost, Len(Keys)),
         NEW rest, NoneLeftOut(answer, lost, rest \cup {b}),
         NEW more, more = Append(answer, <<b, Summary(f)>>)
  PROVE  BucketsTold(more, met, lost) /\ NoneLeftOut(more, lost, rest)
<1> DEFINE one == <<b, Summary(f)>>
           N == Len(answer)
<1>1. answer \in Seq(Told) /\ one \in Told
  BY DEF BucketsTold, Told
<1>2. one[1] = b
  OBVIOUS
<1> HIDE DEF one
<1>3. /\ more \in Seq(Told) /\ Len(more) = N + 1 /\ N \in Nat
      /\ \A i \in 1..N : more[i] = answer[i]
      /\ more[N + 1] = one
  <2>1. more = Append(answer, one)
    BY DEF one
  <2>2. /\ Append(answer, one) \in Seq(Told) /\ Len(Append(answer, one)) = Len(answer) + 1
        /\ Append(answer, one)[Len(answer) + 1] = one
    BY <1>1, AppendProperties
  <2>3. \A i \in 1..Len(answer) : Append(answer, one)[i] = answer[i]
    BY <1>1
  <2>4. Len(answer) \in Nat
    BY <1>1
  <2> QED BY <2>1, <2>2, <2>3, <2>4
<1>4. \A i \in 1..N : \E c \in Range(Buckets), g \in Seq(FoundObjects) :
        answer[i] = <<c, Summary(g)>> /\ ReadTo(g, c, <<>>, met, lost, Len(Keys))
  BY DEF BucketsTold
<1>5. \A p \in Places \ lost : p[1] \in rest \cup {b} \/ \E i \in 1..N : answer[i][1] = p[1]
  BY DEF NoneLeftOut
<1> HIDE DEF N
<1>6. ASSUME NEW i \in 1..N + 1
      PROVE  \E c \in Range(Buckets), g \in Seq(FoundObjects) :
               more[i] = <<c, Summary(g)>> /\ ReadTo(g, c, <<>>, met, lost, Len(Keys))
  <2>1. CASE i = N + 1
    BY <1>3, <2>1 DEF one
  <2>2. CASE i # N + 1
    <3>1. i \in 1..N
      BY <1>3, <2>2
    <3> QED BY <1>3, <1>4, <3>1
  <2> QED BY <2>1, <2>2
<1>7. ASSUME NEW p \in Places \ lost, p[1] \notin rest
      PROVE  \E i \in 1..N + 1 : more[i][1] = p[1]
  <2>1. CASE p[1] = b
    <3>1. N + 1 \in 1..N + 1 /\ more[N + 1][1] = p[1]
      BY <1>2, <1>3, <2>1
    <3> QED BY <3>1
  <2>2. CASE p[1] # b
    <3>1. PICK i \in 1..N : answer[i][1] = p[1]
      BY <1>5, <1>7, <2>2
    <3>2. i \in 1..N + 1
      BY <1>3
    <3> QED BY <1>3, <3>1, <3>2
  <2> QED BY <2>1, <2>2
<1>8. BucketsTold(more, met, lost)
  BY <1>3, <1>6 DEF BucketsTold
<1>9. NoneLeftOut(more, lost, rest)
  BY <1>3, <1>7 DEF NoneLeftOut
<1> QED BY <1>8, <1>9

\* The next page is read; the last one of a listing makes the answer, or the next bucket.
LEMMA S3Pages == ASSUME S3Inv, Page PROVE S3Inv'
<1> DEFINE found == listing.found \o PageOf(Beyond)
           call == listing
<1>1. /\ CallTells(call, objects) /\ call.pc \in {"objects", "buckets"}
      /\ call = [f \in ListingFields |-> call[f]]
      /\ Noticed(objects, call.met, call.lost) /\ call.bucket \in Range(Buckets)
  BY DEF S3Inv, Page, CallTells, UnderWay, Listing
<1>2. UNCHANGED <<buckets, objects, writes>>
  BY DEF Page
<1>3. listing' = IF Cardinality(Beyond) <= PageSize
                 THEN ListingWhole(found) ELSE [call EXCEPT !.found = found]
  BY DEF Page
<1>4. /\ found \in Seq(FoundObjects)
      /\ ReadTo(found, call.bucket, call.prefix, call.met, call.lost, LastKey(found))
      /\ Cardinality(Beyond) <= PageSize =>
           ReadTo(found, call.bucket, call.prefix, call.met, call.lost, Len(Keys))
  BY <1>1, ReadOn
<1>5. /\ call.pc = "objects" => call.limit \in Nat \ {0} /\ call.prefix \in Seq(STRING)
      /\ call.pc = "buckets" => ListingBuckets(call) /\ call.prefix = <<>> /\ call.limit = 0
  BY <1>1 DEF CallTells
<1> HIDE DEF found
<1>6. CASE ~(Cardinality(Beyond) <= PageSize)
  <2>1. /\ listing' = [f \in ListingFields |-> listing'[f]] /\ listing'.pc = call.pc
        /\ listing'.left = call.left /\ listing'.bucket = call.bucket
        /\ listing'.prefix = call.prefix /\ listing'.limit = call.limit
        /\ listing'.found = found /\ listing'.answer = call.answer
        /\ listing'.met = call.met /\ listing'.lost = call.lost
    BY <1>1, <1>3, <1>6 DEF ListingFields
  <2>2. Listing(listing')
    BY <1>1, <1>4, <2>1 DEF Listing
  <2>3. call.pc = "buckets" => ListingBuckets(listing')
    BY <1>5, <2>1 DEF ListingBuckets
  <2>4. CallTells(listing', objects)
    BY <1>1, <1>5, <2>1, <2>2, <2>3 DEF CallTells
  <2> QED BY <1>2, <2>4, OnlyTheCall
<1>7. CASE Cardinality(Beyond) <= PageSize
  <2>1. listing' = ListingWhole(found)
    BY <1>3, <1>7
  <2>2. ReadTo(found, call.bucket, call.prefix, call.met, call.lost, Len(Keys))
    BY <1>4, <1>7
  <2>3. CASE call.pc = "objects"
    <3>1. listing' = [call EXCEPT !.pc = "done", !.found = found, !.answer = ObjectsAnswer(call, found)]
      BY <2>1, <2>3 DEF ListingWhole
    <3>2. /\ listing' = [f \in ListingFields |-> listing'[f]] /\ listing'.pc = "done"
          /\ listing'.bucket = call.bucket
          /\ listing'.prefix = call.prefix /\ listing'.limit = call.limit
          /\ listing'.found = found /\ listing'.answer = ObjectsAnswer(call, found)
          /\ listing'.met = call.met /\ listing'.lost = call.lost
      BY <1>1, <3>1 DEF ListingFields
    <3>3. ObjectsAnswer(listing', found) = ObjectsAnswer(call, found)
      BY <3>2 DEF ObjectsAnswer
    <3>4. ObjectsDone(listing')
      BY <1>1, <1>4, <1>5, <2>2, <2>3, <3>2, <3>3 DEF ObjectsDone
    <3>5. CallTells(listing', objects)
      BY <1>1, <3>2, <3>4 DEF CallTells
    <3> QED BY <1>2, <3>5, OnlyTheCall
  <2>4. CASE call.pc = "buckets"
    <3> DEFINE more == Append(call.answer, <<call.bucket, Summary(found)>>)
    <3>1. /\ BucketsTold(call.answer, call.met, call.lost) /\ call.left \in Seq(Range(Buckets))
          /\ NoneLeftOut(call.answer, call.lost, Range(call.left) \cup {call.bucket})
          /\ call.prefix = <<>> /\ call.limit = 0
      BY <1>5, <2>4 DEF ListingBuckets
    <3>2. ReadTo(found, call.bucket, <<>>, call.met, call.lost, Len(Keys))
      BY <2>2, <3>1
    <3> HIDE DEF more
    <3>3. /\ BucketsTold(more, call.met, call.lost)
          /\ NoneLeftOut(more, call.lost, Range(call.left))
      <4>1. more = Append(call.answer, <<call.bucket, Summary(found)>>)
        BY DEF more
      <4>2. call.bucket \in Range(Buckets) /\ found \in Seq(FoundObjects)
        BY <1>1, <1>4
      <4> QED BY <3>1, <3>2, <4>1, <4>2, OneMoreTold, Zenon
    <3>4. CASE call.left = <<>>
      <4>1. listing' = [call EXCEPT !.pc = "done", !.found = <<>>, !.answer = more]
        BY <2>1, <2>4, <3>4 DEF ListingWhole, more
      <4>2. /\ listing' = [f \in ListingFields |-> listing'[f]] /\ listing'.pc = "done"
            /\ listing'.prefix = call.prefix /\ listing'.limit = call.limit
            /\ listing'.answer = more
            /\ listing'.met = call.met /\ listing'.lost = call.lost
        BY <1>1, <4>1 DEF ListingFields
      <4>3. Range(call.left) = {}
        BY <3>4 DEF Range
      <4>4. BucketsDone(listing')
        BY <3>1, <3>3, <4>2, <4>3 DEF BucketsDone
      <4>5. CallTells(listing', objects)
        BY <1>1, <4>2, <4>4 DEF CallTells
      <4> QED BY <1>2, <4>5, OnlyTheCall
    <3>5. CASE call.left # <<>>
      <4>1. listing' = [call EXCEPT !.answer = more, !.found = <<>>, !.bucket = Head(call.left),
                                    !.left = Tail(call.left)]
        BY <1>1, <2>1, <2>4, <3>5 DEF ListingWhole, more
      <4>2. /\ listing' = [f \in ListingFields |-> listing'[f]] /\ listing'.pc = "buckets"
            /\ listing'.left = Tail(call.left) /\ listing'.bucket = Head(call.left)
            /\ listing'.prefix = call.prefix /\ listing'.limit = call.limit
            /\ listing'.found = <<>> /\ listing'.answer = more
            /\ listing'.met = call.met /\ listing'.lost = call.lost
        BY <1>1, <2>4, <4>1 DEF ListingFields
      <4>3. /\ Head(call.left) \in Range(Buckets) /\ Tail(call.left) \in Seq(Range(Buckets))
            /\ \A i \in 1..Len(call.left) :
                 call.left[i] = Head(call.left) \/ call.left[i] \in Range(Tail(call.left))
        BY <3>1, <3>5, HeadOrTail
      <4>4. Range(call.left) \subseteq Range(Tail(call.left)) \cup {Head(call.left)}
        BY <3>1, <4>3, RangeOfList
      <4>5. NoneLeftOut(more, call.lost, Range(Tail(call.left)) \cup {Head(call.left)})
        BY <3>3, <4>4 DEF NoneLeftOut
      <4>6. Listing(listing')
        BY <4>2, <4>3, NothingListed DEF Listing
      <4>7. ListingBuckets(listing')
        BY <3>3, <4>2, <4>3, <4>5 DEF ListingBuckets
      <4>8. CallTells(listing', objects)
        BY <1>1, <3>1, <4>2, <4>6, <4>7 DEF CallTells
      <4> QED BY <1>2, <4>8, OnlyTheCall
    <3> QED BY <3>4, <3>5
  <2> QED BY <1>1, <2>3, <2>4
<1> QED BY <1>6, <1>7

\* A request fails: nothing is told.
LEMMA S3Fails == ASSUME S3Inv, RequestFails PROVE S3Inv'
<1>1. listing = [f \in ListingFields |-> listing[f]]
  BY DEF S3Inv, CallTells
<1>2. listing' = [listing EXCEPT !.pc = "failed", !.found = <<>>, !.answer = <<>>]
  BY DEF RequestFails
<1>3. listing' = [f \in ListingFields |-> listing'[f]] /\ listing'.pc = "failed"
  BY <1>1, <1>2 DEF ListingFields
<1>4. CallTells(listing', objects)
  BY <1>3 DEF CallTells, UnderWay
<1>5. UNCHANGED <<buckets, objects, writes>>
  BY DEF RequestFails
<1> QED BY <1>4, <1>5, OnlyTheCall

\* The invariant holds at the start.
LEMMA S3Start == ASSUME S3Init PROVE S3Inv
<1>1. StoreHolds(buckets, objects, writes)
  <2>1. Age \in [KeyIds -> Nat \ {Never}]
    BY S3Assumption
  <2>2. \A p \in Places : objects[p] \in Nat
    <3> TAKE p \in Places
    <3>1. p[2] \in KeyIds /\ objects[p] \in {Never, Age[p[2]]}
      BY PlacesFinite DEF S3Init
    <3>2. Age[p[2]] \in Nat /\ Never \in Nat
      BY <2>1, <3>1 DEF Never
    <3> QED BY <3>1, <3>2
  <2>3. objects \in [Places -> Nat]
    BY <2>2 DEF S3Init
  <2> QED BY <2>3 DEF S3Init, StoreHolds
<1>2. listing = NoListing
  BY DEF S3Init
<1>3. /\ listing = [f \in ListingFields |-> listing[f]] /\ listing.pc = "idle"
      /\ listing.prefix = <<>> /\ listing.limit = 0 /\ listing.found = <<>> /\ listing.answer = <<>>
  BY <1>2 DEF NoListing, ListingFields
<1>4. CallTells(listing, objects)
  BY <1>3 DEF CallTells, UnderWay
<1> QED BY <1>1, <1>4 DEF S3Inv

\* Every step keeps it, and so does none.
LEMMA S3Steps == ASSUME S3Inv, [S3Next]_s3Vars PROVE S3Inv'
<1>1. ASSUME S3Next PROVE S3Inv'
  BY <1>1, S3Puts, S3Deletes, S3DeletesBucket, S3AsksObjects, S3AsksBuckets, S3Names, S3Pages,
     S3Fails DEF S3Next
<1>2. ASSUME UNCHANGED s3Vars PROVE S3Inv'
  BY <1>2 DEF s3Vars, S3Inv
<1> QED BY <1>1, <1>2

\* The invariant of the object store's tools holds in every state.
THEOREM S3Holds == S3Spec => []S3Inv
<1>1. S3Init => S3Inv
  BY S3Start
<1>2. S3Inv /\ [S3Next]_s3Vars => S3Inv'
  BY S3Steps
<1> QED BY <1>1, <1>2, PTL DEF S3Spec

-----------------------------------------------------------------------------
(* The object store: what is shown *)

\* The objects of a prefix that are shown are the newest, each once, and a cut list
\* says so.
LEMMA CutDoesShowNewest == S3Inv => CutShowsNewest
<1> SUFFICES ASSUME S3Inv, listing.pc = "done", listing.limit # 0
             PROVE  CutShowsNewest
  BY DEF CutShowsNewest
<1> DEFINE found == listing.found
           limit == listing.limit
           shown == listing.answer.objects
<1>1. ObjectsDone(listing)
  BY DEF S3Inv, CallTells, BucketsDone
<1>2. /\ found \in Seq(FoundObjects) /\ limit \in Nat
      /\ \A i, j \in 1..Len(found) : i < j => found[i].key < found[j].key
      /\ listing.answer = ObjectsAnswer(listing, found)
  BY <1>1 DEF ObjectsDone, ReadTo
<1>3. /\ listing.answer.truncated = Truncated(found, limit)
      /\ listing.answer.summary.count = Len(found)
      /\ shown = Cut(NewestFirst(found), limit)
  BY <1>2 DEF ObjectsAnswer, Summary
<1>4. \A x \in FoundObjects : x.at \in Nat
  BY DEF FoundObjects
<1> HIDE DEF found, limit, shown
<1>5. /\ shown \in Seq(FoundObjects) /\ Len(shown) = Min({limit, Len(found)})
      /\ Truncated(found, limit) <=> Len(shown) < Len(found)
      /\ \A i \in 1..Len(found) : found[i] \in Range(shown) \/
           \A n \in 1..Len(shown) : found[i].at <= shown[n].at
  <2>1. shown = Cut(NewestFirst(found), limit)
    BY <1>3
  <2>2. /\ shown \in Seq(FoundObjects)
        /\ Len(shown) = Min({limit, Len(found)})
        /\ Truncated(found, limit) <=> Len(shown) < Len(found)
        /\ TakenFrom(shown, found)
        /\ \A i \in 1..Len(found) : found[i] \in Range(shown) \/
             \A n \in 1..Len(shown) : found[i].at <= shown[n].at
    BY <1>2, <1>4, <2>1, NewestShown
  <2> QED BY <2>2
<1>6. TakenFrom(shown, found)
  BY <1>2, <1>3, <1>4, NewestShown
<1>7. ASSUME NEW i \in 1..Len(shown), NEW j \in 1..Len(shown), shown[i].key = shown[j].key
      PROVE  i = j
  <2>1. PICK places \in [1..Len(shown) -> 1..Len(found)] :
          /\ \A n \in 1..Len(shown) : shown[n] = found[places[n]]
          /\ \A m, n \in 1..Len(shown) : places[m] = places[n] => m = n
    BY <1>6 DEF TakenFrom
  <2>2. /\ places[i] \in 1..Len(found) /\ places[j] \in 1..Len(found)
        /\ found[places[i]].key = found[places[j]].key
    BY <1>7, <2>1
  <2>3. Len(found) \in Nat
    BY <1>2
  <2>4. found[places[i]].key \in Nat /\ found[places[j]].key \in Nat
    BY <1>2, <2>2, FoundOf
  <2>5. ~(places[i] < places[j]) /\ ~(places[j] < places[i])
    BY <1>2, <2>2, <2>4
  <2>6. places[i] = places[j]
    BY <2>2, <2>3, <2>5
  <2> QED BY <2>1, <2>6
<1>8. DOMAIN shown = 1..Len(shown)
  BY <1>5
<1>9. IsInjective([i \in DOMAIN shown |-> shown[i].key])
  BY <1>7, <1>8 DEF IsInjective
<1>10. ASSUME NEW o \in Range(found) \ Range(shown), NEW i \in DOMAIN shown PROVE o.at <= shown[i].at
  <2>1. PICK k \in 1..Len(found) : o = found[k]
    BY <1>2, RangeOfList
  <2> QED BY <1>5, <1>8, <2>1
<1> QED BY <1>3, <1>5, <1>9, <1>10 DEF CutShowsNewest, found, limit, shown

\* What a call tells of a prefix is cut to the newest.
THEOREM ObjectsAreTold == S3Spec => []CutShowsNewest
BY S3Holds, CutDoesShowNewest, PTL

-----------------------------------------------------------------------------
(* The object store: summaries *)

PlacesIn(S) == {m.place : m \in S}
TimesIn(S) == {m.at : m \in S}

\* Finitely many objects stood at finitely many places and were written finitely often.
LEMMA FieldsFinite ==
  ASSUME NEW S, IsFiniteSet(S) PROVE IsFiniteSet(PlacesIn(S)) /\ IsFiniteSet(TimesIn(S))
<1> DEFINE places == PlacesIn(S)
           times == TimesIn(S)
           f == [m \in S |-> m.place]
           g == [m \in S |-> m.at]
<1>1. f \in [S -> places] /\ \A t \in places : \E s \in S : f[s] = t
  BY DEF PlacesIn
<1>2. g \in [S -> times] /\ \A t \in times : \E s \in S : g[s] = t
  BY DEF TimesIn
<1> HIDE DEF places, times, f, g
<1>3. IsFiniteSet(places)
  BY <1>1, Covered
<1>4. IsFiniteSet(times)
  BY <1>2, Covered
<1> QED BY <1>3, <1>4 DEF places, times

\* As many numbers.
LEMMA Numbered == ASSUME NEW n \in Nat PROVE IsFiniteSet(1..n) /\ Cardinality(1..n) = n
BY FS_Interval

\* The moments of a list of objects.
LEMMA MomentsOf ==
  ASSUME NEW list \in Seq(FoundObjects)
  PROVE  /\ Moments(list) \in SUBSET Nat /\ IsFiniteSet(Moments(list))
         /\ \A t \in Moments(list) : \E i \in 1..Len(list) : t = list[i].at
         /\ \A i \in 1..Len(list) : list[i].at \in Moments(list)
<1>1. DOMAIN list = 1..Len(list) /\ Len(list) \in Nat
  OBVIOUS
<1>2. Moments(list) = {list[i].at : i \in 1..Len(list)}
  BY <1>1 DEF Moments
<1>3. \A i \in 1..Len(list) : list[i].at \in Nat
  BY FoundOf
<1> DEFINE all == 1..Len(list)
           at == [i \in all |-> list[i].at]
<1>4. at \in [all -> Moments(list)]
  BY <1>2
<1>5. \A t \in Moments(list) : \E i \in all : at[i] = t
  BY <1>2
<1>6. IsFiniteSet(all)
  BY <1>1, Numbered
<1> HIDE DEF all, at
<1>7. IsFiniteSet(Moments(list))
  BY <1>4, <1>5, <1>6, Covered, Zenon
<1> QED BY <1>2, <1>3, <1>7 DEF all

\* The summary of what is listed of the keys ks of a bucket is what it must be.
LEMMA SummaryHolds ==
  ASSUME listing.met \in SUBSET Versions, IsFiniteSet(listing.met),
         NEW b \in Range(Buckets), NEW ks \in SUBSET KeyIds, NEW list \in Seq(FoundObjects),
         \A i, j \in 1..Len(list) : i < j => list[i].key < list[j].key,
         \A i \in 1..Len(list) :
           list[i].key \in ks /\ [place |-> <<b, list[i].key>>, at |-> list[i].at] \in listing.met,
         \A k \in ks : <<b, k>> \notin listing.lost => \E i \in 1..Len(list) : list[i].key = k
  PROVE  Holds(Summary(list), b, ks)
<1> DEFINE here == {b} \X ks
           stood == here \ listing.lost
           met == {m \in listing.met : m.place \in here}
           were == {m.place : m \in met}
           N == Len(list)
           place(i) == <<b, list[i].key>>
           seen(i) == [place |-> <<b, list[i].key>>, at |-> list[i].at]
           listed == {place(i) : i \in 1..N}
<1>1. N \in Nat /\ IsFiniteSet(1..N) /\ Cardinality(1..N) = N
  <2>1. N \in Nat
    OBVIOUS
  <2> HIDE DEF N
  <2> QED BY <2>1, Numbered
<1>2. /\ Summary(list).count = N
      /\ list # <<>> => Summary(list).newest = Max(Moments(list)) /\ Summary(list).oldest = Min(Moments(list))
  BY DEF Summary
<1>3. list = <<>> <=> N = 0
  BY EmptySeq
<1>4. \A i \in 1..N : /\ list[i].key \in ks /\ list[i].key \in Nat /\ list[i].at \in Nat
                      /\ place(i) \in here /\ seen(i) \in met
                      /\ seen(i).place = place(i) /\ seen(i).at = list[i].at
  <2> TAKE i \in 1..N
  <2>1. list[i].key \in ks /\ seen(i) \in listing.met
    OBVIOUS
  <2>2. list[i].key \in Nat /\ list[i].at \in Nat
    BY FoundOf
  <2>3. place(i) \in here
    BY <2>1
  <2>4. seen(i).place = place(i) /\ seen(i).at = list[i].at
    OBVIOUS
  <2>5. seen(i) \in met
    BY <2>1, <2>3, <2>4
  <2> QED BY <2>1, <2>2, <2>3, <2>4, <2>5
<1>5. \A i, j \in 1..N : place(i) = place(j) => i = j
  <2> TAKE i, j \in 1..N
  <2> HAVE place(i) = place(j)
  <2>1. list[i].key = list[j].key /\ list[i].key \in Nat
    BY <1>4
  <2>2. ~(i < j) /\ ~(j < i)
    BY <2>1
  <2> QED BY <1>1, <2>2
<1>6. IsFiniteSet(met)
  <2>1. met \in SUBSET listing.met
    OBVIOUS
  <2> QED BY <2>1, FS_Subset
<1>7. IsFiniteSet(were)
  <2> HIDE DEF met
  <2>1. were = PlacesIn(met)
    BY DEF PlacesIn
  <2> HIDE DEF were
  <2> QED BY <1>6, <2>1, FieldsFinite
<1>8. Cardinality(stood) <= N
  <2> DEFINE f == [i \in 1..N |-> place(i)]
  <2>1. f \in [1..N -> listed] /\ \A p \in listed : \E i \in 1..N : f[i] = p
    OBVIOUS
  <2>2. IsFiniteSet(1..N) /\ Cardinality(1..N) = N
    BY <1>1
  <2>3. IsFiniteSet(listed) /\ Cardinality(listed) <= N
    <3> HIDE DEF f, listed, N, place
    <3>1. IsFiniteSet(listed) /\ Cardinality(listed) <= Cardinality(1..N)
      BY <2>1, <2>2, Covered, Zenon
    <3> QED BY <2>2, <3>1
  <2>4. stood \in SUBSET listed
    <3> SUFFICES ASSUME NEW p \in stood PROVE p \in listed
      OBVIOUS
    <3>1. PICK k \in ks : p = <<b, k>>
      OBVIOUS
    <3>2. PICK i \in 1..N : list[i].key = k
      BY <3>1
    <3> QED BY <3>1, <3>2
  <2> HIDE DEF stood, listed, N
  <2>5. IsFiniteSet(stood) /\ Cardinality(stood) <= Cardinality(listed)
    BY <2>3, <2>4, FS_Subset
  <2>6. Cardinality(stood) \in Nat /\ Cardinality(listed) \in Nat
    BY <2>3, <2>5, FS_CardinalityType
  <2> QED BY <1>1, <2>3, <2>5, <2>6
<1>9. N <= Cardinality(were)
  <2>1. \A i \in 1..N : place(i) \in were
    BY <1>4
  <2> DEFINE f == [i \in 1..N |-> place(i)]
  <2>2. f \in [1..N -> were] /\ \A i, j \in 1..N : f[i] = f[j] => i = j
    BY <1>5, <2>1
  <2> HIDE DEF f, were, N
  <2>3. f \in Injection(1..N, were)
    BY <2>2, Fun_IsInj
  <2>4. Cardinality(1..N) <= Cardinality(were)
    BY <1>7, <2>3, FS_Injection
  <2> QED BY <1>1, <2>4
<1>10. N # 0 => /\ Max(Moments(list)) \in Moments(list) /\ Min(Moments(list)) \in Moments(list)
               /\ \A i \in 1..N : list[i].at <= Max(Moments(list)) /\ Min(Moments(list)) <= list[i].at
  <2> HAVE N # 0
  <2>1. /\ Moments(list) \in SUBSET Nat /\ IsFiniteSet(Moments(list))
        /\ \A i \in 1..N : list[i].at \in Moments(list)
    BY MomentsOf
  <2>2. 1 \in 1..N
    BY <1>1
  <2>3. Moments(list) # {}
    BY <2>1, <2>2
  <2> QED BY <2>1, <2>3, MinAndMax
<1>11. Summary(list).newest \in {m.at : m \in met} \/ Summary(list).count = 0
  <2>1. CASE N = 0
    BY <1>2, <2>1
  <2>2. CASE N # 0
    <3>1. Summary(list).newest \in Moments(list)
      BY <1>2, <1>3, <1>10, <2>2
    <3>2. PICK i \in 1..N : Summary(list).newest = list[i].at
      BY <3>1, MomentsOf
    <3>3. seen(i) \in met /\ seen(i).at = list[i].at
      BY <1>4
    <3> QED BY <3>2, <3>3
  <2> QED BY <2>1, <2>2
<1>12. ASSUME NEW p \in stood, NEW versions, versions = {m.at : m \in {n \in met : n.place = p}}
       PROVE  Min(versions) <= Summary(list).newest /\ Summary(list).oldest <= Max(versions)
  <2>1. PICK k \in ks : p = <<b, k>>
    OBVIOUS
  <2>2. PICK i \in 1..N : list[i].key = k
    BY <2>1
  <2>3. seen(i) \in met /\ seen(i).place = p /\ seen(i).at = list[i].at /\ list[i].at \in Nat
    BY <1>4, <2>1, <2>2
  <2>4. list[i].at \in versions
    <3> DEFINE e == seen(i)
    <3>1. e \in met /\ e.place = p /\ e.at = list[i].at
      BY <2>3
    <3> HIDE DEF e, met
    <3> QED BY <1>12, <3>1
  <2> DEFINE ofP == {n \in met : n.place = p}
  <2>5. versions = TimesIn(ofP)
    BY <1>12 DEF TimesIn
  <2>6. ofP \in SUBSET met
    OBVIOUS
  <2>7. versions \in SUBSET Nat
    BY <1>12 DEF Versions
  <2> HIDE DEF ofP, met
  <2>8. IsFiniteSet(ofP)
    BY <1>6, <2>6, FS_Subset
  <2>9. IsFiniteSet(versions)
    BY <2>5, <2>8, FieldsFinite
  <2>10. /\ Min(versions) <= list[i].at /\ list[i].at <= Max(versions)
         /\ Min(versions) \in Nat /\ Max(versions) \in Nat
    BY <2>4, <2>7, <2>9, MinAndMax
  <2>11. N # 0
    BY <1>1
  <2>12. /\ list[i].at <= Summary(list).newest /\ Summary(list).oldest <= list[i].at
         /\ Summary(list).newest \in Nat /\ Summary(list).oldest \in Nat
    <3>1. Moments(list) \in SUBSET Nat
      BY MomentsOf
    <3> QED BY <1>2, <1>3, <1>10, <2>11, <3>1
  <2> QED BY <2>3, <2>10, <2>12
<1> HIDE DEF N
<1> QED BY <1>2, <1>8, <1>9, <1>11, <1>12 DEF Holds

-----------------------------------------------------------------------------
(* The object store: the levels below a prefix *)

\* The first "/" of a key beyond a prefix.
HasSlash(prefix, key) == \E i \in Len(prefix) + 1..Len(key) : key[i] = "/"
SlashAt(prefix, key, m) ==
  /\ m \in Len(prefix) + 1..Len(key) /\ key[m] = "/"
  /\ \A i \in Len(prefix) + 1..Len(key) : key[i] = "/" => m <= i

\* The beginning of a key.
LEMMA FirstOf ==
  ASSUME NEW key \in Seq(STRING), NEW m \in 1..Len(key), NEW c, c = SubSeq(key, 1, m)
  PROVE  /\ c \in Seq(STRING) /\ Len(c) = m /\ m \in Nat /\ 1 <= m /\ m <= Len(key)
         /\ \A i \in 1..m : c[i] = key[i]
<1>1. m \in Nat /\ 1 <= m /\ m <= Len(key) /\ Len(key) \in Nat /\ m \in Int /\ 1 \in Int
  OBVIOUS
<1>2. \A i \in 1..m : key[i] \in STRING
  BY <1>1
<1>3. /\ SubSeq(key, 1, m) \in Seq(STRING)
      /\ Len(SubSeq(key, 1, m)) = IF 1 <= m THEN m - 1 + 1 ELSE 0
      /\ \A i \in 1..(m - 1 + 1) : SubSeq(key, 1, m)[i] = key[1 + i - 1]
  BY <1>1, <1>2, SubSeqProperties
<1>4. m - 1 + 1 = m /\ \A i \in 1..m : 1 + i - 1 = i
  BY <1>1
<1> QED BY <1>1, <1>3, <1>4

\* Child ends with the first "/" beyond the prefix, or there is none.
LEMMA ChildEnds ==
  ASSUME NEW prefix \in Seq(STRING), NEW key \in Seq(STRING)
  PROVE  /\ ~HasSlash(prefix, key) => Child(prefix, key) = <<>>
         /\ HasSlash(prefix, key) => \E m : SlashAt(prefix, key, m)
         /\ \A m : SlashAt(prefix, key, m) =>
              m \in 1..Len(key) /\ Child(prefix, key) = SubSeq(key, 1, m)
<1> DEFINE slashes == {i \in Len(prefix) + 1..Len(key) : key[i] = "/"}
<1>1. Len(prefix) \in Nat /\ Len(key) \in Nat
  OBVIOUS
<1>2. Child(prefix, key) = IF slashes = {} THEN <<>> ELSE SubSeq(key, 1, Min(slashes))
  BY DEF Child
<1>3. HasSlash(prefix, key) <=> slashes # {}
  BY DEF HasSlash
<1>4. \A i : i \in slashes <=> i \in Len(prefix) + 1..Len(key) /\ key[i] = "/"
  OBVIOUS
<1>5. slashes \in SUBSET (1..Len(key)) /\ slashes \in SUBSET Nat
  BY <1>1
<1> HIDE DEF slashes
<1>6. IsFiniteSet(slashes)
  BY <1>1, <1>5, Numbered, FS_Subset
<1>7. slashes # {} => Min(slashes) \in slashes /\ \A i \in slashes : Min(slashes) <= i
  BY <1>5, <1>6, MinAndMax
<1>8. ASSUME HasSlash(prefix, key) PROVE SlashAt(prefix, key, Min(slashes))
  BY <1>3, <1>4, <1>7, <1>8 DEF SlashAt
<1>9. ASSUME NEW m, SlashAt(prefix, key, m)
      PROVE  m \in 1..Len(key) /\ Child(prefix, key) = SubSeq(key, 1, m)
  <2>1. m \in slashes /\ \A i \in slashes : m <= i
    BY <1>4, <1>9 DEF SlashAt
  <2>2. m <= Min(slashes) /\ Min(slashes) <= m /\ m \in Nat /\ Min(slashes) \in Nat
    BY <1>5, <1>7, <2>1
  <2>3. m = Min(slashes)
    BY <2>2
  <2> QED BY <1>2, <1>5, <2>1, <2>3
<1> QED BY <1>2, <1>3, <1>8, <1>9

\* A key is under a level if and only if the level is its child.
LEMMA UnderChild ==
  ASSUME NEW prefix \in Seq(STRING), NEW key \in Seq(STRING), NEW other \in Seq(STRING),
         NEW c, c = Child(prefix, key), c # <<>>
  PROVE  /\ IsPrefix(c, other) <=> Child(prefix, other) = c
         /\ IsPrefix(c, other) => HasSlash(prefix, other)
<1>1. PICK m : SlashAt(prefix, key, m)
  BY ChildEnds
<1>2. m \in 1..Len(key) /\ c = SubSeq(key, 1, m)
  BY <1>1, ChildEnds
<1>3. /\ c \in Seq(STRING) /\ Len(c) = m /\ m \in Nat /\ 1 <= m
      /\ \A i \in 1..m : c[i] = key[i]
  BY <1>2, FirstOf
<1>4. SubSeq(c, 1, m) = c
  BY <1>3, SubSeqFull
<1>5. Len(prefix) \in Nat /\ Len(other) \in Nat /\ Len(key) \in Nat
  OBVIOUS
<1>6. ASSUME IsPrefix(c, other)
      PROVE  Child(prefix, other) = c /\ HasSlash(prefix, other)
  <2>1. m <= Len(other) /\ c = SubSeq(other, 1, m)
    BY <1>3, <1>4, <1>6 DEF IsPrefix
  <2>2. m \in 1..Len(other)
    BY <1>3, <1>5, <2>1
  <2>3. \A i \in 1..m : c[i] = other[i]
    BY <2>1, <2>2, FirstOf
  <2>4. \A i \in 1..m : other[i] = key[i]
    BY <1>3, <2>3
  <2>5. /\ m \in Len(prefix) + 1..Len(key) /\ key[m] = "/"
        /\ \A i \in Len(prefix) + 1..Len(key) : key[i] = "/" => m <= i
    BY <1>1 DEF SlashAt
  <2>6. m \in Len(prefix) + 1..Len(other) /\ other[m] = "/"
    BY <1>3, <1>5, <2>1, <2>4, <2>5
  <2>7. ASSUME NEW i \in Len(prefix) + 1..Len(other), other[i] = "/" PROVE m <= i
    <3>1. CASE m <= i
      BY <3>1
    <3>2. CASE i < m
      <4>1. i \in 1..m /\ i \in Len(prefix) + 1..Len(key)
        BY <1>3, <1>5, <2>5, <3>2
      <4> QED BY <2>4, <2>5, <2>7, <4>1
    <3> QED BY <1>3, <1>5, <3>1, <3>2
  <2>8. SlashAt(prefix, other, m)
    BY <2>6, <2>7 DEF SlashAt
  <2>9. Child(prefix, other) = SubSeq(other, 1, m)
    BY <2>8, ChildEnds
  <2>10. HasSlash(prefix, other)
    BY <2>6 DEF HasSlash
  <2> QED BY <2>1, <2>9, <2>10
<1>7. ASSUME Child(prefix, other) = c PROVE IsPrefix(c, other)
  <2>1. HasSlash(prefix, other)
    BY <1>7, ChildEnds
  <2>2. PICK n : SlashAt(prefix, other, n)
    BY <2>1, ChildEnds
  <2>3. n \in 1..Len(other) /\ c = SubSeq(other, 1, n)
    BY <1>7, <2>2, ChildEnds
  <2>4. Len(c) = n /\ n <= Len(other)
    BY <2>3, FirstOf
  <2> QED BY <1>3, <1>4, <2>3, <2>4 DEF IsPrefix
<1> QED BY <1>6, <1>7

\* What is beyond a "/" is in a level below.
LEMMA ChildOrObject ==
  ASSUME NEW prefix \in Seq(STRING), NEW key \in Seq(STRING)
  PROVE  HasSlash(prefix, key) <=> Child(prefix, key) # <<>>
<1>1. ASSUME HasSlash(prefix, key) PROVE Child(prefix, key) # <<>>
  <2>1. PICK m : SlashAt(prefix, key, m)
    BY <1>1, ChildEnds
  <2>2. m \in 1..Len(key) /\ Child(prefix, key) = SubSeq(key, 1, m)
    BY <2>1, ChildEnds
  <2>3. Len(Child(prefix, key)) = m /\ 1 <= m /\ m \in Nat
    BY <2>2, FirstOf
  <2>4. Len(<<>>) = 0
    OBVIOUS
  <2> QED BY <2>3, <2>4
<1> QED BY <1>1, ChildEnds

OfChild(prefix, found, c) == {o \in Range(found) : Child(prefix, Keys[o.key]) = c}

\* The levels that are told of, and of what their summaries are.
LEMMA ChildrenTold ==
  ASSUME NEW prefix, NEW found \in Seq(FoundObjects), NEW children, children = Children(prefix, found)
  PROVE  /\ \A c : c \in DOMAIN children <=>
              c # <<>> /\ \E i \in 1..Len(found) : Child(prefix, Keys[found[i].key]) = c
         /\ \A c \in DOMAIN children : children[c] = Summary(Kept(found, OfChild(prefix, found, c)))
<1>1. children = [c \in {Child(prefix, Keys[o.key]) : o \in Range(found)} \ {<<>>} |->
                    Summary(Kept(found, {o \in Range(found) : Child(prefix, Keys[o.key]) = c}))]
  BY DEF Children
<1>2. \A c \in DOMAIN children : children[c] = Summary(Kept(found, OfChild(prefix, found, c)))
  BY <1>1 DEF OfChild
<1>3. \A c : c \in DOMAIN children <=> c # <<>> /\ \E o \in Range(found) : Child(prefix, Keys[o.key]) = c
  BY <1>1
<1>4. \A o : o \in Range(found) <=> \E i \in 1..Len(found) : o = found[i]
  BY RangeOfList
<1> QED BY <1>2, <1>3, <1>4

\* A key of the store.
LEMMA KeyIsTokens == ASSUME NEW k \in KeyIds PROVE Keys[k] \in Seq(STRING)
<1>1. Keys \in Seq(Seq(STRING)) /\ k \in 1..Len(Keys)
  BY S3Assumption, PlacesFinite
<1> QED BY <1>1, ElementOfSeq

\* What is kept of a list for a level: at growing places of it, what falls under it.
LEMMA KeptForChild ==
  ASSUME NEW prefix, NEW found \in Seq(FoundObjects), NEW c,
         NEW list, list = Kept(found, OfChild(prefix, found, c)),
         NEW places, places = PlacesOf(found, OfChild(prefix, found, c))
  PROVE  /\ list \in Seq(FoundObjects) /\ Len(list) \in Nat
         /\ places \in [1..Len(list) -> 1..Len(found)]
         /\ \A n \in 1..Len(list) :
              list[n] = found[places[n]] /\ Child(prefix, Keys[list[n].key]) = c
         /\ \A m, n \in 1..Len(list) : m < n => places[m] < places[n]
         /\ \A i \in 1..Len(found) :
              Child(prefix, Keys[found[i].key]) = c => \E n \in 1..Len(list) : places[n] = i
<1> DEFINE T == OfChild(prefix, found, c)
<1>1. \A o : o \in T <=> o \in Range(found) /\ Child(prefix, Keys[o.key]) = c
  BY DEF OfChild
<1> HIDE DEF T
<1>2. list = Kept(found, T) /\ places = PlacesOf(found, T)
  BY DEF T
<1>3. list \in Seq(FoundObjects \cap T) /\ Len(list) \in Nat
  BY <1>2, KeptLists
<1>4. KeepsInOrder(found, T, list, places)
  <2>1. KeepsInOrder(found, T, Kept(found, T), PlacesOf(found, T))
    BY KeptLists, Zenon
  <2> QED BY <1>2, <2>1
<1>5. /\ places \in [1..Len(list) -> 1..Len(found)]
      /\ \A n \in 1..Len(list) : list[n] = found[places[n]]
      /\ \A m, n \in 1..Len(list) : m < n => places[m] < places[n]
      /\ \A i \in 1..Len(found) : found[i] \in T => \E n \in 1..Len(list) : places[n] = i
  BY <1>4 DEF KeepsInOrder
<1>6. list \in Seq(FoundObjects)
  <2>1. FoundObjects \cap T \subseteq FoundObjects
    OBVIOUS
  <2> QED BY <1>3, <2>1, SeqMonotonic
<1>7. \A n \in 1..Len(list) : Child(prefix, Keys[list[n].key]) = c
  <2> TAKE n \in 1..Len(list)
  <2>1. list[n] \in FoundObjects \cap T
    BY <1>3, ElementOfSeq
  <2> QED BY <1>1, <2>1
<1>8. \A i \in 1..Len(found) : Child(prefix, Keys[found[i].key]) = c => found[i] \in T
  BY <1>1, RangeOfList
<1> QED BY <1>3, <1>5, <1>6, <1>7, <1>8

\* Places of a list, growing, at which what falls under a level is.
PlacedFor(prefix, found, c, list, places) ==
  /\ Len(list) \in Nat /\ places \in [1..Len(list) -> 1..Len(found)]
  /\ \A n \in 1..Len(list) : Child(prefix, Keys[found[places[n]].key]) = c
  /\ \A m, n \in 1..Len(list) : m < n => places[m] < places[n]

\* What is kept for a level is at such places.
LEMMA PlacedForChild ==
  ASSUME NEW prefix, NEW found \in Seq(FoundObjects), NEW c
  PROVE  PlacedFor(prefix, found, c, Kept(found, OfChild(prefix, found, c)),
                   PlacesOf(found, OfChild(prefix, found, c)))
<1> DEFINE T == OfChild(prefix, found, c)
<1>1. \A o \in T : Child(prefix, Keys[o.key]) = c
  BY DEF OfChild
<1> HIDE DEF T
<1> DEFINE list == Kept(found, T)
           places == PlacesOf(found, T)
<1>2. KeepsInOrder(found, T, list, places) /\ list \in Seq(FoundObjects \cap T)
  BY KeptLists, Zenon
<1> HIDE DEF list, places
<1>3. /\ Len(list) \in Nat /\ places \in [1..Len(list) -> 1..Len(found)]
      /\ \A n \in 1..Len(list) : list[n] = found[places[n]]
      /\ \A m, n \in 1..Len(list) : m < n => places[m] < places[n]
  BY <1>2 DEF KeepsInOrder
<1>4. \A n \in 1..Len(list) : list[n] \in T
  BY <1>2, ElementOfSeq
<1>5. PlacedFor(prefix, found, c, list, places)
  BY <1>1, <1>3, <1>4 DEF PlacedFor
<1> QED BY <1>5 DEF list, places, T

\* Every object that falls under a level has its place in what is kept for it.
NothingLeft(prefix, found, c, list, places) ==
  \A i \in 1..Len(found) :
    Child(prefix, Keys[found[i].key]) = c => \E n \in 1..Len(list) : places[n] = i

\* Nothing that falls under a level is left out of what is kept for it.
LEMMA NothingLeftForChild ==
  ASSUME NEW prefix, NEW found \in Seq(FoundObjects), NEW c
  PROVE  NothingLeft(prefix, found, c, Kept(found, OfChild(prefix, found, c)),
                     PlacesOf(found, OfChild(prefix, found, c)))
<1> DEFINE T == OfChild(prefix, found, c)
<1>1. \A i \in 1..Len(found) : Child(prefix, Keys[found[i].key]) = c => found[i] \in T
  BY RangeOfList DEF OfChild
<1> HIDE DEF T
<1>2. KeepsInOrder(found, T, Kept(found, T), PlacesOf(found, T))
  BY KeptLists, Zenon
<1> DEFINE list == Kept(found, T)
           places == PlacesOf(found, T)
<1>3. \A i \in 1..Len(found) : found[i] \in T => \E n \in 1..Len(list) : places[n] = i
  BY <1>2 DEF KeepsInOrder
<1> HIDE DEF list, places
<1>4. NothingLeft(prefix, found, c, list, places)
  BY <1>1, <1>3, Zenon DEF NothingLeft
<1> QED BY <1>4 DEF list, places, T

\* The numbers of the levels below add up to no more than the whole.
LEMMA LevelsAddUp ==
  ASSUME NEW prefix, NEW found \in Seq(FoundObjects), NEW children, children = Children(prefix, found)
  PROVE  Cardinality(UNION {{c} \X (1..children[c].count) : c \in DOMAIN children}) <= Len(found)
<1> DEFINE U == UNION {{c} \X (1..children[c].count) : c \in DOMAIN children}
           kept(c) == Kept(found, OfChild(prefix, found, c))
           places(c) == PlacesOf(found, OfChild(prefix, found, c))
           f == [u \in U |-> places(u[1])[u[2]]]
<1>1. \A c \in DOMAIN children : children[c].count = Len(kept(c))
  BY ChildrenTold DEF Summary
<1>2. \A u \in U : u[1] \in DOMAIN children /\ u[2] \in 1..Len(kept(u[1])) /\ u = <<u[1], u[2]>>
  <2> TAKE u \in U
  <2>1. PICK c \in DOMAIN children : u \in {c} \X (1..children[c].count)
    OBVIOUS
  <2>2. u[1] = c /\ u[2] \in 1..children[c].count /\ u = <<u[1], u[2]>>
    BY <2>1
  <2> HIDE DEF U, kept
  <2> QED BY <1>1, <2>1, <2>2
<1>3. ASSUME NEW c
      PROVE  /\ Len(kept(c)) \in Nat /\ places(c) \in [1..Len(kept(c)) -> 1..Len(found)]
             /\ \A n \in 1..Len(kept(c)) : Child(prefix, Keys[found[places(c)[n]].key]) = c
             /\ \A m, n \in 1..Len(kept(c)) : m < n => places(c)[m] < places(c)[n]
  <2> DEFINE list == kept(c)
             at == places(c)
  <2>1. list = Kept(found, OfChild(prefix, found, c)) /\ at = PlacesOf(found, OfChild(prefix, found, c))
    OBVIOUS
  <2> HIDE DEF list, at
  <2>2. PlacedFor(prefix, found, c, Kept(found, OfChild(prefix, found, c)),
                  PlacesOf(found, OfChild(prefix, found, c)))
    BY PlacedForChild
  <2>3. PlacedFor(prefix, found, c, list, at)
    BY <2>1, <2>2
  <2>4. /\ Len(list) \in Nat /\ at \in [1..Len(list) -> 1..Len(found)]
        /\ \A n \in 1..Len(list) : Child(prefix, Keys[found[at[n]].key]) = c
        /\ \A m, n \in 1..Len(list) : m < n => at[m] < at[n]
    BY <2>3 DEF PlacedFor
  <2> QED BY <2>4 DEF list, at
<1> HIDE DEF U, kept, places
<1>4. f \in [U -> 1..Len(found)]
  <2>1. \A u \in U : places(u[1])[u[2]] \in 1..Len(found)
    BY <1>2, <1>3
  <2> QED BY <2>1
<1>5. ASSUME NEW u \in U, NEW v \in U, f[u] = f[v] PROVE u = v
  <2>1. places(u[1])[u[2]] = places(v[1])[v[2]]
    BY <1>5
  <2>2. /\ Child(prefix, Keys[found[places(u[1])[u[2]]].key]) = u[1]
        /\ Child(prefix, Keys[found[places(v[1])[v[2]]].key]) = v[1]
    BY <1>2, <1>3
  <2>3. u[1] = v[1]
    BY <2>1, <2>2
  <2> DEFINE at == places(u[1])
             N == Len(kept(u[1]))
  <2>4. /\ u[2] \in 1..N /\ v[2] \in 1..N /\ at[u[2]] = at[v[2]]
        /\ N \in Nat /\ at \in [1..N -> 1..Len(found)]
        /\ \A m, n \in 1..N : m < n => at[m] < at[n]
    BY <1>2, <1>3, <2>1, <2>3
  <2> HIDE DEF at, N
  <2>5. at[u[2]] \in Nat /\ at[v[2]] \in Nat
    BY <2>4
  <2>6. ~(u[2] < v[2]) /\ ~(v[2] < u[2])
    BY <2>4, <2>5
  <2>7. u[2] = v[2]
    BY <2>4, <2>6
  <2> QED BY <1>2, <2>3, <2>7
<1> HIDE DEF f
<1>6. f \in Injection(U, 1..Len(found))
  BY <1>4, <1>5, Fun_IsInj
<1>7. Len(found) \in Nat
  OBVIOUS
<1>8. IsFiniteSet(1..Len(found)) /\ Cardinality(1..Len(found)) = Len(found)
  BY <1>7, Numbered
<1>9. Cardinality(U) <= Cardinality(1..Len(found))
  BY <1>6, <1>8, FS_Injection
<1> QED BY <1>8, <1>9 DEF U

\* What is told of the buckets holds, and none of them is passed over.
LEMMA BucketSummariesHold == ASSUME S3Inv, listing.pc = "done", BucketsDone(listing) PROVE SummariesHold
<1> DEFINE answer == listing.answer
           N == Len(answer)
<1>1. listing.prefix = <<>> /\ listing.limit = 0
  BY DEF BucketsDone
<1>2. /\ answer \in Seq(Told)
      /\ \A i \in 1..N : \E b \in Range(Buckets), f \in Seq(FoundObjects) :
           answer[i] = <<b, Summary(f)>> /\ ReadTo(f, b, <<>>, listing.met, listing.lost, Len(Keys))
  BY DEF BucketsDone, BucketsTold
<1>3. listing.met \in SUBSET Versions /\ IsFiniteSet(listing.met)
  BY DEF S3Inv, CallTells, UnderWay, Noticed
<1>4. \A k \in KeyIds : k <= Len(Keys) /\ IsPrefix(<<>>, Keys[k])
  <2> TAKE k \in KeyIds
  <2>1. Keys[k] \in Seq(STRING)
    BY KeyIsTokens
  <2>2. Len(<<>>) = 0 /\ 0 < 1 /\ 0 <= Len(Keys[k])
    BY <2>1
  <2>3. SubSeq(<<>>, 1, 0) = <<>> /\ SubSeq(Keys[k], 1, 0) = <<>>
    BY <2>2, SubSeqEmpty
  <2>4. IsPrefix(<<>>, Keys[k])
    BY <2>2, <2>3 DEF IsPrefix
  <2> QED BY <2>4, PlacesFinite
<1> HIDE DEF answer, N
<1>5. ASSUME NEW i \in 1..N PROVE Holds(answer[i][2], answer[i][1], KeyIds)
  <2>1. PICK b \in Range(Buckets), f \in Seq(FoundObjects) :
          answer[i] = <<b, Summary(f)>> /\ ReadTo(f, b, <<>>, listing.met, listing.lost, Len(Keys))
    BY <1>2
  <2>2. answer[i][1] = b /\ answer[i][2] = Summary(f)
    BY <2>1
  <2>3. /\ \A m, n \in 1..Len(f) : m < n => f[m].key < f[n].key
        /\ \A n \in 1..Len(f) : [place |-> <<b, f[n].key>>, at |-> f[n].at] \in listing.met
    BY <2>1 DEF ReadTo
  <2>4. \A n \in 1..Len(f) : f[n].key \in KeyIds
    BY FoundOf
  <2>5. \A k \in KeyIds : <<b, k>> \notin listing.lost => \E n \in 1..Len(f) : f[n].key = k
    BY <1>4, <2>1 DEF ReadTo
  <2>6. Holds(Summary(f), b, KeyIds)
    BY <1>3, <2>3, <2>4, <2>5, SummaryHolds
  <2> QED BY <2>2, <2>6
<1>6. \A p \in Places \ listing.lost : \E i \in 1..N : answer[i][1] = p[1]
  BY DEF BucketsDone, NoneLeftOut, answer, N
<1>7. DOMAIN answer = 1..N
  BY <1>2 DEF N
<1> QED BY <1>1, <1>5, <1>6, <1>7 DEF SummariesHold, answer

\* What is told of a prefix and of the levels below it holds.
LEMMA ObjectSummariesHold == ASSUME S3Inv, listing.pc = "done", ObjectsDone(listing) PROVE SummariesHold
<1> DEFINE a == listing.answer
           found == listing.found
           b == listing.bucket
           prefix == listing.prefix
           under == {k \in KeyIds : IsPrefix(listing.prefix, Keys[k])}
           below(c) == {k \in under : IsPrefix(c, Keys[k])}
           children == a.children
           child(k) == Child(prefix, Keys[k])
<1>1. /\ listing.limit # 0 /\ prefix \in Seq(STRING) /\ found \in Seq(FoundObjects)
      /\ b \in Range(Buckets) /\ a = ObjectsAnswer(listing, found)
      /\ ReadTo(found, b, prefix, listing.met, listing.lost, Len(Keys))
  BY DEF ObjectsDone
<1>2. listing.met \in SUBSET Versions /\ IsFiniteSet(listing.met)
  BY DEF S3Inv, CallTells, UnderWay, Noticed
<1>3. a.summary = Summary(found) /\ a.summary.count = Len(found) /\ children = Children(prefix, found)
  BY <1>1 DEF ObjectsAnswer, Summary
<1>4. \A k : k \in under <=> k \in KeyIds /\ IsPrefix(prefix, Keys[k])
  OBVIOUS
<1>5. \A c : \A k : k \in below(c) <=> k \in under /\ IsPrefix(c, Keys[k])
  OBVIOUS
<1>6. /\ under \in SUBSET KeyIds /\ \A c : below(c) \in SUBSET KeyIds
      /\ \A k \in KeyIds : Keys[k] \in Seq(STRING) /\ k <= Len(Keys)
  BY KeyIsTokens, PlacesFinite
<1> HIDE DEF a, found, b, prefix, under, below, children
<1>7. /\ \A i, j \in 1..Len(found) : i < j => found[i].key < found[j].key
      /\ \A i \in 1..Len(found) :
           /\ found[i].key \in KeyIds /\ found[i].key \in under
           /\ [place |-> <<b, found[i].key>>, at |-> found[i].at] \in listing.met
  BY <1>1, <1>4, FoundOf DEF ReadTo
<1>8. \A k \in under : <<b, k>> \notin listing.lost => \E i \in 1..Len(found) : found[i].key = k
  BY <1>1, <1>4, <1>6 DEF ReadTo
<1>9. Holds(a.summary, b, under)
  <2>1. Holds(Summary(found), b, under)
    BY <1>1, <1>2, <1>6, <1>7, <1>8, SummaryHolds
  <2> QED BY <1>3, <2>1
<1>10. /\ \A c : c \in DOMAIN children <=> c # <<>> /\ \E i \in 1..Len(found) : child(found[i].key) = c
       /\ \A c \in DOMAIN children : children[c] = Summary(Kept(found, OfChild(prefix, found, c)))
  BY <1>1, <1>3, ChildrenTold
<1>11. ASSUME NEW c \in DOMAIN children, NEW k \in KeyIds
       PROVE  /\ IsPrefix(c, Keys[k]) <=> child(k) = c
              /\ IsPrefix(c, Keys[k]) => HasSlash(prefix, Keys[k])
  <2>1. PICK i \in 1..Len(found) : child(found[i].key) = c
    BY <1>10
  <2> DEFINE key == Keys[found[i].key]
  <2>2. key \in Seq(STRING) /\ Keys[k] \in Seq(STRING) /\ c = Child(prefix, key) /\ c # <<>>
    BY <1>6, <1>7, <1>10, <2>1
  <2> HIDE DEF key
  <2> QED BY <1>1, <2>2, UnderChild
<1>12. ASSUME NEW c \in DOMAIN children PROVE Holds(children[c], b, below(c))
  <2> DEFINE list == Kept(found, OfChild(prefix, found, c))
             places == PlacesOf(found, OfChild(prefix, found, c))
  <2>0. /\ list = Kept(found, OfChild(prefix, found, c))
        /\ places = PlacesOf(found, OfChild(prefix, found, c))
    OBVIOUS
  <2>2. children[c] = Summary(list)
    BY <1>10
  <2> HIDE DEF list, places
  <2>1. /\ list \in Seq(FoundObjects) /\ Len(list) \in Nat
        /\ places \in [1..Len(list) -> 1..Len(found)]
        /\ \A n \in 1..Len(list) : list[n] = found[places[n]] /\ child(list[n].key) = c
        /\ \A m, n \in 1..Len(list) : m < n => places[m] < places[n]
        /\ \A i \in 1..Len(found) : child(found[i].key) = c => \E n \in 1..Len(list) : places[n] = i
    <3>0. found \in Seq(FoundObjects)
      BY <1>1
    <3>1. list \in Seq(FoundObjects) /\ Len(list) \in Nat
      BY <2>0, <3>0, KeptForChild
    <3>2. /\ places \in [1..Len(list) -> 1..Len(found)]
          /\ \A m, n \in 1..Len(list) : m < n => places[m] < places[n]
      BY <2>0, <3>0, KeptForChild
    <3>3. \A n \in 1..Len(list) : list[n] = found[places[n]] /\ child(list[n].key) = c
      BY <2>0, <3>0, KeptForChild
    <3>4. NothingLeft(prefix, found, c, list, places)
      <4>1. NothingLeft(prefix, found, c, Kept(found, OfChild(prefix, found, c)),
                        PlacesOf(found, OfChild(prefix, found, c)))
        BY <3>0, NothingLeftForChild, Zenon
      <4> QED BY <2>0, <4>1
    <3>5. \A i \in 1..Len(found) : child(found[i].key) = c => \E n \in 1..Len(list) : places[n] = i
      BY <3>4 DEF NothingLeft
    <3> QED BY <3>1, <3>2, <3>3, <3>5
  <2>3. \A m, n \in 1..Len(list) : m < n => list[m].key < list[n].key
    <3> TAKE m, n \in 1..Len(list)
    <3> HAVE m < n
    <3> DEFINE x == places[m]
               y == places[n]
    <3>1. x \in 1..Len(found) /\ y \in 1..Len(found) /\ x < y
      BY <2>1
    <3>2. list[m] = found[x] /\ list[n] = found[y]
      BY <2>1
    <3> HIDE DEF x, y
    <3> QED BY <1>7, <3>1, <3>2
  <2>4. ASSUME NEW n \in 1..Len(list)
        PROVE  /\ list[n].key \in below(c)
               /\ [place |-> <<b, list[n].key>>, at |-> list[n].at] \in listing.met
    <3>1. places[n] \in 1..Len(found) /\ list[n] = found[places[n]] /\ child(list[n].key) = c
      BY <2>1
    <3>2. /\ list[n].key \in KeyIds /\ list[n].key \in under
          /\ [place |-> <<b, list[n].key>>, at |-> list[n].at] \in listing.met
      BY <1>7, <3>1
    <3>3. IsPrefix(c, Keys[list[n].key])
      BY <1>11, <3>1, <3>2
    <3> QED BY <1>5, <3>2, <3>3
  <2>5. ASSUME NEW k \in below(c), <<b, k>> \notin listing.lost
        PROVE  \E n \in 1..Len(list) : list[n].key = k
    <3>1. k \in under /\ k \in KeyIds /\ IsPrefix(c, Keys[k])
      BY <1>5, <1>6
    <3>2. PICK i \in 1..Len(found) : found[i].key = k
      BY <1>8, <2>5, <3>1
    <3>3. child(found[i].key) = c
      BY <1>11, <3>1, <3>2
    <3>4. PICK n \in 1..Len(list) : places[n] = i
      BY <2>1, <3>3
    <3> QED BY <2>1, <3>2, <3>4
  <2>6. Holds(Summary(list), b, below(c))
    <3> DEFINE ks == below(c)
    <3>1. /\ ks \in SUBSET KeyIds /\ list \in Seq(FoundObjects) /\ b \in Range(Buckets)
          /\ \A n \in 1..Len(list) :
               list[n].key \in ks /\ [place |-> <<b, list[n].key>>, at |-> list[n].at] \in listing.met
          /\ \A k \in ks : <<b, k>> \notin listing.lost => \E n \in 1..Len(list) : list[n].key = k
      BY <1>1, <1>6, <2>1, <2>4, <2>5
    <3> HIDE DEF ks
    <3>2. Holds(Summary(list), b, ks)
      BY <1>2, <2>3, <3>1, SummaryHolds
    <3> QED BY <3>2 DEF ks
  <2> QED BY <2>2, <2>6
<1>13. ASSUME NEW k \in under, <<b, k>> \notin listing.lost
       PROVE  HasSlash(prefix, Keys[k]) <=> \E c \in DOMAIN children : k \in below(c)
  <2>1. k \in KeyIds /\ Keys[k] \in Seq(STRING)
    BY <1>6
  <2>2. ASSUME HasSlash(prefix, Keys[k]) PROVE \E c \in DOMAIN children : k \in below(c)
    <3>1. child(k) # <<>>
      BY <1>1, <2>1, <2>2, ChildOrObject
    <3>2. PICK i \in 1..Len(found) : found[i].key = k
      BY <1>8, <1>13
    <3>3. child(k) \in DOMAIN children
      BY <1>10, <3>1, <3>2
    <3>4. IsPrefix(child(k), Keys[k])
      BY <1>11, <2>1, <3>3
    <3> QED BY <1>5, <3>3, <3>4
  <2>3. ASSUME NEW c \in DOMAIN children, k \in below(c) PROVE HasSlash(prefix, Keys[k])
    BY <1>5, <1>11, <2>1, <2>3
  <2> QED BY <2>2, <2>3
<1>14. Cardinality(UNION {{c} \X (1..children[c].count) : c \in DOMAIN children}) <= a.summary.count
  BY <1>1, <1>3, LevelsAddUp
<1> QED BY <1>1, <1>9, <1>12, <1>13, <1>14
        DEF SummariesHold, HasSlash, a, found, b, prefix, under, below, children

\* The summaries of a call that is done hold.
LEMMA SummariesDoHold == S3Inv => SummariesHold
<1> SUFFICES ASSUME S3Inv, listing.pc = "done" PROVE SummariesHold
  BY DEF SummariesHold
<1>1. BucketsDone(listing) \/ ObjectsDone(listing)
  BY DEF S3Inv, CallTells
<1> QED BY <1>1, BucketSummariesHold, ObjectSummariesHold

\* Every summary of a prefix, of a level below it and of a bucket holds.
THEOREM SummariesAreTrue == S3Spec => []SummariesHold
BY S3Holds, SummariesDoHold, PTL

-----------------------------------------------------------------------------
(* The three together *)

\* A step of the listings is a step of one of the three or of none.
LEMMA ListingsSteps ==
  ASSUME [ListingsNext]_<<vars, s3Vars, pbsVars, subject>>
  PROVE  [Next]_vars /\ [S3Next]_s3Vars /\ [PbsNext]_pbsVars
BY DEF ListingsNext

\* The specification of the listings implies each of the three.
THEOREM ListingsAreThree == ListingsSpec => Spec /\ S3Spec /\ PbsSpec
<1>1. ListingsInit => Init /\ S3Init /\ PbsInit
  BY DEF ListingsInit
<1>2. [ListingsNext]_<<vars, s3Vars, pbsVars, subject>> =>
        [Next]_vars /\ [S3Next]_s3Vars /\ [PbsNext]_pbsVars
  BY ListingsSteps
<1> QED BY <1>1, <1>2, PTL DEF ListingsSpec, Spec, S3Spec, PbsSpec

\* A catalog of list_data_sources is of its walk: it lists what existed at some time of
\* it, all that existed all through, and ranges that were so.
THEOREM CatalogHolds == ListingsSpec => []CatalogOfItsWalk
BY ListingsAreThree, CatalogsAreOfTheirWalks, PTL

\* What resolve is told of a table trails the database by the time to live of the cache
\* and the walk, never by more.
THEOREM CatalogIsFresh == ListingsSpec => []CatalogTrails
BY ListingsAreThree, CatalogsTrail, PTL

\* The summaries of list_s3_buckets and list_s3_objects hold, whatever is written and
\* deleted between two pages.
THEOREM StoreIsTold == ListingsSpec => []SummariesHold
BY ListingsAreThree, SummariesAreTrue, PTL

\* The reports of list_pbs_datastores give each datastore what was its own.
THEOREM ReportsHold == ListingsSpec => []JobsAreTheirs
BY ListingsAreThree, ReportsAreTheirs, PTL

\* Every list that is cut shows the newest and says so.
THEOREM CutsHold == ListingsSpec => []CutsAreTold
<1>1. CutShowsNewest /\ PbsCutsTold => CutsAreTold
  BY DEF CutsAreTold
<1> QED BY <1>1, ListingsAreThree, ObjectsAreTold, PbsListsAreTold, PTL

-----------------------------------------------------------------------------
(* Presence: counting up *)

\* What holds of 0 and of the next number when it holds of one holds up to any number.
LEMMA CountingUp ==
  ASSUME NEW N \in Nat, NEW good, 0 \in good, \A n \in 0..(N - 1) : n \in good => n + 1 \in good
  PROVE  \A n \in 0..N : n \in good
<1> DEFINE bad == {n \in 0..N : n \notin good}
<1> SUFFICES ASSUME bad # {} PROVE FALSE
  OBVIOUS
<1>1. bad \in SUBSET Nat /\ IsFiniteSet(bad)
  <2>1. IsFiniteSet(0..N) /\ bad \subseteq 0..N
    BY FS_Interval
  <2> QED BY <2>1, FS_Subset
<1>2. Min(bad) \in bad /\ \A n \in bad : Min(bad) <= n
  BY <1>1, MinAndMax
<1> DEFINE m == Min(bad)
<1>3. m \in 0..N /\ m \notin good /\ m # 0
  BY <1>2
<1>4. m - 1 \in 0..(N - 1) /\ m - 1 \notin bad
  <2> HIDE DEF bad
  <2>1. m - 1 \in 0..(N - 1)
    BY <1>3
  <2>2. ~(m <= m - 1)
    BY <1>3
  <2> QED BY <1>2, <2>1, <2>2
<1>5. m - 1 \in good /\ (m - 1) + 1 = m
  BY <1>3, <1>4
<1> QED BY <1>3, <1>4, <1>5

-----------------------------------------------------------------------------
(* Presence: the changes of one person *)

Known3 == {"home", "away", "unknown"}
Changes == [time : Nat, state : {"home", "away"}]
Stretches == [start : Nat, end : Nat, state : Known3]
Folds == [spans : Seq(Stretches), since : Nat, current : Known3]

Ordered(past) == \A i, j \in 1..Len(past) : i <= j => past[i].time <= past[j].time

\* What the first n changes tell of a moment: the state of the last one up to then.
TellsAt(points, n, t, state) ==
  \/ /\ \A i \in 1..n : t < points[i].time
     /\ state = "unknown"
  \/ \E i \in 1..n :
       /\ points[i].time <= t /\ \A j \in (i + 1)..n : t < points[j].time
       /\ state = points[i].state

OpenFold(from) == [spans |-> <<>>, since |-> from, current |-> "unknown"]

\* The folding of the changes, one after the other.
LEMMA FoldedSteps ==
  ASSUME NEW points \in Seq(Changes), NEW from \in Nat
  PROVE  /\ Folded(points, from)[0] = OpenFold(from)
         /\ \A n \in 1..Len(points) :
              Folded(points, from)[n] = Fold(Folded(points, from)[n - 1], points[n], from)
<1> DEFINE N == Len(points)
           Is(g, m) == g = [n \in 0..m |-> IF n = 0 THEN OpenFold(from)
                                           ELSE Fold(g[n - 1], points[n], from)]
           good == {m \in 0..N : \E g : Is(g, m)}
<1>1. N \in Nat
  OBVIOUS
<1>2. 0 \in good
  <2>1. Is([n \in 0..0 |-> OpenFold(from)], 0)
    OBVIOUS
  <2> HIDE DEF Is
  <2> QED BY <1>1, <2>1
<1>3. ASSUME NEW m \in 0..(N - 1), m \in good PROVE m + 1 \in good
  <2>1. PICK g : Is(g, m)
    BY <1>3
  <2> DEFINE h == [n \in 0..(m + 1) |-> IF n = m + 1 THEN Fold(g[m], points[m + 1], from) ELSE g[n]]
  <2>2. \A n \in 0..m : g[n] = IF n = 0 THEN OpenFold(from) ELSE Fold(g[n - 1], points[n], from)
    BY <2>1
  <2>3. m \in Nat /\ m + 1 \in 0..N
    BY <1>1, <1>3
  <2> HIDE DEF N
  <2>4. \A n \in 0..(m + 1) : h[n] = IF n = 0 THEN OpenFold(from) ELSE Fold(h[n - 1], points[n], from)
    <3> TAKE n \in 0..(m + 1)
    <3>1. CASE n = m + 1
      <4>1. h[n] = Fold(g[m], points[m + 1], from) /\ n - 1 \in 0..(m + 1) /\ n - 1 = m /\ n # 0
            /\ h[n - 1] = g[m]
        BY <2>3, <3>1
      <4> QED BY <3>1, <4>1
    <3>2. CASE n \in 0..m /\ n # 0
      <4>1. n - 1 \in 0..(m + 1) /\ n - 1 # m + 1 /\ n # m + 1
        BY <2>3, <3>2
      <4>2. h[n] = g[n] /\ h[n - 1] = g[n - 1]
        BY <4>1
      <4> QED BY <2>2, <3>2, <4>2
    <3>3. CASE n = 0
      <4>1. h[n] = g[n] /\ n \in 0..m
        BY <2>3, <3>3
      <4> QED BY <2>2, <3>3, <4>1
    <3> QED BY <2>3, <3>1, <3>2, <3>3
  <2>5. Is(h, m + 1)
    BY <2>4
  <2> QED BY <2>3, <2>5
<1>4. N \in good
  <2> HIDE DEF good
  <2>1. \A n \in 0..N : n \in good
    BY <1>1, <1>2, <1>3, CountingUp
  <2> QED BY <1>1, <2>1
<1>5. Is(Folded(points, from), N)
  <2>1. \E g : Is(g, N)
    BY <1>4
  <2>2. Folded(points, from) = CHOOSE g : Is(g, N)
    BY DEF Folded, OpenFold
  <2> QED BY <2>1, <2>2
<1> QED BY <1>1, <1>5

\* A change later than a moment does not matter to it.
LEMMA TellsLater ==
  ASSUME NEW points \in Seq(Changes), NEW n \in 0..(Len(points) - 1), NEW t \in Nat, NEW state,
         TellsAt(points, n, t, state), t < points[n + 1].time
  PROVE  TellsAt(points, n + 1, t, state)
<1>1. \A j \in 1..(n + 1) : j \in 1..n \/ j = n + 1
  OBVIOUS
<1>2. CASE (\A i \in 1..n : t < points[i].time) /\ state = "unknown"
  BY <1>1, <1>2 DEF TellsAt
<1>3. ASSUME NEW i \in 1..n, points[i].time <= t, \A j \in (i + 1)..n : t < points[j].time,
             state = points[i].state
      PROVE  TellsAt(points, n + 1, t, state)
  <2>1. i \in 1..(n + 1) /\ \A j \in (i + 1)..(n + 1) : j \in (i + 1)..n \/ j = n + 1
    OBVIOUS
  <2> QED BY <1>3, <2>1 DEF TellsAt
<1> QED BY <1>2, <1>3 DEF TellsAt

\* The last change tells of every moment from its own on.
LEMMA TellsNow ==
  ASSUME NEW points \in Seq(Changes), NEW n \in 1..Len(points), NEW t \in Nat,
         points[n].time <= t
  PROVE  TellsAt(points, n, t, points[n].state)
<1>1. n \in 1..n /\ (n + 1)..n = {}
  OBVIOUS
<1> QED BY <1>1 DEF TellsAt

\* What is told of a moment is one thing.
LEMMA TellsOnce ==
  ASSUME NEW points \in Seq(Changes), NEW n \in 0..Len(points), NEW t \in Nat,
         NEW r, NEW s, TellsAt(points, n, t, r), TellsAt(points, n, t, s)
  PROVE  r = s
<1>1. \A i \in 1..n : points[i].time \in Nat
  <2> TAKE i \in 1..n
  <2>1. i \in 1..Len(points) /\ points[i] \in Changes
    OBVIOUS
  <2> QED BY <2>1 DEF Changes
<1>2. ASSUME NEW i \in 1..n, NEW j \in 1..n, points[i].time <= t, points[j].time <= t,
             \A k \in (i + 1)..n : t < points[k].time, \A k \in (j + 1)..n : t < points[k].time
      PROVE  i = j
  <2>1. ~(i < j)
    <3> SUFFICES ASSUME i < j PROVE FALSE
      OBVIOUS
    <3>1. j \in (i + 1)..n
      OBVIOUS
    <3> QED BY <1>1, <1>2, <3>1
  <2>2. ~(j < i)
    <3> SUFFICES ASSUME j < i PROVE FALSE
      OBVIOUS
    <3>1. i \in (j + 1)..n
      OBVIOUS
    <3> QED BY <1>1, <1>2, <3>1
  <2> QED BY <2>1, <2>2
<1>3. ASSUME NEW i \in 1..n, points[i].time <= t, \A k \in 1..n : t < points[k].time PROVE FALSE
  BY <1>1, <1>3
<1> QED BY <1>2, <1>3 DEF TellsAt

\* Spans that follow each other from a moment to another.
Tiles(spans, from, since) ==
  /\ IF spans = <<>> THEN since = from
     ELSE spans[1].start = from /\ spans[Len(spans)].end = since
  /\ \A i \in 1..Len(spans) :
       from <= spans[i].start /\ spans[i].start <= spans[i].end /\ spans[i].end <= since
  /\ \A i \in 1..(Len(spans) - 1) :
       spans[i].end = spans[i + 1].start /\ spans[i].state # spans[i + 1].state

\* What is folded of the first n changes.
FoldHolds(fold, points, n, from) ==
  /\ fold \in Folds /\ from <= fold.since
  /\ Tiles(fold.spans, from, fold.since)
  /\ fold.spans # <<>> => fold.spans[Len(fold.spans)].state # fold.current
  /\ fold.since = from \/ \E i \in 1..n : fold.since = points[i].time
  /\ (\A i \in 1..n : points[i].time <= from) => fold.spans = <<>> /\ fold.since = from
  /\ \A i \in 1..Len(fold.spans), t \in Nat :
       fold.spans[i].start <= t /\ t < fold.spans[i].end =>
         TellsAt(points, n, t, fold.spans[i].state)
  /\ \A t \in Nat : fold.since <= t => TellsAt(points, n, t, fold.current)

\* The parts of what FoldHolds says.
LEMMA FoldMade ==
  ASSUME NEW points, NEW n, NEW from, NEW spans \in Seq(Stretches), NEW since \in Nat,
         NEW current \in Known3, from <= since, Tiles(spans, from, since),
         spans # <<>> => spans[Len(spans)].state # current,
         since = from \/ \E i \in 1..n : since = points[i].time,
         (\A i \in 1..n : points[i].time <= from) => spans = <<>> /\ since = from,
         \A i \in 1..Len(spans), t \in Nat : spans[i].start <= t /\ t < spans[i].end =>
           TellsAt(points, n, t, spans[i].state),
         \A t \in Nat : since <= t => TellsAt(points, n, t, current)
  PROVE  FoldHolds([spans |-> spans, since |-> since, current |-> current], points, n, from)
BY DEF FoldHolds, Folds

\* Before the first change the window is open and nothing is known.
LEMMA FoldOpens ==
  ASSUME NEW points \in Seq(Changes), NEW from \in Nat
  PROVE  FoldHolds(OpenFold(from), points, 0, from)
<1>1. OpenFold(from) \in Folds
  BY DEF OpenFold, Folds, Known3
<1>2. \A t : TellsAt(points, 0, t, "unknown")
  BY DEF TellsAt
<1>3. Tiles(<<>>, from, from)
  BY DEF Tiles
<1> QED BY <1>1, <1>2, <1>3 DEF FoldHolds, OpenFold

\* A span more at the end.
LEMMA TilesOn ==
  ASSUME NEW spans \in Seq(Stretches), NEW from \in Nat, NEW since \in Nat, NEW end \in Nat,
         NEW state \in Known3, Tiles(spans, from, since), from <= since, since <= end,
         spans # <<>> => spans[Len(spans)].state # state
  PROVE  LET more == Append(spans, Span(since, end, state))
         IN /\ more \in Seq(Stretches) /\ Len(more) = Len(spans) + 1
            /\ \A i \in 1..Len(spans) : more[i] = spans[i]
            /\ more[Len(spans) + 1] = Span(since, end, state)
            /\ Tiles(more, from, end)
<1> DEFINE last == Span(since, end, state)
           more == Append(spans, last)
           L == Len(spans)
<1>1. last \in Stretches /\ last.start = since /\ last.end = end /\ last.state = state
  BY DEF Span, Stretches
<1> HIDE DEF last
<1>2. /\ more \in Seq(Stretches) /\ Len(more) = L + 1 /\ L \in Nat
      /\ \A i \in 1..L : more[i] = spans[i] /\ spans[i] \in Stretches
      /\ more[L + 1] = last
  BY <1>1
<1>3. spans = <<>> <=> L = 0
  BY EmptySeq
<1>4. Tiles(more, from, end)
  <2>1. more # <<>> /\ more[1].start = from /\ more[Len(more)].end = end
    <3>1. CASE L = 0
      <4>1. spans = <<>> /\ since = from /\ more[1] = last /\ Len(more) = 1
        BY <1>2, <1>3, <3>1 DEF Tiles
      <4> QED BY <1>1, <4>1
    <3>2. CASE L # 0
      <4>1. 1 \in 1..L /\ more[1] = spans[1] /\ spans[1].start = from
        BY <1>2, <1>3, <3>2 DEF Tiles
      <4> QED BY <1>1, <1>2, <4>1
    <3> QED BY <3>1, <3>2
  <2>2. ASSUME NEW i \in 1..Len(more)
        PROVE  from <= more[i].start /\ more[i].start <= more[i].end /\ more[i].end <= end
    <3>1. CASE i \in 1..L
      <4>1. more[i] = spans[i] /\ spans[i] \in Stretches
        BY <1>2, <3>1
      <4>2. from <= spans[i].start /\ spans[i].start <= spans[i].end /\ spans[i].end <= since
        BY <3>1 DEF Tiles
      <4>3. spans[i].end \in Nat
        BY <4>1 DEF Stretches
      <4> QED BY <4>1, <4>2, <4>3
    <3>2. CASE i = L + 1
      BY <1>1, <1>2, <3>2
    <3> QED BY <1>2, <3>1, <3>2
  <2>3. ASSUME NEW i \in 1..(Len(more) - 1)
        PROVE  more[i].end = more[i + 1].start /\ more[i].state # more[i + 1].state
    <3>1. CASE i \in 1..(L - 1)
      <4>1. i \in 1..L /\ i + 1 \in 1..L
        BY <1>2, <3>1
      <4>2. more[i] = spans[i] /\ more[i + 1] = spans[i + 1]
        BY <1>2, <4>1
      <4> QED BY <3>1, <4>2 DEF Tiles
    <3>2. CASE i = L
      <4>1. L # 0 /\ more[i] = spans[L] /\ more[i + 1] = last /\ spans # <<>>
        BY <1>2, <1>3, <3>2
      <4>2. spans[L].end = since
        BY <4>1 DEF Tiles
      <4> QED BY <1>1, <4>1, <4>2
    <3> QED BY <1>2, <3>1, <3>2
  <2> QED BY <2>1, <2>2, <2>3 DEF Tiles
<1> QED BY <1>2, <1>4 DEF last

\* A change more.
LEMMA FoldGoesOn ==
  ASSUME NEW points \in Seq(Changes), Ordered(points), NEW from \in Nat,
         NEW n \in 0..(Len(points) - 1), NEW fold, FoldHolds(fold, points, n, from)
  PROVE  FoldHolds(Fold(fold, points[n + 1], from), points, n + 1, from)
<1> DEFINE point == points[n + 1]
           after == Fold(fold, point, from)
<1>1. /\ Len(points) \in Nat /\ n \in Nat /\ n + 1 \in 1..Len(points)
      /\ \A i \in 1..Len(points) : points[i] \in Changes
      /\ \A i \in 1..n : i \in 1..Len(points) /\ i <= n + 1
  OBVIOUS
<1>2. /\ point \in Changes /\ point.time \in Nat /\ point.state \in Known3
      /\ \A i \in 1..n : points[i].time \in Nat /\ points[i].time <= point.time
  BY <1>1 DEF Changes, Known3, Ordered
<1>3. /\ fold \in Folds /\ fold.spans \in Seq(Stretches) /\ fold.since \in Nat
      /\ fold.current \in Known3 /\ from <= fold.since
      /\ fold = [spans |-> fold.spans, since |-> fold.since, current |-> fold.current]
  BY DEF FoldHolds, Folds
<1>4. \A i \in 1..Len(fold.spans) :
        /\ fold.spans[i] \in Stretches /\ fold.spans[i].end \in Nat
        /\ fold.spans[i].end <= fold.since
  <2>1. Tiles(fold.spans, from, fold.since)
    BY DEF FoldHolds
  <2> TAKE i \in 1..Len(fold.spans)
  <2>2. fold.spans[i] \in Stretches
    BY <1>3
  <2>3. fold.spans[i].end <= fold.since
    BY <2>1 DEF Tiles
  <2> QED BY <2>2, <2>3 DEF Stretches
<1>5. \A i \in 1..(n + 1) : i \in 1..n \/ i = n + 1
  BY <1>1
<1>6. \A t \in Nat : point.time <= t => TellsAt(points, n + 1, t, point.state)
  BY <1>1, TellsNow
<1>7. \A t \in Nat : \A s :
        t < point.time /\ TellsAt(points, n, t, s) => TellsAt(points, n + 1, t, s)
  BY TellsLater
<1>8. CASE point.time <= from
  <2>1. fold.spans = <<>> /\ fold.since = from
    BY <1>2, <1>8 DEF FoldHolds
  <2>2. after = [spans |-> <<>>, since |-> from, current |-> point.state]
    BY <1>3, <1>8, <2>1 DEF Fold
  <2>3. Tiles(<<>>, from, from)
    BY DEF Tiles
  <2>4. after \in Folds
    BY <1>2, <2>2 DEF Folds
  <2>5. \A t \in Nat : from <= t => TellsAt(points, n + 1, t, point.state)
    BY <1>2, <1>6, <1>8
  <2> DEFINE none == <<>>
  <2>6. none \in Seq(Stretches) /\ none = <<>> /\ \A i \in 1..Len(none) : FALSE
    OBVIOUS
  <2>7. FoldHolds([spans |-> none, since |-> from, current |-> point.state], points, n + 1, from)
    <3> HIDE DEF none, point, after
    <3>1. Tiles(none, from, from) /\ from <= from
      BY <2>3, <2>6
    <3> QED BY <1>2, <2>5, <2>6, <3>1, FoldMade
  <2> QED BY <2>2, <2>7
<1>9. CASE ~(point.time <= from) /\ point.state = fold.current
  <2>1. after = fold
    BY <1>9 DEF Fold
  <2>2. fold.since <= point.time
    BY <1>2, <1>3, <1>9 DEF FoldHolds
  <2>3. ASSUME NEW i \in 1..Len(fold.spans), NEW t \in Nat,
               fold.spans[i].start <= t, t < fold.spans[i].end
        PROVE  TellsAt(points, n + 1, t, fold.spans[i].state)
    <3>1. t < point.time
      BY <1>2, <1>3, <1>4, <2>2, <2>3
    <3>2. TellsAt(points, n, t, fold.spans[i].state)
      BY <2>3 DEF FoldHolds
    <3> QED BY <1>7, <3>1, <3>2
  <2>4. ASSUME NEW t \in Nat, fold.since <= t PROVE TellsAt(points, n + 1, t, fold.current)
    <3>1. CASE point.time <= t
      BY <1>6, <1>9, <3>1
    <3>2. CASE t < point.time
      <4>1. TellsAt(points, n, t, fold.current)
        BY <2>4 DEF FoldHolds
      <4> QED BY <1>7, <3>2, <4>1
    <3> QED BY <1>2, <3>1, <3>2
  <2>5. fold.since = from \/ \E i \in 1..(n + 1) : fold.since = points[i].time
    BY <1>1 DEF FoldHolds
  <2>6. (\A i \in 1..(n + 1) : points[i].time <= from) => fold.spans = <<>> /\ fold.since = from
    BY <1>1 DEF FoldHolds
  <2>7. /\ Tiles(fold.spans, from, fold.since)
        /\ fold.spans # <<>> => fold.spans[Len(fold.spans)].state # fold.current
    BY DEF FoldHolds
  <2>8. FoldHolds(fold, points, n + 1, from)
    BY <1>3, <2>3, <2>4, <2>5, <2>6, <2>7 DEF FoldHolds
  <2> QED BY <2>1, <2>8
<1>10. CASE ~(point.time <= from) /\ point.state # fold.current
  <2> DEFINE spans == Append(fold.spans, Span(fold.since, point.time, fold.current))
             L == Len(fold.spans)
  <2>1. after = [spans |-> spans, since |-> point.time, current |-> point.state]
    BY <1>10 DEF Fold
  <2>2. fold.since <= point.time /\ from <= point.time
    <3>1. from <= point.time
      BY <1>2, <1>10
    <3>2. fold.since = from \/ \E i \in 1..n : fold.since = points[i].time
      BY DEF FoldHolds
    <3> QED BY <1>2, <3>1, <3>2
  <2>3. /\ spans \in Seq(Stretches) /\ Len(spans) = L + 1
        /\ \A i \in 1..L : spans[i] = fold.spans[i]
        /\ spans[L + 1] = Span(fold.since, point.time, fold.current)
        /\ Tiles(spans, from, point.time)
    BY <1>2, <1>3, <2>2, TilesOn DEF FoldHolds
  <2>4. L \in Nat
    BY <1>3
  <2>5. after \in Folds
    BY <1>2, <2>1, <2>3 DEF Folds
  <2> HIDE DEF spans, L
  <2>6. spans[Len(spans)].state # point.state
    BY <1>10, <2>3 DEF Span
  <2>7. \E i \in 1..(n + 1) : point.time = points[i].time
    BY <1>1
  <2>8. ~\A i \in 1..(n + 1) : points[i].time <= from
    BY <1>1, <1>10
  <2>9. ASSUME NEW i \in 1..Len(spans), NEW t \in Nat, spans[i].start <= t, t < spans[i].end
        PROVE  TellsAt(points, n + 1, t, spans[i].state)
    <3>1. CASE i \in 1..L
      <4>1. spans[i] = fold.spans[i] /\ i \in 1..Len(fold.spans)
        BY <2>3, <3>1 DEF L
      <4>2. t < point.time
        <5> DEFINE end == fold.spans[i].end
        <5>1. end \in Nat /\ end <= fold.since /\ t < end
          BY <1>4, <2>9, <4>1
        <5> HIDE DEF end
        <5> QED BY <1>2, <1>3, <2>2, <5>1
      <4>3. TellsAt(points, n, t, spans[i].state)
        BY <2>9, <4>1 DEF FoldHolds
      <4> QED BY <1>7, <4>2, <4>3
    <3>2. CASE i = L + 1
      <4>1. spans[i].start = fold.since /\ spans[i].end = point.time /\ spans[i].state = fold.current
        BY <2>3, <3>2 DEF Span
      <4>2. TellsAt(points, n, t, fold.current)
        BY <2>9, <4>1 DEF FoldHolds
      <4> QED BY <1>7, <2>9, <4>1, <4>2
    <3> QED BY <2>3, <2>4, <3>1, <3>2
  <2>10. FoldHolds([spans |-> spans, since |-> point.time, current |-> point.state],
                   points, n + 1, from)
    <3> HIDE DEF after, point
    <3>1. spans # <<>> => spans[Len(spans)].state # point.state
      BY <2>6
    <3> QED BY <1>2, <1>6, <2>2, <2>3, <2>7, <2>8, <2>9, <3>1, FoldMade
  <2> QED BY <2>1, <2>10
<1> QED BY <1>8, <1>9, <1>10

\* All changes are folded.
LEMMA FoldsHold ==
  ASSUME NEW points \in Seq(Changes), Ordered(points), NEW from \in Nat
  PROVE  FoldHolds(Folded(points, from)[Len(points)], points, Len(points), from)
<1> DEFINE N == Len(points)
           f == Folded(points, from)
           good == {n \in 0..N : FoldHolds(f[n], points, n, from)}
<1>1. N \in Nat
  OBVIOUS
<1>2. f[0] = OpenFold(from) /\ \A n \in 1..N : f[n] = Fold(f[n - 1], points[n], from)
  BY FoldedSteps
<1> HIDE DEF f
<1>3. 0 \in good
  BY <1>1, <1>2, FoldOpens
<1>4. ASSUME NEW n \in 0..(N - 1), n \in good PROVE n + 1 \in good
  <2>1. n + 1 \in 1..N /\ (n + 1) - 1 = n /\ n + 1 \in 0..N
    BY <1>1
  <2>2. f[n + 1] = Fold(f[n], points[n + 1], from)
    BY <1>2, <2>1
  <2>3. FoldHolds(f[n], points, n, from)
    BY <1>4
  <2>4. FoldHolds(f[n + 1], points, n + 1, from)
    BY <2>2, <2>3, FoldGoesOn
  <2> QED BY <2>1, <2>4
<1>5. N \in good
  <2> HIDE DEF good, N
  <2>1. \A n \in 0..N : n \in good
    BY <1>1, <1>3, <1>4, CountingUp
  <2> QED BY <1>1, <2>1
<1> QED BY <1>5 DEF f

\* Spans that follow each other leave no moment out.
LEMMA TilesCover ==
  ASSUME NEW spans \in Seq(Stretches), spans # <<>>, NEW from \in Nat, NEW to \in Nat,
         Tiles(spans, from, to), NEW t \in Nat, from <= t, t < to
  PROVE  \E i \in 1..Len(spans) : spans[i].start <= t /\ t < spans[i].end
<1> DEFINE L == Len(spans)
           begun == {i \in 1..L : spans[i].start <= t}
           i == Max(begun)
<1>1. L \in Nat /\ 1 \in 1..L /\ \A j \in 1..L : spans[j] \in Stretches
  BY EmptySeq
<1>2. begun \in SUBSET Nat /\ IsFiniteSet(begun)
  <2>1. IsFiniteSet(1..L) /\ begun \subseteq 1..L
    BY <1>1, FS_Interval
  <2> QED BY <2>1, FS_Subset
<1>3. 1 \in begun
  BY <1>1 DEF Tiles
<1>4. i \in begun /\ \A j \in begun : j <= i
  BY <1>2, <1>3, MinAndMax
<1> HIDE DEF i
<1>5. i \in 1..L /\ spans[i].start <= t
  BY <1>4
<1>6. CASE i = L
  <2>1. spans[i].end = to
    BY <1>6 DEF Tiles
  <2> QED BY <1>5, <2>1
<1>7. CASE i # L
  <2>1. i \in 1..(L - 1) /\ i + 1 \in 1..L /\ ~(i + 1 <= i)
    BY <1>1, <1>5, <1>7
  <2>2. spans[i].end = spans[i + 1].start
    BY <2>1 DEF Tiles
  <2>3. ~(spans[i + 1].start <= t)
    BY <1>4, <2>1
  <2>4. spans[i + 1].start \in Nat
    BY <1>1, <2>1 DEF Stretches
  <2> QED BY <1>5, <2>2, <2>3, <2>4
<1> QED BY <1>6, <1>7

\* The spans of a person's changes, all of them before the window's end.
LEMMA SpansHold ==
  ASSUME NEW points \in Seq(Changes), Ordered(points), NEW from \in Nat, NEW to \in Nat, from < to,
         \A i \in 1..Len(points) : points[i].time < to
  PROVE  LET spans == Spans(points, from, to)
         IN /\ spans \in Seq(Stretches) /\ spans # <<>> /\ Tiles(spans, from, to)
            /\ \A i \in 1..Len(spans) : spans[i].start < to
            /\ \A i \in 1..Len(spans), t \in Nat : spans[i].start <= t /\ t < spans[i].end =>
                 TellsAt(points, Len(points), t, spans[i].state)
<1> DEFINE N == Len(points)
           whole == Folded(points, from)[N]
           spans == Append(whole.spans, Span(whole.since, to, whole.current))
           L == Len(whole.spans)
<1>1. FoldHolds(whole, points, N, from)
  BY FoldsHold
<1> HIDE DEF whole
<1>2. /\ whole \in Folds /\ whole.spans \in Seq(Stretches) /\ whole.since \in Nat
      /\ whole.current \in Known3 /\ from <= whole.since /\ L \in Nat
      /\ Tiles(whole.spans, from, whole.since)
      /\ whole.spans # <<>> => whole.spans[Len(whole.spans)].state # whole.current
  BY <1>1 DEF FoldHolds, Folds
<1>3. whole.since < to
  BY <1>1 DEF FoldHolds
<1>4. /\ spans \in Seq(Stretches) /\ Len(spans) = L + 1
      /\ \A i \in 1..L : spans[i] = whole.spans[i]
      /\ spans[L + 1] = Span(whole.since, to, whole.current)
      /\ Tiles(spans, from, to)
  <2>1. whole.since <= to
    BY <1>2, <1>3
  <2> QED BY <1>2, <2>1, TilesOn
<1>5. spans = Spans(points, from, to)
  BY DEF Spans, whole
<1> HIDE DEF spans, L
<1>6. \A i \in 1..Len(spans) : i \in 1..L \/ i = L + 1
  BY <1>2, <1>4
<1>7. ASSUME NEW i \in 1..Len(spans) PROVE spans[i].start < to
  <2>1. CASE i = L + 1
    BY <1>3, <1>4, <2>1 DEF Span
  <2>2. CASE i \in 1..L
    <3>1. spans[i] = whole.spans[i] /\ whole.spans[i] \in Stretches
      BY <1>2, <1>4, <2>2 DEF L
    <3>2. whole.spans[i].start <= whole.spans[i].end /\ whole.spans[i].end <= whole.since
      BY <1>2, <2>2 DEF Tiles, L
    <3>3. whole.spans[i].start \in Nat /\ whole.spans[i].end \in Nat
      BY <3>1 DEF Stretches
    <3> DEFINE a == whole.spans[i].start
               b == whole.spans[i].end
    <3>4. a \in Nat /\ b \in Nat /\ a <= b /\ b <= whole.since
      BY <3>2, <3>3
    <3> HIDE DEF a, b
    <3>5. a < to
      BY <1>2, <1>3, <3>4
    <3> QED BY <3>1, <3>5 DEF a
  <2> QED BY <1>6, <2>1, <2>2
<1>8. ASSUME NEW i \in 1..Len(spans), NEW t \in Nat, spans[i].start <= t, t < spans[i].end
      PROVE  TellsAt(points, N, t, spans[i].state)
  <2>1. CASE i = L + 1
    <3>1. whole.since <= t /\ spans[i].state = whole.current
      BY <1>4, <1>8, <2>1 DEF Span
    <3> QED BY <1>1, <3>1 DEF FoldHolds
  <2>2. CASE i \in 1..L
    <3>1. spans[i] = whole.spans[i] /\ i \in 1..Len(whole.spans)
      BY <1>4, <2>2 DEF L
    <3> QED BY <1>1, <1>8, <3>1 DEF FoldHolds
  <2> QED BY <1>6, <2>1, <2>2
<1>9. spans # <<>>
  BY <1>2, <1>4
<1> QED BY <1>4, <1>5, <1>7, <1>8, <1>9

-----------------------------------------------------------------------------
(* Presence: what the statement finds of a person's past *)

\* The changes found are in order and before the end; they tell of every moment of the window
\* what the table tells, and there are none only if that is nothing.
LEMMA PointsTell ==
  ASSUME NEW past \in Seq(Changes), Ordered(past), NEW from \in Nat, NEW to \in Nat, from < to
  PROVE  LET points == Points(past, from, to)
         IN /\ points \in Seq(Changes) /\ Ordered(points)
            /\ \A i \in 1..Len(points) : points[i].time < to
            /\ \A t \in from..(to - 1) : TellsAt(points, Len(points), t, Truth(past, from, t))
            /\ points = <<>> <=> \A t \in from..(to - 1) : Truth(past, from, t) = "unknown"
<1> DEFINE R == 1..Len(past)
           before == {i \in R : past[i].time + LookBack >= from /\ past[i].time < from}
           inside == {i \in R : past[i].time \in from..(to - 1)}
           places == Opening(past, from) \cup Inside(past, from, to)
           points == Points(past, from, to)
           told(t) == {i \in R : past[i].time <= t /\ past[i].time + LookBack >= from}
<1>1. /\ Len(past) \in Nat /\ DOMAIN past = R /\ LookBack \in Nat
      /\ \A i \in R : past[i] \in Changes /\ past[i].time \in Nat /\ past[i].state \in {"home", "away"}
  <2>1. LookBack \in Nat
    BY PresenceAssumption
  <2>2. Len(past) \in Nat /\ DOMAIN past = R /\ \A i \in R : past[i] \in Changes
    OBVIOUS
  <2> QED BY <2>1, <2>2 DEF Changes
<1>2. ASSUME NEW P \in SUBSET R PROVE P \in SUBSET Nat /\ IsFiniteSet(P)
  <2>1. IsFiniteSet(R) /\ R \subseteq Nat
    BY <1>1, FS_Interval
  <2> HIDE DEF R
  <2> QED BY <2>1, FS_Subset
<1>3. /\ Opening(past, from) = IF before = {} THEN {} ELSE {Max(before)}
      /\ Inside(past, from, to) = inside
  BY <1>1 DEF Opening, Inside
<1>4. before # {} => Max(before) \in before /\ \A i \in before : i <= Max(before)
  <2>1. before \in SUBSET R
    OBVIOUS
  <2> HIDE DEF before
  <2> QED BY <1>2, <2>1, MinAndMax
<1>5. places \in SUBSET R /\ \A i \in places : past[i].time < to /\ past[i].time + LookBack >= from
  <2>1. ASSUME NEW i \in before
        PROVE  i \in R /\ past[i].time < to /\ past[i].time + LookBack >= from
    BY <1>1
  <2>2. ASSUME NEW i \in inside
        PROVE  i \in R /\ past[i].time < to /\ past[i].time + LookBack >= from
    BY <1>1
  <2>3. \A i \in places : i \in before \/ i \in inside
    <3> HIDE DEF before, inside
    <3> QED BY <1>3, <1>4
  <2> HIDE DEF before, inside, places
  <2> QED BY <2>1, <2>2, <2>3
<1>6. \A t \in from..(to - 1) :
        Truth(past, from, t) = IF told(t) = {} THEN "unknown" ELSE past[Max(told(t))].state
  BY <1>1 DEF Truth
<1>7. ASSUME NEW t \in from..(to - 1), told(t) # {}
      PROVE  /\ Max(told(t)) \in told(t) /\ \A i \in told(t) : i <= Max(told(t))
             /\ Max(told(t)) \in places
  <2> DEFINE m == Max(told(t))
  <2>1. told(t) \in SUBSET R
    OBVIOUS
  <2>2. m \in told(t) /\ \A i \in told(t) : i <= m
    <3> HIDE DEF told
    <3> QED BY <1>2, <1>7, <2>1, MinAndMax
  <2> HIDE DEF m
  <2>3. m \in R /\ past[m].time <= t /\ past[m].time + LookBack >= from
    BY <2>2
  <2>4. ASSUME past[m].time >= from PROVE m \in places
    <3>1. m \in inside
      BY <1>1, <2>3, <2>4
    <3>2. m \in places
      <4> HIDE DEF inside
      <4> QED BY <1>3, <3>1
    <3> QED BY <3>2
  <2>5. ASSUME past[m].time < from PROVE m \in places
    <3>1. m \in before /\ before \subseteq told(t)
      BY <1>1, <2>3, <2>5
    <3>2. Max(before) \in before /\ m <= Max(before) /\ Max(before) <= m
      BY <1>4, <2>2, <3>1
    <3>3. Max(before) = m
      <4>1. Max(before) \in Nat /\ m \in Nat
        BY <2>3, <3>2
      <4> QED BY <3>2, <4>1
    <3>4. m \in places
      <4> HIDE DEF before, inside
      <4> QED BY <1>3, <3>1, <3>3
    <3> QED BY <3>4
  <2>6. past[m].time >= from \/ past[m].time < from
    BY <1>1, <2>3
  <2> QED BY <2>2, <2>4, <2>5, <2>6 DEF m
<1>8. CASE places = {}
  <2>1. points = <<>>
    BY <1>8 DEF Points, RowsAt
  <2>2. \A t \in from..(to - 1) : told(t) = {} /\ Truth(past, from, t) = "unknown"
    BY <1>6, <1>7, <1>8
  <2>3. Len(<<>>) = 0 /\ <<>> \in Seq(Changes) /\ 1..0 = {}
    OBVIOUS
  <2> HIDE DEF points, places, told
  <2>4. \A t \in from..(to - 1) : TellsAt(<<>>, 0, t, Truth(past, from, t))
    BY <2>2, <2>3 DEF TellsAt
  <2>5. Ordered(<<>>)
    BY <2>3 DEF Ordered
  <2> QED BY <2>1, <2>2, <2>3, <2>4, <2>5 DEF points
<1>9. CASE places # {}
  <2> DEFINE a == Min(places)
             b == Max(places)
             N == b - a + 1
  <2>1. a \in places /\ b \in places /\ \A i \in places : a <= i /\ i <= b
    <3> HIDE DEF places
    <3> QED BY <1>2, <1>5, <1>9, MinAndMax
  <2>2. points = SubSeq(past, a, b)
    BY <1>9 DEF Points, RowsAt
  <2> HIDE DEF a, b, places, points
  <2>3. a \in R /\ b \in R /\ a <= b /\ N \in Nat /\ N >= 1
    BY <1>1, <1>5, <2>1
  <2>4. /\ points \in Seq(Changes) /\ Len(points) = N
        /\ \A k \in 1..N : points[k] = past[a + k - 1] /\ a + k - 1 \in R
    <3>1. SubSeq(past, a, b) \in Seq(Changes)
      BY <1>1, <2>3, SubSeqProperties
    <3>2. Len(points) = N /\ \A k \in 1..N : points[k] = past[a + k - 1]
      BY <1>1, <2>2, <2>3, SubSeqProperties
    <3>3. \A k \in 1..N : a + k - 1 \in R
      BY <1>1, <2>3
    <3> QED BY <2>2, <3>1, <3>2, <3>3
  <2> HIDE DEF N
  <2>5. Ordered(points)
    <3> SUFFICES ASSUME NEW i \in 1..N, NEW j \in 1..N, i <= j PROVE points[i].time <= points[j].time
      BY <2>4 DEF Ordered
    <3>1. a + i - 1 <= a + j - 1
      BY <2>3
    <3> QED BY <2>4, <3>1 DEF Ordered
  <2>6. ASSUME NEW k \in 1..N
        PROVE  /\ points[k].time = past[a + k - 1].time /\ points[k].time < to
               /\ points[k].time + LookBack >= from
    <3>1. /\ points[k] = past[a + k - 1] /\ a + k - 1 \in R /\ a <= a + k - 1 /\ a + k - 1 <= b
          /\ past[a + k - 1].time \in Nat
      BY <1>1, <2>3, <2>4 DEF N
    <3>2. past[a].time <= past[a + k - 1].time /\ past[a + k - 1].time <= past[b].time
      BY <2>3, <3>1 DEF Ordered
    <3>3. past[b].time < to /\ past[a].time + LookBack >= from
          /\ past[a].time \in Nat /\ past[b].time \in Nat
      BY <1>1, <1>5, <2>1, <2>3
    <3>4. past[a + k - 1].time < to /\ past[a + k - 1].time + LookBack >= from
      <4> DEFINE x == past[a + k - 1].time
                 y == past[a].time
                 z == past[b].time
      <4>1. x \in Nat /\ y \in Nat /\ z \in Nat /\ y <= x /\ x <= z /\ z < to /\ y + LookBack >= from
        BY <3>1, <3>2, <3>3
      <4> HIDE DEF x, y, z
      <4>2. x < to /\ x + LookBack >= from
        BY <1>1, <4>1
      <4> QED BY <4>2 DEF x
    <3> QED BY <3>1, <3>4
  <2>7. ASSUME NEW t \in from..(to - 1), told(t) = {} PROVE TellsAt(points, N, t, "unknown")
    <3>1. ASSUME NEW k \in 1..N PROVE t < points[k].time
      <4>1. a + k - 1 \notin told(t) /\ a + k - 1 \in R
        BY <2>4, <2>7
      <4>2. ~(past[a + k - 1].time <= t)
        BY <2>6, <4>1
      <4>3. points[k].time \in Nat
        BY <1>1, <2>6, <4>1
      <4> QED BY <4>2, <4>3, <2>6
    <3> QED BY <3>1 DEF TellsAt
  <2>8. ASSUME NEW t \in from..(to - 1), told(t) # {}
        PROVE  TellsAt(points, N, t, past[Max(told(t))].state)
    <3> DEFINE m == Max(told(t))
               k == m - a + 1
    <3>1. m \in told(t) /\ m \in places /\ \A i \in told(t) : i <= m
      BY <1>7, <2>8
    <3> HIDE DEF m
    <3>2. m \in R /\ a <= m /\ m <= b /\ past[m].time <= t
      BY <2>1, <3>1
    <3>3. k \in 1..N /\ a + k - 1 = m
      BY <2>3, <3>2 DEF N
    <3> HIDE DEF k
    <3>4. points[k].time <= t /\ points[k].state = past[m].state
      BY <2>4, <3>2, <3>3
    <3>5. ASSUME NEW j \in (k + 1)..N PROVE t < points[j].time
      <4>1. j \in 1..N /\ j > k
        BY <2>3, <3>3 DEF N
      <4>2. a + j - 1 \in R /\ ~(a + j - 1 <= m)
        BY <2>3, <2>4, <3>3, <4>1
      <4>3. a + j - 1 \notin told(t)
        BY <3>1, <4>2
      <4>4. ~(past[a + j - 1].time <= t)
        BY <2>6, <4>1, <4>2, <4>3
      <4> QED BY <1>1, <2>6, <4>1, <4>2, <4>4
    <3> QED BY <3>3, <3>4, <3>5 DEF TellsAt, m
  <2>9. \A t \in from..(to - 1) : TellsAt(points, N, t, Truth(past, from, t))
    <3> HIDE DEF told
    <3> QED BY <1>6, <2>7, <2>8
  <2>10. points # <<>>
    BY <2>3, <2>4
  <2>11. Truth(past, from, to - 1) # "unknown" /\ to - 1 \in from..(to - 1)
    <3>1. to - 1 \in from..(to - 1)
      OBVIOUS
    <3>2. a \in told(to - 1)
      BY <1>1, <1>5, <2>1, <2>3
    <3>3. Max(told(to - 1)) \in R
      BY <1>7, <3>1, <3>2
    <3>4. Truth(past, from, to - 1) = past[Max(told(to - 1))].state
      BY <1>6, <3>1, <3>2
    <3> HIDE DEF told
    <3> QED BY <1>1, <3>1, <3>3, <3>4
  <2> QED BY <2>4, <2>5, <2>6, <2>9, <2>10, <2>11 DEF points
<1> QED BY <1>8, <1>9

\* Spans that tell what a table tells.
SpansTell(spans, past, from, to) ==
  /\ spans \in Seq(Stretches) /\ spans # <<>> /\ Tiles(spans, from, to)
  /\ \A i \in 1..Len(spans) : spans[i].start < to
  /\ \A i \in 1..Len(spans), t \in from..(to - 1) :
       spans[i].start <= t /\ t < spans[i].end => spans[i].state = Truth(past, from, t)

\* The spans of a person who is listed.
LEMMA PersonTold ==
  ASSUME NEW past \in Seq(Changes), Ordered(past), NEW from \in Nat, NEW to \in Nat, from < to
  PROVE  SpansTell(Spans(Points(past, from, to), from, to), past, from, to)
<1> DEFINE points == Points(past, from, to)
           spans == Spans(points, from, to)
<1>1. /\ points \in Seq(Changes) /\ Ordered(points)
      /\ \A i \in 1..Len(points) : points[i].time < to
      /\ \A t \in from..(to - 1) : TellsAt(points, Len(points), t, Truth(past, from, t))
  BY PointsTell
<1> HIDE DEF points
<1>2. /\ spans \in Seq(Stretches) /\ spans # <<>> /\ Tiles(spans, from, to)
      /\ \A i \in 1..Len(spans) : spans[i].start < to
      /\ \A i \in 1..Len(spans), t \in Nat : spans[i].start <= t /\ t < spans[i].end =>
           TellsAt(points, Len(points), t, spans[i].state)
  BY <1>1, SpansHold
<1> HIDE DEF spans
<1>3. ASSUME NEW i \in 1..Len(spans), NEW t \in from..(to - 1),
             spans[i].start <= t, t < spans[i].end
      PROVE  spans[i].state = Truth(past, from, t)
  <2>1. t \in Nat /\ Len(points) \in 0..Len(points)
    BY <1>1
  <2>2. TellsAt(points, Len(points), t, spans[i].state)
    BY <1>2, <1>3, <2>1
  <2>3. TellsAt(points, Len(points), t, Truth(past, from, t))
    BY <1>1
  <2> QED BY <1>1, <2>1, <2>2, <2>3, TellsOnce
<1> QED BY <1>2, <1>3 DEF SpansTell, spans, points

\* One of the spans is of a moment and says what the table tells of it.
ToldAt(spans, past, from, t) ==
  \E i \in 1..Len(spans) :
    spans[i].start <= t /\ t < spans[i].end /\ spans[i].state = Truth(past, from, t)

\* What is looked up in such spans is what the table tells.
LEMMA StateTold ==
  ASSUME NEW spans, NEW past, NEW from \in Nat, NEW to \in Nat, SpansTell(spans, past, from, to),
         NEW t \in from..(to - 1)
  PROVE  StateAt(spans, t) = Truth(past, from, t) /\ ToldAt(spans, past, from, t)
<1> DEFINE at(i) == spans[i].start <= t /\ t < spans[i].end
           k == CHOOSE i \in 1..Len(spans) : at(i)
<1>1. spans \in Seq(Stretches) /\ spans # <<>> /\ Tiles(spans, from, to) /\ DOMAIN spans = 1..Len(spans)
  BY DEF SpansTell
<1>2. t \in Nat /\ from <= t /\ t < to
  OBVIOUS
<1>3. \E i \in 1..Len(spans) : at(i)
  BY <1>1, <1>2, TilesCover
<1>4. k \in 1..Len(spans) /\ at(k)
  BY <1>3
<1>5. StateAt(spans, t) = spans[k].state
  BY <1>1 DEF StateAt
<1> HIDE DEF k
<1>6. spans[k].state = Truth(past, from, t)
  BY <1>4 DEF SpansTell
<1> QED BY <1>4, <1>5, <1>6 DEF ToldAt

-----------------------------------------------------------------------------
(* Presence: the empty house *)

\* The stretches, one cut after the other.
StepByStep(spansOf, cuts, to, N) ==
  /\ Emptied(spansOf, cuts, to)[0] = <<>>
  /\ \A n \in 1..N :
       Emptied(spansOf, cuts, to)[n] =
         IF AllAway(spansOf, cuts[n])
         THEN Extend(Emptied(spansOf, cuts, to)[n - 1], cuts[n],
                     IF n < N THEN cuts[n + 1] ELSE to)
         ELSE Emptied(spansOf, cuts, to)[n - 1]

LEMMA EmptiedSteps ==
  ASSUME NEW spansOf, NEW N \in Nat, NEW cuts \in [1..N -> Nat], NEW to
  PROVE  StepByStep(spansOf, cuts, to, N)
<1> DEFINE finish(n) == IF n < N THEN cuts[n + 1] ELSE to
           next(e, n) == IF AllAway(spansOf, cuts[n]) THEN Extend(e, cuts[n], finish(n)) ELSE e
           Is(g, m) == g = [n \in 0..m |-> IF n = 0 THEN <<>> ELSE next(g[n - 1], n)]
           good == {m \in 0..N : \E g : Is(g, m)}
<1>1. Len(cuts) = N
  BY LenProperties
<1>2. Emptied(spansOf, cuts, to) = CHOOSE g : Is(g, N)
  BY <1>1 DEF Emptied
<1> HIDE DEF next
<1>3. 0 \in good
  <2>1. Is([n \in 0..0 |-> <<>>], 0)
    OBVIOUS
  <2> HIDE DEF Is
  <2> QED BY <2>1
<1>4. ASSUME NEW m \in 0..(N - 1), m \in good PROVE m + 1 \in good
  <2>1. PICK g : Is(g, m)
    BY <1>4
  <2> DEFINE h == [n \in 0..(m + 1) |-> IF n = m + 1 THEN next(g[m], m + 1) ELSE g[n]]
  <2>2. \A n \in 0..m : g[n] = IF n = 0 THEN <<>> ELSE next(g[n - 1], n)
    BY <2>1
  <2>3. m \in Nat /\ m + 1 \in 0..N
    BY <1>4
  <2>4. \A n \in 0..(m + 1) : h[n] = IF n = 0 THEN <<>> ELSE next(h[n - 1], n)
    <3> TAKE n \in 0..(m + 1)
    <3>1. CASE n = m + 1
      <4>1. h[n] = next(g[m], m + 1) /\ n - 1 \in 0..(m + 1) /\ n - 1 = m /\ n # 0
            /\ h[n - 1] = g[m]
        BY <2>3, <3>1
      <4> QED BY <3>1, <4>1
    <3>2. CASE n \in 0..m /\ n # 0
      <4>1. n - 1 \in 0..(m + 1) /\ n - 1 # m + 1 /\ n # m + 1
        BY <2>3, <3>2
      <4>2. h[n] = g[n] /\ h[n - 1] = g[n - 1]
        BY <4>1
      <4> QED BY <2>2, <3>2, <4>2
    <3>3. CASE n = 0
      <4>1. h[n] = g[n] /\ n \in 0..m
        BY <2>3, <3>3
      <4> QED BY <2>2, <3>3, <4>1
    <3> QED BY <2>3, <3>1, <3>2, <3>3
  <2>5. Is(h, m + 1)
    BY <2>4
  <2> QED BY <2>3, <2>5
<1>5. N \in good
  <2> HIDE DEF good
  <2>1. \A n \in 0..N : n \in good
    BY <1>3, <1>4, CountingUp
  <2> QED BY <2>1
<1>6. Is(Emptied(spansOf, cuts, to), N)
  <2>1. \E g : Is(g, N)
    BY <1>5
  <2> HIDE DEF Is
  <2> QED BY <1>2, <2>1
<1> QED BY <1>6 DEF next, StepByStep

\* Where no span starts nothing changes.
LEMMA NothingChanges ==
  ASSUME NEW spans, NEW past, NEW from \in Nat, NEW to \in Nat, SpansTell(spans, past, from, to),
         NEW cut \in from..(to - 1), NEW t \in cut..(to - 1),
         \A i \in 1..Len(spans) : ~(cut < spans[i].start /\ spans[i].start <= t)
  PROVE  Truth(past, from, t) = Truth(past, from, cut)
<1>1. /\ spans \in Seq(Stretches) /\ spans # <<>> /\ Tiles(spans, from, to) /\ Len(spans) \in Nat
      /\ \A i \in 1..Len(spans) : spans[i].start \in Nat /\ spans[i].end \in Nat
  <2>1. spans \in Seq(Stretches) /\ spans # <<>> /\ Tiles(spans, from, to)
    BY DEF SpansTell
  <2>2. \A i \in 1..Len(spans) : spans[i] \in Stretches
    BY <2>1
  <2> QED BY <2>1, <2>2 DEF Stretches
<1>2. PICK i \in 1..Len(spans) :
        spans[i].start <= cut /\ cut < spans[i].end /\ spans[i].state = Truth(past, from, cut)
  <2>1. ToldAt(spans, past, from, cut)
    BY StateTold
  <2> QED BY <2>1 DEF ToldAt
<1>3. t < spans[i].end
  <2> SUFFICES ASSUME ~(t < spans[i].end) PROVE FALSE
    OBVIOUS
  <2>1. i # Len(spans)
    <3>1. spans[Len(spans)].end = to
      BY <1>1 DEF Tiles
    <3> QED BY <3>1
  <2>2. i \in 1..(Len(spans) - 1) /\ i + 1 \in 1..Len(spans)
    BY <1>1, <2>1
  <2>3. spans[i + 1].start = spans[i].end
    BY <1>1, <2>2 DEF Tiles
  <2> QED BY <1>1, <1>2, <2>2, <2>3
<1>4. t \in from..(to - 1) /\ spans[i].start <= t
  BY <1>1, <1>2
<1>5. spans[i].state = Truth(past, from, t)
  BY <1>3, <1>4 DEF SpansTell
<1> QED BY <1>2, <1>5

\* Stretches apart from each other that cover the moments of a set, as far as told.
Reached(empty, t) == \E i \in 1..Len(empty) : empty[i].start <= t /\ t < empty[i].end

EmptyHolds(empty, proven, from, told) ==
  /\ empty \in Seq(Stretches)
  /\ \A i \in 1..Len(empty) :
       from <= empty[i].start /\ empty[i].start < empty[i].end /\ empty[i].end <= told
  /\ \A i \in 1..(Len(empty) - 1) : empty[i].end < empty[i + 1].start
  /\ \A t \in from..(told - 1) : Reached(empty, t) <=> t \in proven

\* From one cut to the next the house is empty.
LEMMA EmptyGoesOn ==
  ASSUME NEW empty, NEW proven, NEW from \in Nat, NEW cut \in Nat, NEW finish \in Nat,
         EmptyHolds(empty, proven, from, cut), from <= cut, cut < finish,
         \A t \in cut..(finish - 1) : t \in proven
  PROVE  EmptyHolds(Extend(empty, cut, finish), proven, from, finish)
<1> DEFINE L == Len(empty)
           more == Extend(empty, cut, finish)
<1>1. /\ empty \in Seq(Stretches) /\ L \in Nat
      /\ \A i \in 1..L : empty[i] \in Stretches /\ empty[i].start \in Nat /\ empty[i].end \in Nat
  <2>1. empty \in Seq(Stretches)
    BY DEF EmptyHolds
  <2>2. L \in Nat /\ \A i \in 1..L : empty[i] \in Stretches
    BY <2>1
  <2> QED BY <2>1, <2>2 DEF Stretches
<1>2. /\ \A i \in 1..L :
           from <= empty[i].start /\ empty[i].start < empty[i].end /\ empty[i].end <= cut
      /\ \A i \in 1..(L - 1) : empty[i].end < empty[i + 1].start
      /\ \A t \in from..(cut - 1) : Reached(empty, t) <=> t \in proven
  BY DEF EmptyHolds
<1>3. \A t \in from..(finish - 1) : t \in from..(cut - 1) \/ t \in cut..(finish - 1)
  OBVIOUS
<1>4. CASE empty # <<>> /\ empty[L].end = cut
  <2>1. L \in 1..L
    BY <1>1, <1>4, EmptySeq
  <2> DEFINE last == [empty[L] EXCEPT !.end = finish]
  <2>2. more = [empty EXCEPT ![L] = last]
    BY <1>4 DEF Extend
  <2>3. last \in Stretches /\ last.start = empty[L].start /\ last.end = finish
    BY <1>1, <2>1 DEF Stretches
  <2> HIDE DEF last
  <2>4. /\ more \in Seq(Stretches) /\ Len(more) = L /\ more[L] = last
        /\ \A i \in 1..(L - 1) : more[i] = empty[i]
    BY <1>1, <2>1, <2>2, <2>3
  <2> HIDE DEF more, L
  <2>5. \A i \in 1..L : i \in 1..(L - 1) \/ i = L
    BY <1>1
  <2>6. ASSUME NEW i \in 1..L
        PROVE  from <= more[i].start /\ more[i].start < more[i].end /\ more[i].end <= finish
    <3>1. more[i].start = empty[i].start /\ (more[i].end = empty[i].end \/ more[i].end = finish)
      BY <2>3, <2>4, <2>5
    <3> QED BY <1>1, <1>2, <3>1
  <2>7. ASSUME NEW i \in 1..(L - 1) PROVE more[i].end < more[i + 1].start
    <3>1. i + 1 \in 1..L /\ more[i] = empty[i]
      BY <1>1, <2>4
    <3>2. more[i + 1].start = empty[i + 1].start
      BY <2>3, <2>4, <2>5, <3>1
    <3> QED BY <1>2, <3>1, <3>2
  <2>8. ASSUME NEW t \in from..(finish - 1) PROVE Reached(more, t) <=> t \in proven
    <3>1. CASE t \in from..(cut - 1)
      <4>1. \A i \in 1..L : (more[i].start <= t /\ t < more[i].end)
                              <=> (empty[i].start <= t /\ t < empty[i].end)
        <5> TAKE i \in 1..L
        <5>1. CASE i = L
          BY <1>4, <2>3, <2>4, <3>1, <5>1 DEF L
        <5>2. CASE i # L
          BY <2>4, <2>5, <5>2
        <5> QED BY <5>1, <5>2
      <4>2. Reached(more, t) <=> Reached(empty, t)
        BY <2>4, <4>1 DEF Reached, L
      <4> QED BY <1>2, <3>1, <4>2
    <3>2. CASE t \in cut..(finish - 1)
      <4>1. empty[L].start < cut
        BY <1>1, <1>2, <1>4, <2>1 DEF L
      <4>2. more[L].start <= t /\ t < more[L].end
        BY <1>1, <2>1, <2>3, <2>4, <3>2, <4>1
      <4> QED BY <2>1, <2>4, <3>2, <4>2 DEF Reached
    <3> QED BY <1>3, <3>1, <3>2
  <2> QED BY <2>4, <2>6, <2>7, <2>8 DEF EmptyHolds, more
<1>5. CASE ~(empty # <<>> /\ empty[L].end = cut)
  <2> DEFINE last == Span(cut, finish, "away")
  <2>1. more = Append(empty, last)
    BY <1>5 DEF Extend
  <2>2. last \in Stretches /\ last.start = cut /\ last.end = finish
    BY DEF Span, Stretches, Known3
  <2> HIDE DEF last
  <2>3. /\ more \in Seq(Stretches) /\ Len(more) = L + 1 /\ more[L + 1] = last
        /\ \A i \in 1..L : more[i] = empty[i]
    BY <1>1, <2>1, <2>2
  <2>4. L # 0 => empty[L].end < cut
    <3> SUFFICES ASSUME L # 0 PROVE empty[L].end < cut
      OBVIOUS
    <3>1. L \in 1..L /\ empty # <<>>
      BY <1>1
    <3> QED BY <1>1, <1>2, <1>5, <3>1
  <2> HIDE DEF more, L
  <2>5. \A i \in 1..(L + 1) : i \in 1..L \/ i = L + 1
    BY <1>1
  <2>6. ASSUME NEW i \in 1..(L + 1)
        PROVE  from <= more[i].start /\ more[i].start < more[i].end /\ more[i].end <= finish
    <3>1. CASE i \in 1..L
      <4> DEFINE a == empty[i].start
                 b == empty[i].end
      <4>1. more[i] = empty[i] /\ a \in Nat /\ b \in Nat
        BY <1>1, <2>3, <3>1 DEF L
      <4>2. from <= a /\ a < b /\ b <= cut
        BY <1>2, <3>1 DEF L
      <4> HIDE DEF a, b
      <4>3. from <= a /\ a < b /\ b <= finish
        BY <4>1, <4>2
      <4> QED BY <4>1, <4>3 DEF a, b
    <3>2. CASE i = L + 1
      BY <2>2, <2>3, <3>2
    <3> QED BY <2>5, <3>1, <3>2
  <2>7. ASSUME NEW i \in 1..((L + 1) - 1) PROVE more[i].end < more[i + 1].start
    <3>1. CASE i \in 1..(L - 1)
      BY <1>1, <1>2, <2>3, <3>1
    <3>2. CASE i = L
      BY <1>1, <2>2, <2>3, <2>4, <3>2
    <3> QED BY <1>1, <3>1, <3>2
  <2>8. ASSUME NEW t \in from..(finish - 1) PROVE Reached(more, t) <=> t \in proven
    <3>1. CASE t \in from..(cut - 1)
      <4>1. ~(more[L + 1].start <= t)
        BY <2>2, <2>3, <3>1
      <4>2. Reached(more, t) <=> Reached(empty, t)
        <5>1. \A i \in 1..L : i \in 1..(L + 1)
          BY <1>1
        <5> QED BY <2>3, <2>5, <4>1, <5>1 DEF Reached, L
      <4> QED BY <1>2, <3>1, <4>2
    <3>2. CASE t \in cut..(finish - 1)
      <4>1. L + 1 \in 1..(L + 1) /\ more[L + 1].start <= t /\ t < more[L + 1].end
        BY <1>1, <2>2, <2>3, <3>2
      <4> QED BY <2>3, <3>2, <4>1 DEF Reached
    <3> QED BY <1>3, <3>1, <3>2
  <2> QED BY <2>3, <2>6, <2>7, <2>8 DEF EmptyHolds, more
<1> QED BY <1>4, <1>5

\* From one cut to the next somebody is not known to be out.
LEMMA EmptyStays ==
  ASSUME NEW empty, NEW proven, NEW from \in Nat, NEW cut \in Nat, NEW finish \in Nat,
         EmptyHolds(empty, proven, from, cut), from <= cut, cut < finish,
         \A t \in cut..(finish - 1) : t \notin proven
  PROVE  EmptyHolds(empty, proven, from, finish)
<1>1. /\ empty \in Seq(Stretches) /\ Len(empty) \in Nat
      /\ \A i \in 1..Len(empty) : empty[i].end \in Nat
  <2>1. empty \in Seq(Stretches)
    BY DEF EmptyHolds
  <2>2. Len(empty) \in Nat /\ \A i \in 1..Len(empty) : empty[i] \in Stretches
    BY <2>1
  <2> QED BY <2>1, <2>2 DEF Stretches
<1>2. \A i \in 1..Len(empty) : empty[i].end <= finish
  <2> TAKE i \in 1..Len(empty)
  <2>1. empty[i].end <= cut
    BY DEF EmptyHolds
  <2> QED BY <1>1, <2>1
<1>3. ASSUME NEW t \in from..(finish - 1) PROVE Reached(empty, t) <=> t \in proven
  <2>1. CASE t \in from..(cut - 1)
    BY <2>1 DEF EmptyHolds
  <2>2. CASE t \in cut..(finish - 1)
    <3>1. ASSUME NEW i \in 1..Len(empty) PROVE ~(t < empty[i].end)
      <4>1. empty[i].end <= cut
        BY DEF EmptyHolds
      <4> QED BY <1>1, <2>2, <4>1
    <3> QED BY <2>2, <3>1 DEF Reached
  <2> QED BY <2>1, <2>2
<1> QED BY <1>2, <1>3 DEF EmptyHolds

\* The moments at which somebody is listed and what is told of everybody listed is that he is out.
AwayMoments(listed, rowsOf, from, to) ==
  {t \in from..(to - 1) : listed # {} /\ \A p \in listed : Truth(rowsOf[p], from, t) = "away"}

\* The stretches told of some persons' spans are where everybody is away.
LEMMA HouseHolds ==
  ASSUME NEW listed, IsFiniteSet(listed), NEW spansOf, DOMAIN spansOf = listed,
         NEW rowsOf, NEW from \in Nat, NEW to \in Nat, from < to,
         \A p \in listed : SpansTell(spansOf[p], rowsOf[p], from, to)
  PROVE  EmptyHolds(HouseEmpty(spansOf, to), AwayMoments(listed, rowsOf, from, to), from, to)
<1> DEFINE proven == {t \in from..(to - 1) :
                        listed # {} /\ \A p \in listed : Truth(rowsOf[p], from, t) = "away"}
           all == UNION {Starts(spansOf[p]) : p \in listed}
           cuts == Ascending(all)
           N == Cardinality(all)
           e(n) == Emptied(spansOf, cuts, to)[n]
           finish(n) == IF n < N THEN cuts[n + 1] ELSE to
<1>1. ASSUME NEW p \in listed
      PROVE  /\ Starts(spansOf[p]) = {spansOf[p][i].start : i \in 1..Len(spansOf[p])}
             /\ \A i \in 1..Len(spansOf[p]) : spansOf[p][i].start \in from..(to - 1)
             /\ from \in Starts(spansOf[p])
  <2> DEFINE spans == spansOf[p]
  <2>1. SpansTell(spans, rowsOf[p], from, to)
    OBVIOUS
  <2> HIDE DEF spans
  <2>2. /\ spans \in Seq(Stretches) /\ spans # <<>> /\ Tiles(spans, from, to)
        /\ \A i \in 1..Len(spans) : spans[i].start < to
    BY <2>1 DEF SpansTell
  <2>3. DOMAIN spans = 1..Len(spans) /\ 1 \in 1..Len(spans)
    BY <2>2
  <2>4. \A i \in 1..Len(spans) : spans[i].start \in Nat /\ from <= spans[i].start
    <3>1. \A i \in 1..Len(spans) : spans[i] \in Stretches
      BY <2>2
    <3> QED BY <2>2, <3>1 DEF Tiles, Stretches
  <2>5. Starts(spans) = {spans[i].start : i \in 1..Len(spans)}
    BY <2>3 DEF Starts
  <2>6. spans[1].start = from
    BY <2>2 DEF Tiles
  <2>7. from \in Starts(spans)
    BY <2>3, <2>5, <2>6
  <2>8. \A i \in 1..Len(spans) : spans[i].start \in from..(to - 1)
    BY <2>2, <2>4
  <2> QED BY <2>5, <2>7, <2>8 DEF spans
<1>2. all \in SUBSET (from..(to - 1))
  BY <1>1
<1>3. all \in SUBSET Nat /\ IsFiniteSet(all)
  <2>1. IsFiniteSet(from..(to - 1)) /\ from..(to - 1) \subseteq Nat
    BY FS_Interval
  <2> HIDE DEF all
  <2> QED BY <1>2, <2>1, FS_Subset
<1>4. HouseEmpty(spansOf, to) = Emptied(spansOf, cuts, to)[Len(cuts)]
  BY DEF HouseEmpty
<1> HIDE DEF all
<1>5. /\ N \in Nat /\ cuts \in [1..N -> all]
      /\ \A c \in all : \E n \in 1..N : cuts[n] = c
      /\ \A m, n \in 1..N : m < n => cuts[m] < cuts[n]
  BY <1>3, AscendingLists
<1> HIDE DEF cuts, N
<1>6. /\ cuts \in [1..N -> Nat] /\ Len(cuts) = N
      /\ \A n \in 1..N : cuts[n] \in from..(to - 1) /\ cuts[n] \in Nat /\ cuts[n] < to
  <2>1. \A n \in 1..N : cuts[n] \in all /\ cuts[n] \in from..(to - 1)
    BY <1>2, <1>5
  <2>2. cuts \in [1..N -> Nat]
    BY <1>3, <1>5
  <2>3. Len(cuts) = N
    BY <1>5, LenProperties
  <2> QED BY <2>1, <2>2, <2>3
<1>7. /\ e(0) = <<>>
      /\ \A n \in 1..N : e(n) = IF AllAway(spansOf, cuts[n])
                                THEN Extend(e(n - 1), cuts[n], finish(n)) ELSE e(n - 1)
  <2>1. N \in Nat /\ cuts \in [1..N -> Nat]
    BY <1>5, <1>6
  <2> HIDE DEF proven
  <2>2. StepByStep(spansOf, cuts, to, N)
    BY <2>1, EmptiedSteps
  <2> QED BY <2>2 DEF StepByStep
<1> HIDE DEF e
<1>8. EmptyHolds(e(N), proven, from, to)
  <2>1. CASE listed = {}
    <3>1. all = {}
      BY <2>1 DEF all
    <3>2. N = 0
      <4>1. 1 \notin 1..N
        BY <1>5, <3>1
      <4> QED BY <1>5, <4>1
    <3>3. proven = {}
      BY <2>1
    <3> HIDE DEF proven
    <3>4. e(N) = <<>> /\ Len(<<>>) = 0 /\ <<>> \in Seq(Stretches)
      BY <1>7, <3>2
    <3> QED BY <3>3, <3>4 DEF EmptyHolds, Reached
  <2>2. CASE listed # {}
    <3>1. 1 \in 1..N /\ cuts[1] = from
      <4>1. from \in all
        BY <1>1, <2>2 DEF all
      <4>2. PICK n \in 1..N : cuts[n] = from
        BY <1>5, <4>1
      <4>3. 1 \in 1..N
        BY <1>5
      <4>4. ~(1 < n)
        BY <1>5, <1>6, <4>2, <4>3
      <4> QED BY <4>2, <4>3, <4>4
    <3> DEFINE told(n) == IF n < N THEN cuts[n + 1] ELSE to
               good == {n \in 0..N : EmptyHolds(e(n), proven, from, told(n))}
    <3>2. 0 \in good
      <4>1. told(0) = from /\ from..(from - 1) = {}
        BY <1>5, <3>1
      <4>2. Len(<<>>) = 0 /\ <<>> \in Seq(Stretches)
        OBVIOUS
      <4>3. EmptyHolds(<<>>, proven, from, from)
        BY <4>1, <4>2 DEF EmptyHolds
      <4> QED BY <1>5, <1>7, <4>1, <4>3
    <3>3. ASSUME NEW n \in 0..(N - 1), n \in good PROVE n + 1 \in good
      <4> DEFINE cut == cuts[n + 1]
                 last == told(n + 1)
      <4>1. n + 1 \in 1..N /\ told(n) = cut /\ (n + 1) - 1 = n
        BY <1>5
      <4>2. cut \in Nat /\ from <= cut /\ cut < to /\ cut \in from..(to - 1)
        BY <1>6, <4>1
      <4>3. last \in Nat /\ cut < last /\ last <= to
            /\ (n + 1 < N => n + 2 \in 1..N /\ last = cuts[n + 2])
        <5>1. CASE n + 1 < N
          <6>1. n + 2 \in 1..N /\ last = cuts[n + 2] /\ n + 1 < n + 2
            BY <1>5, <5>1
          <6>2. cuts[n + 1] < cuts[n + 2]
            BY <1>5, <4>1, <6>1
          <6> QED BY <1>6, <6>1, <6>2
        <5>2. CASE ~(n + 1 < N)
          BY <4>2, <5>2
        <5> QED BY <5>1, <5>2
      <4>4. EmptyHolds(e(n), proven, from, cut)
        BY <3>3, <4>1
      <4>5. e(n + 1) = IF AllAway(spansOf, cut) THEN Extend(e(n), cut, last) ELSE e(n)
        BY <1>7, <4>1
      <4> HIDE DEF last
      <4>6. \A c \in all : ~(cut < c /\ c < last)
        <5> SUFFICES ASSUME NEW m \in 1..N, cut < cuts[m], cuts[m] < last PROVE FALSE
          BY <1>5
        <5>1. m > n + 1
          <6>1. m # n + 1
            BY <4>2
          <6>2. ~(m < n + 1)
            <7> SUFFICES ASSUME m < n + 1 PROVE FALSE
              OBVIOUS
            <7>1. cuts[m] < cut
              BY <1>5, <4>1
            <7> QED BY <1>6, <4>2, <7>1
          <6> QED BY <1>5, <6>1, <6>2
        <5>2. n + 1 < N /\ n + 2 \in 1..N /\ last = cuts[n + 2]
          BY <1>5, <4>3, <5>1
        <5>3. m = n + 2 \/ n + 2 < m
          BY <1>5, <5>1
        <5>4. cuts[n + 2] = cuts[m] \/ cuts[n + 2] < cuts[m]
          BY <1>5, <5>2, <5>3
        <5> QED BY <1>6, <5>2, <5>4
      <4> HIDE DEF cut
      <4>7. ASSUME NEW t \in cut..(last - 1), NEW p \in listed
            PROVE  /\ t \in from..(to - 1)
                   /\ Truth(rowsOf[p], from, t) = StateAt(spansOf[p], cut)
        <5>1. t \in cut..(to - 1) /\ t \in from..(to - 1) /\ t < last
          BY <4>2, <4>3
        <5>2. \A i \in 1..Len(spansOf[p]) :
                ~(cut < spansOf[p][i].start /\ spansOf[p][i].start <= t)
          <6> TAKE i \in 1..Len(spansOf[p])
          <6>1. spansOf[p][i].start \in all /\ spansOf[p][i].start \in from..(to - 1)
            <7> DEFINE starts == Starts(spansOf[p])
            <7>1. /\ spansOf[p][i].start \in from..(to - 1)
                  /\ starts = {spansOf[p][j].start : j \in 1..Len(spansOf[p])}
              BY <1>1
            <7>2. spansOf[p][i].start \in starts
              BY <7>1
            <7>3. starts \in {Starts(spansOf[q]) : q \in listed}
              OBVIOUS
            <7> HIDE DEF starts
            <7> QED BY <7>1, <7>2, <7>3 DEF all
          <6> QED BY <4>3, <4>6, <5>1, <6>1
        <5>3. SpansTell(spansOf[p], rowsOf[p], from, to)
          OBVIOUS
        <5>4. Truth(rowsOf[p], from, t) = Truth(rowsOf[p], from, cut)
          BY <4>2, <5>1, <5>2, <5>3, NothingChanges
        <5>5. StateAt(spansOf[p], cut) = Truth(rowsOf[p], from, cut)
          <6> DEFINE spans == spansOf[p]
                     past == rowsOf[p]
          <6>1. SpansTell(spans, past, from, to) /\ cut \in from..(to - 1)
            BY <4>2, <5>3
          <6> HIDE DEF spans, past
          <6>2. StateAt(spans, cut) = Truth(past, from, cut)
            BY <6>1, StateTold
          <6> QED BY <6>2 DEF spans, past
        <5> QED BY <5>1, <5>4, <5>5
      <4>8. AllAway(spansOf, cut) <=> \A p \in listed : StateAt(spansOf[p], cut) = "away"
        BY DEF AllAway
      <4>9. \A t \in cut..(last - 1) : t \in proven <=> AllAway(spansOf, cut)
        BY <2>2, <4>7, <4>8
      <4> HIDE DEF proven
      <4>10. EmptyHolds(e(n + 1), proven, from, last)
        <5>1. CASE AllAway(spansOf, cut)
          BY <4>2, <4>3, <4>4, <4>5, <4>9, <5>1, EmptyGoesOn
        <5>2. CASE ~AllAway(spansOf, cut)
          BY <4>2, <4>3, <4>4, <4>5, <4>9, <5>2, EmptyStays
        <5> QED BY <5>1, <5>2
      <4> QED BY <1>5, <4>1, <4>10 DEF last
    <3>4. N \in good
      <4> HIDE DEF good
      <4>1. \A n \in 0..N : n \in good
        BY <1>5, <3>2, <3>3, CountingUp
      <4> QED BY <1>5, <4>1
    <3>5. told(N) = to
      BY <1>5
    <3> HIDE DEF proven
    <3> QED BY <3>4, <3>5
  <2> QED BY <2>1, <2>2
<1> QED BY <1>4, <1>6, <1>8 DEF e, AwayMoments

-----------------------------------------------------------------------------
(* Presence: the table and the answer *)

\* The rows of a person are in the order of time.
TableOrdered ==
  table \in [People -> Seq(Changes)] /\ \A p \in People : Ordered(table[p])

PresenceInvariant == TableOrdered /\ SpansTellTheTable /\ EmptyIsProven

LEMMA PresenceInitHolds == PresenceInit => PresenceInvariant
<1> SUFFICES ASSUME PresenceInit PROVE PresenceInvariant
  OBVIOUS
<1>1. SpansTellTheTable /\ EmptyIsProven
  BY DEF PresenceInit, SpansTellTheTable, EmptyIsProven
<1>2. <<>> \in Seq(Changes) /\ Ordered(<<>>)
  BY DEF Ordered
<1>3. table \in [People -> Seq(Changes)] /\ \A p \in People : table[p] = <<>>
  BY <1>2 DEF PresenceInit
<1> QED BY <1>1, <1>2, <1>3 DEF PresenceInvariant, TableOrdered

\* A row more is not of an earlier time.
LEMMA OrderedGrows ==
  ASSUME NEW past \in Seq(Changes), Ordered(past), NEW row \in Changes,
         \A i \in 1..Len(past) : past[i].time <= row.time
  PROVE  Append(past, row) \in Seq(Changes) /\ Ordered(Append(past, row))
<1> DEFINE more == Append(past, row)
           L == Len(past)
<1>1. /\ L \in Nat /\ more \in Seq(Changes) /\ Len(more) = L + 1
      /\ \A i \in 1..L : more[i] = past[i]
      /\ more[L + 1] = row /\ row.time \in Nat
  BY DEF Changes
<1>2. \A i, j \in 1..L : i <= j => past[i].time <= past[j].time
  BY DEF Ordered
<1> HIDE DEF more, L
<1>3. ASSUME NEW i \in 1..(L + 1), NEW j \in 1..(L + 1), i <= j
      PROVE  more[i].time <= more[j].time
  <2>1. CASE j = L + 1
    <3>1. CASE i = L + 1
      BY <1>1, <2>1, <3>1
    <3>2. CASE i \in 1..L
      BY <1>1, <2>1, <3>2 DEF L
    <3> QED BY <1>1, <3>1, <3>2
  <2>2. CASE j \in 1..L
    <3>1. i \in 1..L
      BY <1>1, <1>3, <2>2
    <3> QED BY <1>1, <1>2, <1>3, <2>2, <3>1
  <2> QED BY <1>1, <2>1, <2>2
<1> QED BY <1>1, <1>3 DEF Ordered, more

LEMMA RecordHolds ==
  ASSUME PresenceInvariant, NEW p \in People, NEW t \in Nat, NEW s \in {"home", "away"},
         Record(p, t, s)
  PROVE  PresenceInvariant'
<1> DEFINE row == [time |-> t, state |-> s]
<1>1. table \in [People -> Seq(Changes)] /\ \A q \in People : Ordered(table[q])
  BY DEF PresenceInvariant, TableOrdered
<1>2. row \in Changes /\ row.time = t
  BY DEF Changes
<1>3. /\ \A i \in DOMAIN table[p] : table[p][i].time <= t
      /\ table' = [table EXCEPT ![p] = Append(table[p], row)]
      /\ presence' = NoAnswer
  BY DEF Record
<1> HIDE DEF row
<1>4. table[p] \in Seq(Changes) /\ \A i \in 1..Len(table[p]) : table[p][i].time <= row.time
  BY <1>1, <1>2, <1>3
<1>5. Append(table[p], row) \in Seq(Changes) /\ Ordered(Append(table[p], row))
  BY <1>1, <1>2, <1>4, OrderedGrows
<1>6. TableOrdered'
  BY <1>1, <1>3, <1>5 DEF TableOrdered
<1>7. SpansTellTheTable' /\ EmptyIsProven'
  BY <1>3 DEF SpansTellTheTable, EmptyIsProven
<1> QED BY <1>6, <1>7 DEF PresenceInvariant

LEMMA QueryHolds ==
  ASSUME PresenceInvariant, NEW from \in Nat, NEW to \in Nat, Query(from, to)
  PROVE  PresenceInvariant'
<1>1. /\ table' = table /\ table \in [People -> Seq(Changes)]
      /\ \A p \in People : Ordered(table[p])
  BY DEF Query, PresenceInvariant, TableOrdered
<1>2. TableOrdered'
  BY <1>1 DEF TableOrdered
<1>3. CASE ~(from < to /\ to - from <= MaxWindow)
  <2>1. presence' = NoAnswer
    BY <1>3 DEF Query
  <2>2. SpansTellTheTable' /\ EmptyIsProven'
    BY <2>1 DEF SpansTellTheTable, EmptyIsProven
  <2> QED BY <1>2, <2>2 DEF PresenceInvariant
<1>4. CASE from < to /\ to - from <= MaxWindow
  <2> DEFINE points == [p \in People |-> Points(table[p], from, to)]
             listed == {p \in People : points[p] # <<>>}
             spansOf == [p \in listed |-> Spans(points[p], from, to)]
             told == AwayMoments(listed, table, from, to)
             empty == HouseEmpty(spansOf, to)
  <2>1. presence' = [from |-> from, to |-> to, persons |-> spansOf, empty |-> empty,
                     silent |-> People \ listed]
    BY <1>4 DEF Query
  <2>2. \A p \in People : points[p] = Points(table[p], from, to)
    OBVIOUS
  <2>3. /\ listed \subseteq People /\ DOMAIN spansOf = listed
        /\ \A p \in listed : spansOf[p] = Spans(points[p], from, to)
        /\ \A p \in People : p \in listed <=> points[p] # <<>>
    OBVIOUS
  <2>4. IsFiniteSet(listed)
    BY <2>3, PresenceAssumption, FS_Subset
  <2> HIDE DEF points, listed, spansOf, empty
  <2>5. ASSUME NEW p \in listed PROVE SpansTell(spansOf[p], table[p], from, to)
    <3>1. spansOf[p] = Spans(Points(table[p], from, to), from, to) /\ p \in People
      BY <2>2, <2>3
    <3>2. table[p] \in Seq(Changes) /\ Ordered(table[p])
      BY <1>1, <3>1
    <3> QED BY <1>4, <3>1, <3>2, PersonTold
  <2>6. ASSUME NEW p \in People
        PROVE  p \notin listed <=> \A t \in from..(to - 1) : Truth(table[p], from, t) = "unknown"
    <3>1. table[p] \in Seq(Changes) /\ Ordered(table[p])
      BY <1>1
    <3>2. Points(table[p], from, to) = <<>>
            <=> \A t \in from..(to - 1) : Truth(table[p], from, t) = "unknown"
      BY <1>4, <3>1, PointsTell
    <3> QED BY <2>2, <2>3, <3>2
  <2>7. EmptyHolds(empty, told, from, to)
    <3>1. EmptyHolds(HouseEmpty(spansOf, to), AwayMoments(listed, table, from, to), from, to)
      BY <1>4, <2>3, <2>4, <2>5, HouseHolds
    <3> QED BY <3>1 DEF empty
  <2>8. /\ presence'.from = from /\ presence'.to = to /\ presence'.persons = spansOf
        /\ presence'.empty = empty /\ presence'.silent = People \ listed
    BY <2>1
  <2>9. Window' = from..(to - 1) /\ \A p, t : Known(p, t)' = Truth(table[p], from, t)
    BY <1>1, <2>8 DEF Window, Known
  <2>10. People \ (People \ listed) = listed /\ (People \ listed # People <=> listed # {})
    BY <2>3
  <2> HIDE DEF told
  <2>11. SpansTellTheTable'
    <3>1. ASSUME NEW p \in listed
          PROVE  /\ spansOf[p][1].start = from /\ spansOf[p][Len(spansOf[p])].end = to
                 /\ DOMAIN spansOf[p] = 1..Len(spansOf[p])
                 /\ \A i \in 1..Len(spansOf[p]) : spansOf[p][i].start <= spansOf[p][i].end
                 /\ \A i \in 1..(Len(spansOf[p]) - 1) :
                      /\ spansOf[p][i].end = spansOf[p][i + 1].start
                      /\ spansOf[p][i].state # spansOf[p][i + 1].state
      <4> DEFINE spans == spansOf[p]
      <4>1. spans \in Seq(Stretches) /\ spans # <<>> /\ Tiles(spans, from, to)
        BY <2>5 DEF SpansTell
      <4> HIDE DEF spans
      <4>2. DOMAIN spans = 1..Len(spans)
        BY <4>1
      <4>3. /\ spans[1].start = from /\ spans[Len(spans)].end = to
            /\ \A i \in 1..Len(spans) : spans[i].start <= spans[i].end
            /\ \A i \in 1..(Len(spans) - 1) :
                 spans[i].end = spans[i + 1].start /\ spans[i].state # spans[i + 1].state
        BY <4>1, Zenon DEF Tiles
      <4> QED BY <4>2, <4>3 DEF spans
    <3>2. ASSUME NEW p \in listed, NEW t \in from..(to - 1)
          PROVE  \E i \in DOMAIN spansOf[p] :
                   /\ spansOf[p][i].start <= t /\ t < spansOf[p][i].end
                   /\ spansOf[p][i].state = Truth(table[p], from, t)
      <4>1. SpansTell(spansOf[p], table[p], from, to) /\ DOMAIN spansOf[p] = 1..Len(spansOf[p])
        BY <2>5, <3>1
      <4>2. \E i \in 1..Len(spansOf[p]) :
              /\ spansOf[p][i].start <= t /\ t < spansOf[p][i].end
              /\ spansOf[p][i].state = Truth(table[p], from, t)
        BY <4>1, StateTold DEF ToldAt
      <4> QED BY <4>1, <4>2
    <3>3. People \ listed =
            {p \in People : \A t \in from..(to - 1) : Truth(table[p], from, t) = "unknown"}
      BY <2>6
    <3>4. \A p \in DOMAIN presence'.persons :
            /\ presence'.persons[p][1].start = presence'.from
            /\ presence'.persons[p][Len(presence'.persons[p])].end = presence'.to
            /\ \A i \in DOMAIN presence'.persons[p] :
                 presence'.persons[p][i].start <= presence'.persons[p][i].end
            /\ \A i \in 1..(Len(presence'.persons[p]) - 1) :
                 /\ presence'.persons[p][i].end = presence'.persons[p][i + 1].start
                 /\ presence'.persons[p][i].state # presence'.persons[p][i + 1].state
      BY <2>3, <2>8, <3>1
    <3>5. \A p \in DOMAIN presence'.persons, t \in Window' :
            \E i \in DOMAIN presence'.persons[p] :
              /\ presence'.persons[p][i].start <= t /\ t < presence'.persons[p][i].end
              /\ presence'.persons[p][i].state = Known(p, t)'
      BY <2>3, <2>8, <2>9, <3>2
    <3>6. presence'.silent = {p \in People : \A t \in Window' : Known(p, t)' = "unknown"}
      BY <2>8, <2>9, <3>3
    <3>7. DOMAIN presence'.persons = People \ presence'.silent
      BY <2>3, <2>8, <2>10
    <3> QED BY <3>4, <3>5, <3>6, <3>7, Zenon DEF SpansTellTheTable
  <2>12. EmptyIsProven'
    <3>1. DOMAIN empty = 1..Len(empty)
      BY <2>7 DEF EmptyHolds
    <3>2. \A i \in 1..(Len(empty) - 1) : empty[i].end < empty[i + 1].start
      BY <2>7 DEF EmptyHolds
    <3>3. \A t \in from..(to - 1) :
            (\E i \in DOMAIN empty : empty[i].start <= t /\ t < empty[i].end)
              <=> (listed # {} /\ \A p \in listed : Truth(table[p], from, t) = "away")
      BY <2>7, <3>1 DEF EmptyHolds, Reached, told, AwayMoments
    <3> QED BY <2>8, <2>9, <2>10, <3>2, <3>3 DEF EmptyIsProven
  <2> QED BY <1>2, <2>11, <2>12 DEF PresenceInvariant
<1> QED BY <1>3, <1>4

LEMMA PresenceNextHolds == PresenceInvariant /\ [PresenceNext]_presenceVars => PresenceInvariant'
<1> SUFFICES ASSUME PresenceInvariant, [PresenceNext]_presenceVars PROVE PresenceInvariant'
  OBVIOUS
<1>1. 0..Horizon \subseteq Nat /\ 0..(Horizon + 1) \subseteq Nat
  OBVIOUS
<1>2. ASSUME NEW p \in People, NEW t \in 0..Horizon, NEW s \in {"home", "away"}, Record(p, t, s)
      PROVE  PresenceInvariant'
  BY <1>1, <1>2, RecordHolds
<1>3. ASSUME NEW from \in 0..(Horizon + 1), NEW to \in 0..(Horizon + 1), Query(from, to)
      PROVE  PresenceInvariant'
  BY <1>1, <1>3, QueryHolds
<1>4. CASE UNCHANGED presenceVars
  BY <1>4 DEF PresenceInvariant, TableOrdered, SpansTellTheTable, EmptyIsProven, Window, Known,
              presenceVars
<1> QED BY <1>2, <1>3, <1>4 DEF PresenceNext

\* Every answer is right of the table as it is, for any number of people, rows and moments.
THEOREM PresenceHolds == PresenceSpec => []PresenceInvariant
BY PresenceInitHolds, PresenceNextHolds, PTL DEF PresenceSpec

\* The spans told of each person cover the window and say at every moment what the
\* table tells of the person.
THEOREM SpansAreTold == PresenceSpec => []SpansTellTheTable
<1>1. PresenceInvariant => SpansTellTheTable
  BY DEF PresenceInvariant
<1> QED BY <1>1, PresenceHolds, PTL

\* The house is told empty exactly while the table proves that everybody listed is out.
THEOREM EmptyHouseIsProven == PresenceSpec => []EmptyIsProven
<1>1. PresenceInvariant => EmptyIsProven
  BY DEF PresenceInvariant
<1> QED BY <1>1, PresenceHolds, PTL
=============================================================================
