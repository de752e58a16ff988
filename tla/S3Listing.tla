----------------------------- MODULE S3Listing -----------------------------
(***************************************************************************)
(* The object store's tools.  A listing is read page by page, in the order *)
(* of the keys, while objects are written, written again and deleted, and  *)
(* list_s3_buckets reads one listing after the other.  What is told of     *)
(* it, the newest object of a bucket or a prefix above all, is folded from *)
(* pages of different moments.                                             *)
(*                                                                         *)
(* Calls only read, so one call against the moving store is every call.    *)
(***************************************************************************)
EXTENDS Cuts, TLC

CONSTANTS
  Buckets,   \* their names, in order
  Keys,      \* in order; a key is the sequence of its tokens, "/" among them
  Age,       \* when the store's first objects were written: one moment per key
  AskedPrefixes,  \* what list_s3_objects is asked for
  PageSize,  \* objects in a page of the store
  MaxWrites  \* bound: how often the store changes

KeyIds == DOMAIN Keys
Places == Range(Buckets) \X KeyIds
Never == 0

ASSUME S3Assumption ==
  /\ Buckets \in Seq(STRING) /\ Keys \in Seq(Seq(STRING)) /\ AskedPrefixes \subseteq Seq(STRING)
  /\ Age \in [KeyIds -> Nat \ {Never}]
  /\ PageSize \in Nat \ {0} /\ MaxWrites \in Nat

VARIABLES
  buckets,  \* the buckets there are
  objects,  \* when the object at a place was last written, or Never
  writes,   \* how often the store has changed
  listing   \* the call: [pc, left, bucket, prefix, limit, found, answer, met, lost]

s3Vars == <<buckets, objects, writes, listing>>

\* History of a call: met, the [place, at] that stood at some time of it; lost, the
\* places where at some time of it nothing stood.
Standing == {[place |-> p, at |-> objects[p]] : p \in {q \in Places : objects[q] # Never}}
Vacant == {p \in Places : objects[p] = Never}

NoListing == [pc |-> "idle", left |-> <<>>, bucket |-> "", prefix |-> <<>>, limit |-> 0,
              found |-> <<>>, answer |-> <<>>, met |-> {}, lost |-> {}]

S3Init ==
  /\ buckets \in SUBSET Range(Buckets)
  /\ objects \in [Places -> Range(Age) \cup {Never}]
  /\ \A p \in Places : objects[p] \in {Never, Age[p[2]]} /\ (p[1] \in buckets \/ objects[p] = Never)
  /\ writes = 0
  /\ listing = NoListing

-----------------------------------------------------------------------------
(* The store *)

Write ==
  /\ writes < MaxWrites
  /\ writes' = writes + 1

Put(p) ==
  /\ Write
  /\ p[1] \in buckets
  /\ LET now == Max(Range(Age)) + writes + 1
     IN /\ objects' = [objects EXCEPT ![p] = now]
        /\ listing' = [listing EXCEPT !.met = @ \cup {[place |-> p, at |-> now]}]
  /\ UNCHANGED buckets

Delete(p) ==
  /\ Write
  /\ objects[p] # Never
  /\ objects' = [objects EXCEPT ![p] = Never]
  /\ listing' = [listing EXCEPT !.lost = @ \cup {p}]
  /\ UNCHANGED buckets

\* A bucket goes when it is empty.
DeleteBucket(b) ==
  /\ Write
  /\ b \in buckets
  /\ \A p \in Places : p[1] = b => objects[p] = Never
  /\ buckets' = buckets \ {b}
  /\ UNCHANGED <<objects, listing>>

-----------------------------------------------------------------------------
(* What is told of a listing *)

Moments(listed) == {listed[i].at : i \in DOMAIN listed}

\* _summary
Summary(listed) ==
  [count |-> Len(listed),
   newest |-> IF listed = <<>> THEN Never ELSE Max(Moments(listed)),
   oldest |-> IF listed = <<>> THEN Never ELSE Min(Moments(listed))]

\* The prefix one "/" further on under which a key falls, or <<>>: it is an object of
\* this level.
Child(prefix, key) ==
  LET slashes == {i \in Len(prefix) + 1..Len(key) : key[i] = "/"}
  IN IF slashes = {} THEN <<>> ELSE SubSeq(key, 1, Min(slashes))

Children(prefix, listed) ==
  LET child(o) == Child(prefix, Keys[o.key])
  IN [c \in {child(o) : o \in Range(listed)} \ {<<>>} |->
        Summary(Kept(listed, {o \in Range(listed) : child(o) = c}))]

ObjectsAnswer(call, listed) ==
  [summary |-> Summary(listed),
   children |-> Children(call.prefix, listed),
   truncated |-> Truncated(listed, call.limit),
   objects |-> Cut(NewestFirst(listed), call.limit)]

-----------------------------------------------------------------------------
(* list_s3_objects, list_s3_buckets *)

Asked == [listing EXCEPT !.met = Standing, !.lost = Vacant]

AskObjects(b, prefix, limit) ==
  /\ listing.pc = "idle"
  /\ listing' = IF limit = 0
                THEN [listing EXCEPT !.pc = "refused"]
                ELSE [Asked EXCEPT !.pc = "objects", !.bucket = b, !.prefix = prefix,
                                   !.limit = Cap(limit)]
  /\ UNCHANGED <<buckets, objects, writes>>

AskBuckets ==
  /\ listing.pc = "idle"
  /\ listing' = [Asked EXCEPT !.pc = "names"]
  /\ UNCHANGED <<buckets, objects, writes>>

\* list_buckets; the listings follow in the order of the names.
ListBuckets ==
  /\ listing.pc = "names"
  /\ LET names == Kept(Buckets, buckets)
     IN listing' = IF names = <<>>
                   THEN [listing EXCEPT !.pc = "done"]
                   ELSE [listing EXCEPT !.pc = "buckets", !.bucket = Head(names),
                                        !.left = Tail(names)]
  /\ UNCHANGED <<buckets, objects, writes>>

\* A listing is whole: the answer, or the next bucket.
ListingWhole(found) ==
  CASE listing.pc = "objects" ->
         [listing EXCEPT !.pc = "done", !.found = found, !.answer = ObjectsAnswer(listing, found)]
    [] listing.pc = "buckets" /\ listing.left = <<>> ->
         [listing EXCEPT !.pc = "done", !.found = <<>>,
                         !.answer = Append(@, <<listing.bucket, Summary(found)>>)]
    [] OTHER ->
         [listing EXCEPT !.answer = Append(@, <<listing.bucket, Summary(found)>>),
                         !.found = <<>>, !.bucket = Head(listing.left), !.left = Tail(@)]

\* The keys beyond the last one listed.
Beyond ==
  LET last == IF listing.found = <<>> THEN 0 ELSE Last(listing.found).key
  IN {k \in KeyIds : /\ k > last
                     /\ IsPrefix(listing.prefix, Keys[k])
                     /\ objects[<<listing.bucket, k>>] # Never}

PageOf(ids) ==
  LET page == {k \in ids : Cardinality({j \in ids : j <= k}) <= PageSize}
      keys == Ascending(page)
  IN [i \in DOMAIN keys |-> [key |-> keys[i], at |-> objects[<<listing.bucket, keys[i]>>]]]

\* Mutant of Page: one request, as if the first page were all.
PageOnce ==
  /\ listing.pc \in {"objects", "buckets"}
  /\ listing.bucket \in buckets
  /\ listing' = ListingWhole(PageOf(Beyond))
  /\ UNCHANGED <<buckets, objects, writes>>

\* The next page of a listing, until one is the last.
Page ==
  /\ listing.pc \in {"objects", "buckets"}
  /\ listing.bucket \in buckets
  /\ LET found == listing.found \o PageOf(Beyond)
     IN listing' = IF Cardinality(Beyond) <= PageSize
                   THEN ListingWhole(found)
                   ELSE [listing EXCEPT !.found = found]
  /\ UNCHANGED <<buckets, objects, writes>>

\* NoSuchBucket, or the store refuses or is away: S3Error, whatever was read before.
RequestFails ==
  /\ listing.pc \in {"names", "objects", "buckets"}
  /\ listing' = [listing EXCEPT !.pc = "failed", !.found = <<>>, !.answer = <<>>]
  /\ UNCHANGED <<buckets, objects, writes>>

-----------------------------------------------------------------------------
S3Next ==
  \/ \E p \in Places : Put(p) \/ Delete(p)
  \/ \E b \in Range(Buckets) : DeleteBucket(b)
  \/ \E b \in Range(Buckets), prefix \in AskedPrefixes, limit \in Limits : AskObjects(b, prefix, limit)
  \/ AskBuckets \/ ListBuckets \/ Page \/ RequestFails

S3Spec == S3Init /\ [][S3Next]_s3Vars

-----------------------------------------------------------------------------
(* Properties *)

\* What a summary of the keys ks of a bucket must be: it counts what stood there all
\* through the call and nothing that never stood; its newest object is no older than
\* any that was there from the beginning and was not deleted, so that nothing looks
\* staler than it was, and not of a time at which nothing was written.
Holds(summary, bucket, ks) ==
  LET here == {bucket} \X ks
      stood == here \ listing.lost
      met == {m \in listing.met : m.place \in here}
  IN /\ Cardinality(stood) <= summary.count
     /\ summary.count <= Cardinality({m.place : m \in met})
     /\ summary.newest \in {m.at : m \in met} \/ summary.count = 0
     /\ \A p \in stood :
          LET versions == {m.at : m \in {n \in met : n.place = p}}
          IN Min(versions) <= summary.newest /\ summary.oldest <= Max(versions)

\* "Its newest object is older than its neighbours'" (s3.py) shows a stream that
\* stopped, although the pages are of different moments: the summaries of a prefix, of
\* every level below it and of every bucket hold, none of a level or a bucket in which
\* something stood is missing, and the levels and the objects beside them add up.
SummariesHold ==
  listing.pc = "done" =>
    IF listing.prefix = <<>> /\ listing.limit = 0
    THEN /\ \A i \in DOMAIN listing.answer :
              Holds(listing.answer[i][2], listing.answer[i][1], KeyIds)
         /\ \A p \in Places \ listing.lost :
              \E i \in DOMAIN listing.answer : listing.answer[i][1] = p[1]
    ELSE LET a == listing.answer
             under == {k \in KeyIds : IsPrefix(listing.prefix, Keys[k])}
             below(c) == {k \in under : IsPrefix(c, Keys[k])}
         IN /\ Holds(a.summary, listing.bucket, under)
            /\ \A c \in DOMAIN a.children : Holds(a.children[c], listing.bucket, below(c))
            /\ \A k \in under : <<listing.bucket, k>> \notin listing.lost =>
                 (\E i \in Len(listing.prefix) + 1..Len(Keys[k]) : Keys[k][i] = "/") <=>
                   \E c \in DOMAIN a.children : k \in below(c)
            /\ Cardinality(UNION {{c} \X (1..a.children[c].count) : c \in DOMAIN a.children})
                 <= a.summary.count

\* A list that is cut says so, and what was cut off is older than all it shows.
CutShowsNewest ==
  listing.pc = "done" /\ listing.limit # 0 =>
    LET a == listing.answer
    IN /\ a.truncated <=> Len(a.objects) < a.summary.count
       /\ Len(a.objects) = Min({listing.limit, a.summary.count})
       /\ IsInjective([i \in DOMAIN a.objects |-> a.objects[i].key])
       /\ \A o \in Range(listing.found) \ Range(a.objects), i \in DOMAIN a.objects :
            o.at <= a.objects[i].at
=============================================================================
