------------------------ MODULE WindowEngine_proofs ------------------------
(* Proofs about the ring buffer, for every window length, every set of      *)
(* queries, readers, stamps and scores.                                     *)
EXTENDS WindowEngine, FiniteSetTheorems, FunctionTheorems, TLAPS

BucketsType == [Slots -> [epochSecond : Nat, counts : Counts]]

-----------------------------------------------------------------------------
(* How many unit votes a set of slots holds.                                *)

(* A set of slots holds finitely many unit votes.                           *)
LEMMA UnitVotesFinite ==
  ASSUME NEW b \in BucketsType, NEW S \in SUBSET Slots, NEW q \in Queries
  PROVE  IsFiniteSet(UnitVotes(b, S, q)) /\ Contribution(b, S, q) \in Nat
<1> DEFINE Pile(i) == {i} \X (1..b[i].counts[q])
           f == [i \in S |-> Pile(i)]
           T == {Pile(i) : i \in S}
<1>1. IsFiniteSet(S)
  <2>1. IsFiniteSet(Slots)
    BY FS_Interval, WindowAssumption DEF Slots
  <2> QED BY <2>1, FS_Subset
<1>2. f \in Surjection(S, T)
  BY DEF Surjection
<1>3. IsFiniteSet(T)
  BY <1>1, <1>2, FS_Surjection
<1>4. \A X \in T : IsFiniteSet(X)
  <2> SUFFICES ASSUME NEW i \in S PROVE IsFiniteSet(Pile(i))
    OBVIOUS
  <2>1. b[i].counts[q] \in Nat
    BY DEF BucketsType, Counts
  <2>2. IsFiniteSet(1..b[i].counts[q])
    BY <2>1, FS_Interval
  <2> QED BY <2>2, FS_Singleton, FS_Product
<1>5. IsFiniteSet(UNION T)
  BY <1>3, <1>4, FS_UNION
<1>6. IsFiniteSet(UnitVotes(b, S, q))
  BY <1>5 DEF UnitVotes
<1> QED BY <1>6, FS_CardinalityType DEF Contribution

(* Disjoint sets of slots add up.                                           *)
LEMMA ContributionSplit ==
  ASSUME NEW b \in BucketsType, NEW q \in Queries,
         NEW S \in SUBSET Slots, NEW T \in SUBSET Slots, S \cap T = {}
  PROVE  Contribution(b, S \cup T, q) = Contribution(b, S, q) + Contribution(b, T, q)
<1> DEFINE A == UnitVotes(b, S, q)
           B == UnitVotes(b, T, q)
<1>1. IsFiniteSet(A) /\ IsFiniteSet(B)
  BY UnitVotesFinite
<1>2. UnitVotes(b, S \cup T, q) = A \cup B
  BY DEF UnitVotes
<1>3. A \cap B = {}
  BY DEF UnitVotes
<1>4. Cardinality(A \cup B) = Cardinality(A) + Cardinality(B) - Cardinality(A \cap B)
  BY <1>1, FS_Union
<1>5. Cardinality(A \cap B) = 0
  BY <1>3, FS_EmptySet
<1>6. Cardinality(A) \in Nat /\ Cardinality(B) \in Nat
  BY <1>1, FS_CardinalityType
<1>7. Cardinality(A \cup B) = Cardinality(A) + Cardinality(B)
  <2> HIDE DEF A, B
  <2> QED BY <1>4, <1>5, <1>6
<1> QED BY <1>2, <1>7 DEF Contribution

(* One slot holds its own count.                                            *)
LEMMA ContributionOfOne ==
  ASSUME NEW b \in BucketsType, NEW q \in Queries, NEW i \in Slots
  PROVE  Contribution(b, {i}, q) = b[i].counts[q]
<1> DEFINE n == b[i].counts[q]
<1>1. n \in Nat
  BY DEF BucketsType, Counts
<1>2. UnitVotes(b, {i}, q) = {i} \X (1..n)
  BY DEF UnitVotes
<1>3. IsFiniteSet(1..n) /\ Cardinality(1..n) = n
  <2> HIDE DEF n
  <2> QED BY <1>1, FS_Interval
<1>4. IsFiniteSet({i}) /\ Cardinality({i}) = 1
  BY FS_Singleton
<1>5. Cardinality({i} \X (1..n)) = 1 * n
  BY <1>3, <1>4, FS_Product
<1>6. 1 * n = n
  <2> HIDE DEF n
  <2> QED BY <1>1
<1>7. Contribution(b, {i}, q) = Cardinality({i} \X (1..n))
  BY <1>2 DEF Contribution
<1> QED BY <1>5, <1>6, <1>7

(* Slots with the same counts hold the same number of votes.                *)
LEMMA ContributionAgrees ==
  ASSUME NEW b, NEW c, NEW q, NEW S,
         \A i \in S : b[i].counts[q] = c[i].counts[q]
  PROVE  Contribution(b, S, q) = Contribution(c, S, q)
BY DEF Contribution, UnitVotes

(* Slots without votes hold none.                                           *)
LEMMA ContributionOfNone ==
  ASSUME NEW b, NEW q, NEW S, \A i \in S : b[i].counts[q] = 0
  PROVE  Contribution(b, S, q) = 0
<1>1. UnitVotes(b, S, q) = {}
  BY DEF UnitVotes
<1> QED BY <1>1, FS_EmptySet DEF Contribution

(* A number of votes is a natural number.                                   *)
LEMMA ContributionType ==
  ASSUME NEW b \in BucketsType, NEW S \in SUBSET Slots, NEW q \in Queries
  PROVE  Contribution(b, S, q) \in Nat
BY UnitVotesFinite

-----------------------------------------------------------------------------
(* Type correctness.                                                        *)

(* What the sort produces is a sequence of items whenever every place is    *)
(* taken by a query.                                                        *)
LEMMA PlaceType ==
  ASSUME NEW t \in Counts, NEW q \in Positive(t)
  PROVE  Place(t, q) \in 1..Cardinality(Positive(t))
<1> DEFINE P == Positive(t)
           Above == {p \in P : Beats(t, p, q)}
<1>1. IsFiniteSet(P)
  BY WindowAssumption, FS_Subset DEF Positive
<1>2. Above \in SUBSET (P \ {q})
  <2>1. q \in Nat /\ t[q] \in Nat
    BY WindowAssumption DEF Positive, Counts
  <2>2. ~Beats(t, q, q)
    BY <2>1 DEF Beats
  <2> QED BY <2>2
<1>3. IsFiniteSet(P \ {q}) /\ Cardinality(P \ {q}) = Cardinality(P) - 1
  BY <1>1, FS_RemoveElement
<1>4. IsFiniteSet(Above) /\ Cardinality(Above) <= Cardinality(P \ {q})
  BY <1>2, <1>3, FS_Subset
<1>5. Cardinality(Above) \in Nat /\ Cardinality(P) \in Nat
  BY <1>1, <1>4, FS_CardinalityType
<1>6. Place(t, q) = 1 + Cardinality(Above)
  BY DEF Place
<1> HIDE DEF Above, P
<1>7. 1 + Cardinality(Above) \in 1..Cardinality(P)
  BY <1>3, <1>4, <1>5
<1> QED BY <1>6, <1>7 DEF P

(* No two queries share a place.                                            *)
LEMMA PlaceInjective ==
  ASSUME NEW t \in Counts, NEW p \in Positive(t), NEW q \in Positive(t),
         Beats(t, p, q)
  PROVE  Place(t, p) < Place(t, q)
<1> DEFINE P == Positive(t)
           A(x) == {y \in P : Beats(t, y, x)}
<1>0. P \subseteq Nat /\ \A x \in P : t[x] \in Nat
  BY WindowAssumption DEF Positive, Counts
<1>1. IsFiniteSet(P)
  BY WindowAssumption, FS_Subset DEF Positive
<1>2. A(p) \cup {p} \in SUBSET A(q)
  BY <1>0 DEF Beats
<1>3. p \notin A(p)
  BY <1>0 DEF Beats
<1>4. IsFiniteSet(A(p)) /\ IsFiniteSet(A(q))
  BY <1>1, FS_Subset
<1>5. Cardinality(A(p) \cup {p}) = Cardinality(A(p)) + 1
  BY <1>3, <1>4, FS_AddElement
<1>6. Cardinality(A(p) \cup {p}) <= Cardinality(A(q))
  BY <1>2, <1>4, FS_Subset
<1>7. Cardinality(A(p)) \in Nat /\ Cardinality(A(q)) \in Nat
  BY <1>4, FS_CardinalityType
<1>8. Place(t, p) = 1 + Cardinality(A(p)) /\ Place(t, q) = 1 + Cardinality(A(q))
  BY DEF Place
<1> HIDE DEF A
<1> QED BY <1>5, <1>6, <1>7, <1>8

(* Every place is taken.                                                    *)
LEMMA PlaceSurjective ==
  ASSUME NEW t \in Counts, NEW k \in 1..Cardinality(Positive(t))
  PROVE  \E q \in Positive(t) : Place(t, q) = k
<1> DEFINE P == Positive(t)
           f == [q \in P |-> Place(t, q)]
           N == Cardinality(P)
<1>1. IsFiniteSet(P)
  BY WindowAssumption, FS_Subset DEF Positive
<1>2. N \in Nat
  BY <1>1, FS_CardinalityType
<1>3. IsFiniteSet(1..N) /\ Cardinality(1..N) = N
  <2> HIDE DEF N
  <2> QED BY <1>2, FS_Interval
<1>4. f \in [P -> 1..N]
  BY PlaceType
<1>5. \A p, q \in P : f[p] = f[q] => p = q
  <2> SUFFICES ASSUME NEW p \in P, NEW q \in P, p # q
               PROVE  Place(t, p) # Place(t, q)
    OBVIOUS
  <2>1. Beats(t, p, q) \/ Beats(t, q, p)
    BY WindowAssumption DEF Beats, Positive, Counts
  <2>2. Place(t, p) \in 1..N /\ Place(t, q) \in 1..N
    BY PlaceType
  <2>3. Place(t, p) < Place(t, q) \/ Place(t, q) < Place(t, p)
    BY <2>1, PlaceInjective
  <2> QED BY <1>2, <2>2, <2>3
<1>6. f \in Injection(P, 1..N)
  BY <1>4, <1>5 DEF Injection, IsInjective
<1>7. f \in Surjection(P, 1..N)
  BY <1>3, <1>6, FS_Injection
<1> QED BY <1>7 DEF Surjection

(* Ranked(t) has at each place the query that belongs there.                *)
LEMMA RankedAt ==
  ASSUME NEW t \in Counts, NEW k \in 1..Cardinality(Positive(t))
  PROVE  \E q \in Positive(t) : /\ Place(t, q) = k
                                /\ Ranked(t)[k] = [query |-> q, score |-> t[q]]
<1> DEFINE q == CHOOSE p \in Positive(t) : Place(t, p) = k
<1>1. q \in Positive(t) /\ Place(t, q) = k
  BY PlaceSurjective
<1>2. Ranked(t)[k] = [query |-> q, score |-> t[q]]
  BY DEF Ranked
<1> QED BY <1>1, <1>2

(* Ranked(t) is a sequence of items, one for each query with a score.       *)
LEMMA RankedType ==
  ASSUME NEW t \in Counts
  PROVE  Ranked(t) \in Items /\ Len(Ranked(t)) = Cardinality(Positive(t))
<1> DEFINE N == Cardinality(Positive(t))
<1>1. N \in Nat
  BY WindowAssumption, FS_Subset, FS_CardinalityType DEF Positive
<1>2. \A k \in 1..N : Ranked(t)[k] \in Item
  <2> TAKE k \in 1..N
  <2>1. PICK q \in Positive(t) : Ranked(t)[k] = [query |-> q, score |-> t[q]]
    BY RankedAt
  <2>2. q \in Queries /\ t[q] \in Nat
    BY DEF Positive, Counts
  <2> QED BY <2>1, <2>2 DEF Item
<1>3. Ranked(t) \in [1..N -> Item]
  BY <1>2 DEF Ranked
<1> HIDE DEF N
<1>4. Ranked(t) \in Seq(Item) /\ Len(Ranked(t)) = N
  BY <1>1, <1>3
<1> QED BY <1>4 DEF N, Items
(* What Snapshot copies out of a sequence of items is a sequence of items.  *)
LEMMA TopItemsType ==
  ASSUME NEW items \in Items, NEW n \in Int
  PROVE  TopItems(items, n) \in Items
<1> DEFINE size == IF n <= 0 THEN 10 ELSE n
           last == IF size < Len(items) THEN size ELSE Len(items)
<1>1. last \in 0..Len(items)
  BY DEF Items
<1>2. TopItems(items, n) = SubSeq(items, 1, last)
  BY DEF TopItems
<1> HIDE DEF last
<1> QED BY <1>1, <1>2, SMTT(30) DEF Items

-----------------------------------------------------------------------------
(* The critical section of Add.                                             *)

(* The slot of a second is a slot.                                          *)
LEMMA IndexType ==
  ASSUME NEW second \in Nat
  PROVE  BucketIndex(second) \in Slots
BY WindowAssumption DEF BucketIndex, Slots

(* Which slots Add empties, and the two tables it leaves behind.            *)
LEMMA AddTables ==
  ASSUME buckets \in BucketsType, totals \in Counts,
         NEW gone \in SUBSET Slots, NEW second \in Nat,
         NEW query \in Queries, NEW score \in Nat
  PROVE  /\ NewBuckets(gone, second, query, score) \in BucketsType
         /\ NewTotals(gone, query, score) \in Counts
<1>1. NewTotals(gone, query, score) \in Counts
  <2> SUFFICES ASSUME NEW q \in Queries
               PROVE  NewTotals(gone, query, score)[q] \in Nat
    BY DEF NewTotals, Counts
  <2>1. Contribution(buckets, gone, q) \in Nat /\ totals[q] \in Nat
    BY ContributionType DEF Counts
  <2> QED BY <2>1 DEF NewTotals, Less
<1>2. NewBuckets(gone, second, query, score) \in BucketsType
  <2> DEFINE slot == BucketIndex(second)
             kept == [i \in Slots |-> IF i \in gone THEN EmptyBucket ELSE buckets[i]]
  <2>1. slot \in Slots
    BY IndexType
  <2>2. kept \in BucketsType
    BY DEF BucketsType, EmptyBucket, NoCounts, Counts
  <2>3. [kept[slot].counts EXCEPT ![query] = @ + score] \in Counts
    BY <2>1, <2>2 DEF BucketsType, Counts
  <2> HIDE DEF slot, kept
  <2>4. [kept EXCEPT ![slot] =
           [epochSecond |-> second,
            counts      |-> [kept[slot].counts EXCEPT ![query] = @ + score]]]
          \in BucketsType
    BY <2>1, <2>2, <2>3 DEF BucketsType
  <2> QED BY <2>4 DEF NewBuckets, slot, kept
<1> QED BY <1>1, <1>2

(* The slots Add empties are slots.                                         *)
LEMMA GoneType ==
  ASSUME NEW second \in Nat
  PROVE  Expired(second) \cup Reused(second) \in SUBSET Slots
BY IndexType DEF Expired, Reused

(* After Add a recount of the buckets gives the updated totals: the counts  *)
(* of the emptied slots are subtracted once, and the vote added once.       *)
LEMMA AddRecount ==
  ASSUME buckets \in BucketsType, totals \in Counts, TotalsMatchBuckets,
         NEW gone \in SUBSET Slots, NEW second \in Nat,
         NEW query \in Queries, NEW score \in Nat, NEW q \in Queries
  PROVE  NewTotals(gone, query, score)[q]
           = Contribution(NewBuckets(gone, second, query, score), Slots, q)
<1> DEFINE slot  == BucketIndex(second)
           kept  == [i \in Slots |-> IF i \in gone THEN EmptyBucket ELSE buckets[i]]
           new   == NewBuckets(gone, second, query, score)
           rest  == Slots \ {slot}
           stays == Slots \ gone
           delta == IF q = query THEN score ELSE 0
<1>1. slot \in Slots
  BY IndexType
<1>2. kept \in BucketsType
  BY DEF BucketsType, EmptyBucket, NoCounts, Counts
<1>3. new \in BucketsType
  BY AddTables
<1>4. new[slot].counts[q] = kept[slot].counts[q] + delta
  <2> HIDE DEF kept, slot
  <2>1. kept[slot].counts \in [Queries -> Nat]
    BY <1>1, <1>2 DEF BucketsType, Counts
  <2>2. new[slot].counts = [kept[slot].counts EXCEPT ![query] = @ + score]
    BY <1>1, <1>2 DEF NewBuckets, kept, slot, BucketsType
  <2> QED BY <2>1, <2>2
<1>5. \A i \in rest : new[i].counts[q] = kept[i].counts[q]
  BY DEF NewBuckets
<1>6. Contribution(new, Slots, q) = Contribution(kept, Slots, q) + delta
  <2> HIDE DEF new, kept, slot, delta
  <2>1. Slots = rest \cup {slot} /\ rest \cap {slot} = {} /\ {slot} \in SUBSET Slots
    BY <1>1
  <2>2. Contribution(new, rest, q) = Contribution(kept, rest, q)
    BY <1>5, ContributionAgrees
  <2>3. /\ Contribution(new, Slots, q)
             = Contribution(new, rest, q) + Contribution(new, {slot}, q)
        /\ Contribution(kept, Slots, q)
             = Contribution(kept, rest, q) + Contribution(kept, {slot}, q)
    BY <1>2, <1>3, <2>1, ContributionSplit
  <2>4. /\ Contribution(new, {slot}, q) = new[slot].counts[q]
        /\ Contribution(kept, {slot}, q) = kept[slot].counts[q]
    BY <1>1, <1>2, <1>3, ContributionOfOne
  <2>5. Contribution(kept, rest, q) \in Nat /\ kept[slot].counts[q] \in Nat
    BY <1>1, <1>2, ContributionType DEF BucketsType, Counts
  <2>6. delta \in Nat
    BY DEF delta
  <2> QED BY <1>4, <2>2, <2>3, <2>4, <2>5, <2>6
<1>7. Contribution(kept, Slots, q) = Contribution(buckets, stays, q)
  <2> HIDE DEF kept
  <2>1. Slots = gone \cup stays /\ gone \cap stays = {}
    OBVIOUS
  <2>2. Contribution(kept, Slots, q)
          = Contribution(kept, gone, q) + Contribution(kept, stays, q)
    BY <1>2, <2>1, ContributionSplit
  <2>3. Contribution(kept, gone, q) = 0
    BY ContributionOfNone DEF kept, EmptyBucket, NoCounts
  <2>4. Contribution(kept, stays, q) = Contribution(buckets, stays, q)
    BY ContributionAgrees DEF kept
  <2>5. Contribution(buckets, stays, q) \in Nat
    BY ContributionType
  <2> QED BY <2>2, <2>3, <2>4, <2>5
<1>8. totals[q] = Contribution(buckets, gone, q) + Contribution(buckets, stays, q)
  <2>1. totals[q] = Contribution(buckets, Slots, q)
    BY DEF TotalsMatchBuckets
  <2>2. Slots = gone \cup stays /\ gone \cap stays = {}
    OBVIOUS
  <2> QED BY <2>1, <2>2, ContributionSplit
<1>9. Less(totals[q], Contribution(buckets, gone, q)) = Contribution(buckets, stays, q)
  <2>1. /\ Contribution(buckets, gone, q) \in Nat
        /\ Contribution(buckets, stays, q) \in Nat
    BY ContributionType
  <2> QED BY <1>8, <2>1 DEF Less
<1>10. NewTotals(gone, query, score)[q]
         = Less(totals[q], Contribution(buckets, gone, q)) + delta
  BY DEF NewTotals
<1> HIDE DEF new, delta, stays, kept
<1> QED BY <1>6, <1>7, <1>9, <1>10 DEF new

(* Add keeps every bucket in the slot of its second.                        *)
LEMMA AddSlots ==
  ASSUME buckets \in BucketsType, SlotDiscipline,
         NEW second \in Nat \ {0}, NEW query \in Queries, NEW score \in Nat,
         buckets' = NewBuckets(Expired(second) \cup Reused(second), second, query, score)
  PROVE  SlotDiscipline'
<1> DEFINE gone == Expired(second) \cup Reused(second)
           slot == BucketIndex(second)
<1>1. slot \in Slots
  BY IndexType
<1> SUFFICES ASSUME NEW i \in Slots
             PROVE  IF buckets'[i].epochSecond = 0
                    THEN buckets'[i].counts = NoCounts
                    ELSE BucketIndex(buckets'[i].epochSecond) = i
  BY DEF SlotDiscipline
<1>2. CASE i = slot
  <2>1. buckets'[i].epochSecond = second
    BY <1>1, <1>2 DEF NewBuckets
  <2> QED BY <1>2, <2>1
<1>3. CASE i # slot /\ i \in gone
  <2>1. buckets'[i] = EmptyBucket
    BY <1>3 DEF NewBuckets
  <2> QED BY <2>1 DEF EmptyBucket
<1>4. CASE i # slot /\ i \notin gone
  <2>1. buckets'[i] = buckets[i]
    BY <1>4 DEF NewBuckets
  <2> QED BY <2>1 DEF SlotDiscipline
<1> QED BY <1>2, <1>3, <1>4

-----------------------------------------------------------------------------
(* The inductive invariant.                                                 *)

(* A fresh engine: no bucket in use, no total, and a cache marked dirty.    *)
LEMMA InitIInv == Init => IInv
<1> SUFFICES ASSUME Init PROVE IInv
  OBVIOUS
<1> USE DEF Init
<1>1. NoCounts \in Counts
  BY DEF NoCounts, Counts
<1>2. TypeOK
  <2>1. <<>> \in Items
    BY DEF Items
  <2>2. IdleReader \in [pc : {"idle", "snap"}, n : Int, now : Nat]
    BY DEF IdleReader
  <2>3. IdleWriter \in [pc : {"idle", "add"}, query : Nat, score : Nat,
                        sec : Nat \ {0}, now : Nat]
    BY DEF IdleWriter
  <2>4. writer.pc = "idle"
    BY DEF IdleWriter
  <2>5. EmptyBucket \in [epochSecond : Nat, counts : Counts]
    BY <1>1 DEF EmptyBucket
  <2> QED BY <1>1, <2>1, <2>2, <2>3, <2>4, <2>5, WindowAssumption DEF TypeOK
<1>3. SlotDiscipline
  BY DEF SlotDiscipline, EmptyBucket
<1>4. TotalsMatchBuckets
  <2> SUFFICES ASSUME NEW q \in Queries PROVE totals[q] = Contribution(buckets, Slots, q)
    BY DEF TotalsMatchBuckets
  <2>1. \A i \in Slots : buckets[i].counts[q] = 0
    BY DEF EmptyBucket, NoCounts
  <2>2. totals[q] = 0
    BY DEF NoCounts
  <2> QED BY <2>1, <2>2, ContributionOfNone
<1>5. CachedFresh
  BY DEF CachedFresh
<1> QED BY <1>2, <1>3, <1>4, <1>5 DEF IInv

(* The second of an event is never 0.                                       *)
LEMMA SecondType ==
  ASSUME NEW stamp \in Stamps, clock \in Nat, clock >= TicksPerSecond
  PROVE  SecondOf(stamp) \in Nat \ {0}
BY WindowAssumption, SMTT(30) DEF SecondOf

(* Building a snapshot of a table of totals keeps the types and makes the   *)
(* cache fresh for that table.                                              *)
LEMMA RebuildStep ==
  ASSUME NEW t \in Counts, NEW now \in Nat, Rebuild(now, t)
  PROVE  /\ cached' \in [generatedAt : Nat, items : Items]
         /\ cached'.items = Ranked(t)
         /\ lastRebuildAt' \in Nat
         /\ dirty' \in BOOLEAN
BY RankedType DEF Rebuild

(* Every step keeps the invariant.                                          *)
LEMMA NextIInv == IInv /\ [Next]_vars => IInv'
<1> SUFFICES ASSUME IInv, [Next]_vars PROVE IInv'
  OBVIOUS
<1> USE DEF IInv
<1>1. ASSUME NEW query \in Queries, NEW score \in Scores, NEW stamp \in Stamps,
             AddBegin(query, score, stamp)
      PROVE  IInv'
  <2>1. SecondOf(stamp) \in Nat \ {0}
    BY SecondType DEF TypeOK
  <2>2. query \in Nat /\ score \in Nat
    BY <1>1, WindowAssumption DEF AddBegin
  <2>3. TypeOK'
    BY <1>1, <2>1, <2>2 DEF TypeOK, AddBegin, engineVars
  <2> QED BY <1>1, <2>3 DEF AddBegin, engineVars, SlotDiscipline,
                            TotalsMatchBuckets, CachedFresh
<1>2. ASSUME AddLocked PROVE IInv'
  <2> DEFINE gone == Expired(writer.sec) \cup Reused(writer.sec)
             t    == NewTotals(gone, writer.query, writer.score)
  <2>1. /\ buckets \in BucketsType /\ totals \in Counts
        /\ writer.query \in Queries /\ writer.score \in Nat
        /\ writer.sec \in Nat \ {0} /\ writer.now \in Nat
    BY <1>2 DEF TypeOK, BucketsType, AddLocked
  <2>2. /\ buckets' = NewBuckets(gone, writer.sec, writer.query, writer.score)
        /\ totals' = t
        /\ \/ Rebuild(writer.now, t)
           \/ MarkDirty
    BY <1>2 DEF AddLocked
  <2>3. gone \in SUBSET Slots
    BY <2>1, GoneType
  <2>4. buckets' \in BucketsType /\ totals' \in Counts
    <3> HIDE DEF gone
    <3> QED BY <2>1, <2>2, <2>3, AddTables
  <2>5. /\ cached' \in [generatedAt : Nat, items : Items]
        /\ lastRebuildAt' \in Nat
        /\ dirty' \in BOOLEAN
        /\ ~dirty' => cached'.items = Ranked(totals')
    <3> HIDE DEF t
    <3>1. CASE Rebuild(writer.now, t)
      BY <2>1, <2>2, <2>4, <3>1, RebuildStep
    <3>2. CASE MarkDirty
      BY <3>2 DEF MarkDirty, TypeOK
    <3> QED BY <2>2, <3>1, <3>2
  <2>6. TypeOK'
    <3>1. writer' \in [pc : {"idle", "add"}, query : Nat, score : Nat,
                       sec : Nat \ {0}, now : Nat]
          /\ writer'.pc = "idle"
      BY <1>2 DEF AddLocked, IdleWriter
    <3>2. UNCHANGED <<clock, readers, served>>
      BY <1>2 DEF AddLocked
    <3> QED BY <2>4, <2>5, <3>1, <3>2 DEF TypeOK, BucketsType
  <2>7. SlotDiscipline'
    BY <2>1, <2>2, AddSlots
  <2>8. TotalsMatchBuckets'
    <3> HIDE DEF gone
    <3> QED BY <2>1, <2>2, <2>3, AddRecount DEF TotalsMatchBuckets
  <2> QED BY <2>5, <2>6, <2>7, <2>8 DEF CachedFresh
<1>3. ASSUME NEW r \in Readers, NEW n \in Sizes, SnapBegin(r, n) PROVE IInv'
  <2>1. n \in Int
    BY WindowAssumption
  <2>2. TypeOK'
    BY <1>3, <2>1 DEF TypeOK, SnapBegin, engineVars
  <2> QED BY <1>3, <2>2 DEF SnapBegin, engineVars, SlotDiscipline,
                            TotalsMatchBuckets, CachedFresh
<1>4. ASSUME NEW r \in Readers, SnapLocked(r) PROVE IInv'
  <2>1. totals \in Counts /\ readers[r].now \in Nat /\ readers[r].n \in Int
    BY DEF TypeOK
  <2>2. UNCHANGED <<clock, buckets, totals, writer>>
    BY <1>4 DEF SnapLocked
  <2>3. /\ cached' \in [generatedAt : Nat, items : Items]
        /\ lastRebuildAt' \in Nat
        /\ dirty' \in BOOLEAN
        /\ cached'.items = Ranked(totals)
    <3>1. CASE Rebuild(readers[r].now, totals)
      BY <2>1, <3>1, RebuildStep
    <3>2. CASE ~dirty /\ UNCHANGED <<cached, lastRebuildAt, dirty>>
      BY <3>2 DEF TypeOK, CachedFresh
    <3> QED BY <1>4, <3>1, <3>2 DEF SnapLocked
  <2>4. TopItems(cached'.items, readers[r].n) \in Items
    BY <2>1, <2>3, TopItemsType
  <2>5. served' \in [Readers -> Items]
    BY <1>4, <2>4 DEF SnapLocked, TypeOK
  <2>6. readers' \in [Readers -> [pc : {"idle", "snap"}, n : Int, now : Nat]]
    BY <1>4 DEF SnapLocked, TypeOK, IdleReader
  <2>7. TypeOK'
    BY <2>2, <2>3, <2>5, <2>6 DEF TypeOK
  <2> QED BY <2>2, <2>3, <2>7 DEF SlotDiscipline, TotalsMatchBuckets, CachedFresh
<1>5. CASE Tick
  <2>1. TypeOK'
    BY <1>5, WindowAssumption DEF TypeOK, Tick, engineVars
  <2> QED BY <1>5, <2>1 DEF Tick, engineVars, SlotDiscipline, TotalsMatchBuckets,
                            CachedFresh
<1>6. CASE UNCHANGED vars
  BY <1>6 DEF vars, engineVars, TypeOK, SlotDiscipline, TotalsMatchBuckets, CachedFresh
<1> QED BY <1>1, <1>2, <1>3, <1>4, <1>5, <1>6 DEF Next

-----------------------------------------------------------------------------
(* The inductive invariant holds in every reachable state.                  *)
THEOREM Invariance == Spec => []IInv
BY InitIInv, NextIInv, PTL DEF Spec

(* Type correctness of the engine.                                          *)
THEOREM TypeCorrect == Spec => []TypeOK
<1>1. IInv => TypeOK
  BY DEF IInv
<1> QED BY <1>1, Invariance, PTL

(* The totals Add keeps by differences always equal a recount of the        *)
(* buckets, whatever the window length and however late events are.         *)
THEOREM TotalsCorrect == Spec => []TotalsMatchBuckets
<1>1. IInv => TotalsMatchBuckets
  BY DEF IInv
<1> QED BY <1>1, Invariance, PTL

(* A snapshot that is not marked dirty is never behind the totals.          *)
THEOREM CacheCorrect == Spec => []CachedFresh
<1>1. IInv => CachedFresh
  BY DEF IInv
<1> QED BY <1>1, Invariance, PTL

-----------------------------------------------------------------------------
(* Events that lag by less than the window.                                 *)

(* The event being added lags the newest second held by at most MaxLateness.*)
LatenessHeld ==
  writer.pc = "add" =>
    \A i \in Slots : writer.sec + MaxLateness >= buckets[i].epochSecond

SpanInv == IInv /\ LatenessHeld /\ WindowSpan

(* Division with remainder.                                                 *)
LEMMA DivisionWithRemainder ==
  ASSUME NEW n \in Nat, NEW w \in Nat, w > 0
  PROVE  n % w \in Int /\ \E d \in Int : n = w * d + (n % w)
OBVIOUS

(* Seconds of one slot that are less than a window apart are the same.      *)
LEMMA SameSlotSameSecond ==
  ASSUME NEW s \in Nat, NEW t \in Nat, BucketIndex(s) = BucketIndex(t),
         s - t < W, t - s < W
  PROVE  s = t
<1>0. W \in Nat /\ W > 0
  BY WindowAssumption
<1> DEFINE r == s % W
<1>1. PICK a \in Int : s = W * a + r
  BY <1>0, DivisionWithRemainder
<1>2. PICK b \in Int : t = W * b + r
  BY <1>0, DivisionWithRemainder DEF BucketIndex
<1>3. r \in Int
  BY <1>0, DivisionWithRemainder
<1> HIDE DEF r
<1>4. ~(a > b)
  <2> SUFFICES ASSUME a >= b + 1 PROVE FALSE
    OBVIOUS
  <2>1. W * a >= W * (b + 1)
    BY <1>0
  <2>2. W * (b + 1) = W * b + W
    BY <1>0
  <2> QED BY <1>0, <1>1, <1>2, <1>3, <2>1, <2>2
<1>5. ~(b > a)
  <2> SUFFICES ASSUME b >= a + 1 PROVE FALSE
    OBVIOUS
  <2>1. W * b >= W * (a + 1)
    BY <1>0
  <2>2. W * (a + 1) = W * a + W
    BY <1>0
  <2> QED BY <1>0, <1>1, <1>2, <1>3, <2>1, <2>2
<1> QED BY <1>0, <1>1, <1>2, <1>4, <1>5

(* What Add does to one slot: it is the new event's, emptied, or as it was  *)
(* and then not expired.                                                    *)
LEMMA AddSlotCases ==
  ASSUME IInv, AddLocked, NEW i \in Slots
  PROVE  \/ /\ i = BucketIndex(writer.sec)
            /\ buckets'[i].epochSecond = writer.sec
         \/ /\ i # BucketIndex(writer.sec)
            /\ i \in Expired(writer.sec)
            /\ buckets'[i].epochSecond = 0
         \/ /\ i # BucketIndex(writer.sec)
            /\ i \notin Expired(writer.sec)
            /\ buckets'[i] = buckets[i]
<1> DEFINE gone == Expired(writer.sec) \cup Reused(writer.sec)
<1>1. buckets' = NewBuckets(gone, writer.sec, writer.query, writer.score)
  BY DEF AddLocked
<1>2. BucketIndex(writer.sec) \in Slots
  BY IndexType DEF IInv, TypeOK
<1>3. i # BucketIndex(writer.sec) => (i \in gone <=> i \in Expired(writer.sec))
  BY DEF Reused
<1> HIDE DEF gone
<1> QED BY <1>1, <1>2, <1>3 DEF NewBuckets, EmptyBucket

(* The buckets in use stay within one window of each other.                 *)
LEMMA NextSpanInv ==
  ASSUME MaxLateness < W
  PROVE  SpanInv /\ [Next]_vars => SpanInv'
<1> SUFFICES ASSUME SpanInv, [Next]_vars PROVE SpanInv'
  OBVIOUS
<1>0. IInv /\ IInv'
  BY NextIInv DEF SpanInv
<1>1. ASSUME NEW query \in Queries, NEW score \in Scores, NEW stamp \in Stamps,
             AddBegin(query, score, stamp)
      PROVE  LatenessHeld' /\ WindowSpan'
  BY <1>1 DEF AddBegin, engineVars, LatenessHeld, WindowSpan, SpanInv
<1>2. ASSUME AddLocked PROVE LatenessHeld' /\ WindowSpan'
  <2>1. LatenessHeld'
    BY <1>2 DEF AddLocked, LatenessHeld, IdleWriter
  <2>2. writer.sec \in Nat /\ W \in Nat /\ MaxLateness \in Nat
    BY <1>0, WindowAssumption DEF IInv, TypeOK
  <2>3. ASSUME NEW i \in Slots, buckets'[i].epochSecond # 0
        PROVE  /\ buckets'[i].epochSecond \in Nat
               /\ writer.sec - buckets'[i].epochSecond < W
               /\ buckets'[i].epochSecond - writer.sec < W
               /\ \/ buckets'[i].epochSecond = writer.sec
                  \/ buckets'[i].epochSecond = buckets[i].epochSecond
    <3>1. buckets[i].epochSecond \in Nat
      BY <1>0 DEF IInv, TypeOK
    <3>2. writer.sec + MaxLateness >= buckets[i].epochSecond
      BY <1>2 DEF SpanInv, LatenessHeld, AddLocked
    <3>3. CASE buckets'[i].epochSecond = writer.sec
      BY <2>2, <3>3
    <3>4. CASE buckets'[i] = buckets[i] /\ i \notin Expired(writer.sec)
      BY <2>2, <2>3, <3>1, <3>2, <3>4 DEF Expired
    <3> QED BY <1>0, <1>2, <2>3, <3>3, <3>4, AddSlotCases
  <2>4. WindowSpan'
    <3> SUFFICES ASSUME NEW i \in Slots, NEW j \in Slots,
                        buckets'[i].epochSecond # 0, buckets'[j].epochSecond # 0
                 PROVE  buckets'[i].epochSecond - buckets'[j].epochSecond < W
      BY DEF WindowSpan
    <3>1. (buckets[i].epochSecond # 0 /\ buckets[j].epochSecond # 0)
            => buckets[i].epochSecond - buckets[j].epochSecond < W
      BY DEF SpanInv, WindowSpan
    <3> QED BY <2>2, <2>3, <3>1
  <2> QED BY <2>1, <2>4
<1>3. ASSUME NEW r \in Readers, NEW n \in Sizes, SnapBegin(r, n)
      PROVE  LatenessHeld' /\ WindowSpan'
  BY <1>3 DEF SnapBegin, engineVars, LatenessHeld, WindowSpan, SpanInv
<1>4. ASSUME NEW r \in Readers, SnapLocked(r) PROVE LatenessHeld' /\ WindowSpan'
  BY <1>4 DEF SnapLocked, LatenessHeld, WindowSpan, SpanInv
<1>5. CASE Tick
  BY <1>0, <1>5 DEF Tick, engineVars, LatenessHeld, WindowSpan, SpanInv
<1>6. CASE UNCHANGED vars
  BY <1>0, <1>6 DEF vars, engineVars, LatenessHeld, WindowSpan, SpanInv
<1>7. SpanInv'
  BY <1>0, <1>1, <1>2, <1>3, <1>4, <1>5, <1>6 DEF Next, SpanInv
<1> QED BY <1>7

(* The strengthened invariant holds when events lag less than the window.   *)
LEMMA SpanInvariance ==
  ASSUME MaxLateness < W
  PROVE  Spec => []SpanInv
<1>1. Init => SpanInv
  BY InitIInv DEF Init, SpanInv, LatenessHeld, WindowSpan, IdleWriter, EmptyBucket
<1>2. SpanInv /\ [Next]_vars => SpanInv'
  BY NextSpanInv
<1> QED BY <1>1, <1>2, PTL DEF Spec

(* With events that lag by less than the window, what the engine holds is   *)
(* always a part of one window of W seconds.                                *)
THEOREM WindowCorrect ==
  ASSUME MaxLateness < W
  PROVE  Spec => []WindowSpan
<1>1. SpanInv => WindowSpan
  BY DEF SpanInv
<1> QED BY <1>1, SpanInvariance, PTL

(* With events that lag by less than the window, Add forgets a second only  *)
(* when it has left the window.                                             *)
THEOREM OnlyExpiredDropped ==
  ASSUME MaxLateness < W
  PROVE  Spec => DropsOnlyExpired
<1> DEFINE Body == \A i \in Slots :
       (buckets[i].epochSecond # 0 /\ buckets'[i].epochSecond # buckets[i].epochSecond)
         => \E j \in Slots : buckets'[j].epochSecond - buckets[i].epochSecond >= W
<1>1. SpanInv /\ [Next]_vars => [Body]_vars
  <2> SUFFICES ASSUME SpanInv, [Next]_vars, NEW i \in Slots,
                      buckets[i].epochSecond # 0,
                      buckets'[i].epochSecond # buckets[i].epochSecond
               PROVE  \E j \in Slots :
                        buckets'[j].epochSecond - buckets[i].epochSecond >= W
    OBVIOUS
  <2>1. AddLocked
    BY DEF Next, AddBegin, SnapBegin, SnapLocked, Tick, vars, engineVars
  <2>2. /\ writer.sec \in Nat /\ W \in Nat /\ MaxLateness \in Nat
        /\ buckets[i].epochSecond \in Nat
    BY WindowAssumption DEF SpanInv, IInv, TypeOK
  <2> DEFINE slot == BucketIndex(writer.sec)
  <2>3. slot \in Slots /\ buckets'[slot].epochSecond = writer.sec
    BY <2>1, <2>2, IndexType, AddSlotCases DEF SpanInv
  <2>4. CASE i \in Expired(writer.sec)
    BY <2>3, <2>4 DEF Expired
  <2>5. CASE i = slot /\ i \notin Expired(writer.sec)
    <3>1. buckets[i].epochSecond # writer.sec
      BY <2>3, <2>5
    <3>2. writer.sec - buckets[i].epochSecond < W
      BY <2>2, <2>5 DEF Expired
    <3>3. writer.sec + MaxLateness >= buckets[i].epochSecond
      BY <2>1 DEF SpanInv, LatenessHeld, AddLocked
    <3>4. BucketIndex(buckets[i].epochSecond) = BucketIndex(writer.sec)
      BY <2>5 DEF SpanInv, IInv, SlotDiscipline
    <3> QED BY <2>2, <3>1, <3>2, <3>3, <3>4, SameSlotSameSecond
  <2>6. CASE i # slot /\ i \notin Expired(writer.sec)
    BY <2>1, <2>6, AddSlotCases DEF SpanInv
  <2> QED BY <2>4, <2>5, <2>6
<1> HIDE DEF Body
<1>2. Spec => [][Body]_vars
  BY <1>1, SpanInvariance, PTL DEF Spec
<1> QED BY <1>2 DEF Body, DropsOnlyExpired

-----------------------------------------------------------------------------
(* What Snapshot returns.                                                   *)

(* The place decides who beats whom.                                        *)
LEMMA PlaceOrder ==
  ASSUME NEW t \in Counts, NEW p \in Positive(t), NEW q \in Positive(t)
  PROVE  /\ Place(t, p) = Place(t, q) => p = q
         /\ Place(t, p) < Place(t, q) => Beats(t, p, q)
<1>1. Beats(t, p, q) \/ Beats(t, q, p) \/ p = q
  BY WindowAssumption DEF Beats, Positive, Counts
<1>2. Place(t, p) \in Nat /\ Place(t, q) \in Nat
  <2>1. \A x \in 1..Cardinality(Positive(t)) : x \in Nat
    OBVIOUS
  <2> QED BY <2>1, PlaceType
<1>3. Beats(t, p, q) => Place(t, p) < Place(t, q)
  BY PlaceInjective
<1>4. Beats(t, q, p) => Place(t, q) < Place(t, p)
  BY PlaceInjective
<1> QED BY <1>1, <1>2, <1>3, <1>4

(* The copied prefix of the ranking is the answer to "the n best of t".     *)
LEMMA PrefixIsTop ==
  ASSUME NEW t \in Counts, NEW n \in Int
  PROVE  Abs!IsTop(TopItems(Ranked(t), n), n, t)
<1> DEFINE live  == Positive(t)
           N     == Cardinality(live)
           size  == IF n <= 0 THEN 10 ELSE n
           last  == IF size < N THEN size ELSE N
           items == TopItems(Ranked(t), n)
           listed == {items[k].query : k \in DOMAIN items}
<1>1. N \in Nat
  BY WindowAssumption, FS_Subset, FS_CardinalityType DEF Positive
<1>2. last \in Nat /\ last <= N /\ last <= size
  BY <1>1
<1>3. items = SubSeq(Ranked(t), 1, last)
  BY RankedType DEF TopItems
<1>4. Ranked(t) \in Seq(Item) /\ Len(Ranked(t)) = N
  BY RankedType DEF Items
<1> HIDE DEF N, last, items
<1>5. /\ Len(items) = last
      /\ DOMAIN items = 1..last
      /\ \A k \in 1..last : items[k] = Ranked(t)[k]
  BY <1>1, <1>2, <1>3, <1>4
<1>6. \A k \in 1..last : /\ items[k].query \in live
                         /\ Place(t, items[k].query) = k
                         /\ items[k].score = t[items[k].query]
  <2> TAKE k \in 1..last
  <2>1. k \in 1..N
    BY <1>1, <1>2
  <2>2. PICK q \in live : Place(t, q) = k /\ Ranked(t)[k] = [query |-> q, score |-> t[q]]
    BY <2>1, RankedAt DEF N
  <2> QED BY <1>5, <2>2
<1>7. \A j, k \in DOMAIN items : j < k => Beats(t, items[j].query, items[k].query)
  BY <1>5, <1>6, PlaceOrder
<1>8. \A q \in live \ listed, k \in DOMAIN items : Beats(t, items[k].query, q)
  <2> SUFFICES ASSUME NEW q \in live, q \notin listed, NEW k \in 1..last
               PROVE  Beats(t, items[k].query, q)
    BY <1>5
  <2> DEFINE p == Place(t, q)
  <2>1. p \in 1..N
    BY PlaceType DEF N
  <2>2. p \notin 1..last
    <3> SUFFICES ASSUME p \in 1..last PROVE FALSE
      OBVIOUS
    <3>1. Place(t, items[p].query) = Place(t, q)
      BY <1>6
    <3>2. items[p].query = q
      BY <1>6, <3>1, PlaceOrder
    <3> QED BY <1>5, <3>2
  <2> HIDE DEF p
  <2>3. k < p
    BY <1>1, <1>2, <2>1, <2>2
  <2> QED BY <1>6, <2>3, PlaceOrder DEF p
<1>9. listed \subseteq live
  BY <1>5, <1>6
<1>10. \A p, q : Abs!Beats(t, p, q) <=> Beats(t, p, q)
  BY DEF Abs!Beats, Beats
<1>11. Len(items) = (IF size < N THEN size ELSE N)
  BY <1>5 DEF last
<1>12. \A k \in DOMAIN items : items[k].score = t[items[k].query]
  BY <1>5, <1>6
<1>13. Abs!Cardinality(live) = Cardinality(live)
  BY DEF Abs!Cardinality, Cardinality
<1>14. Abs!IsTop(items, n, t)
  <2> HIDE DEF listed, size
  <2> QED BY <1>7, <1>8, <1>9, <1>10, <1>11, <1>12, <1>13
          DEF Abs!IsTop, N, Positive, listed, size
<1> QED BY <1>14 DEF items

(* Every answer is the exact top of the buckets held at the moment of the   *)
(* lock, on every path through the cache.                                   *)
THEOREM SnapshotCorrect == Spec => ServesLiveBuckets
<1> DEFINE Body == \A r \in Readers : Returns(r) =>
       Abs!IsTop(served'[r], readers[r].n,
                 [q \in Queries |-> Contribution(buckets, Slots, q)])
<1>1. IInv /\ [Next]_vars => [Body]_vars
  <2> SUFFICES ASSUME IInv, [Next]_vars, NEW r \in Readers, Returns(r)
               PROVE  Abs!IsTop(served'[r], readers[r].n,
                                [q \in Queries |-> Contribution(buckets, Slots, q)])
    OBVIOUS
  <2>1. totals = [q \in Queries |-> Contribution(buckets, Slots, q)]
    BY DEF IInv, TypeOK, Counts, TotalsMatchBuckets
  <2>2. SnapLocked(r)
    <3>1. ASSUME NEW x \in Readers, x # r, SnapLocked(x) PROVE FALSE
      BY <3>1 DEF SnapLocked, Returns, IInv, TypeOK
    <3>2. ASSUME NEW x \in Readers, NEW n \in Sizes, SnapBegin(x, n) PROVE FALSE
      BY <3>2 DEF SnapBegin, Returns, IInv, TypeOK
    <3> QED BY <3>1, <3>2 DEF Next, AddBegin, AddLocked, Tick, vars, Returns
  <2>3. cached'.items = Ranked(totals)
    BY <2>2, RebuildStep DEF SnapLocked, Rebuild, IInv, CachedFresh
  <2>4. served'[r] = TopItems(Ranked(totals), readers[r].n)
    BY <2>2, <2>3 DEF SnapLocked, IInv, TypeOK
  <2>5. totals \in Counts /\ readers[r].n \in Int
    BY DEF IInv, TypeOK
  <2> QED BY <2>1, <2>4, <2>5, PrefixIsTop
<1> HIDE DEF Body
<1>2. Spec => [][Body]_vars
  BY <1>1, Invariance, PTL DEF Spec
<1> QED BY <1>2 DEF Body, ServesLiveBuckets

-----------------------------------------------------------------------------
(* The engine implements the sliding window, when events lag by less than   *)
(* the window.                                                              *)

(* Some bucket holds the newest second.                                     *)
HasNewest ==
  \E i \in Slots : \A j \in Slots : buckets[j].epochSecond <= buckets[i].epochSecond

(* Every call under way carries arguments its caller may pass, and what is  *)
(* held was stamped with a second that the events and the clock can show.   *)
InputsHeld ==
  /\ clock \in StartClock..MaxClock
  /\ writer.pc = "add" => /\ writer.sec \in Seconds
                          /\ writer.score \in {s \in Scores : s > 0}
  /\ \A i \in Slots : buckets[i].epochSecond \in Seconds \cup {0}
  /\ \A r \in Readers : readers[r].pc = "snap" => readers[r].n \in Sizes

RefInv == SpanInv /\ HasNewest /\ InputsHeld

(* The second of an event is one the stamps or the clock can show.          *)
LEMMA SecondHeld ==
  ASSUME NEW stamp \in Stamps, clock \in StartClock..MaxClock
  PROVE  SecondOf(stamp) \in Seconds
<1>1. StartClock \in Nat /\ MaxClock \in Nat /\ TicksPerSecond \in Nat /\ StartClock >= TicksPerSecond
  BY WindowAssumption
<1>2. CASE stamp >= TicksPerSecond
  BY <1>2 DEF SecondOf, Seconds
<1>3. CASE ~(stamp >= TicksPerSecond)
  <2>1. clock >= TicksPerSecond
    BY <1>1
  <2> QED BY <1>3, <2>1 DEF SecondOf, Seconds
<1> QED BY <1>2, <1>3

(* Every such second is a positive number, which an empty bucket's is not.  *)
LEMMA SecondsType ==
  ASSUME NEW s \in Seconds
  PROVE  s \in Nat \ {0} /\ BucketIndex(s) \in Slots
<1>1. PICK stamp \in Stamps \cup (StartClock..MaxClock) :
        stamp >= TicksPerSecond /\ s = stamp \div TicksPerSecond
  BY DEF Seconds
<1>2. stamp \in Int /\ TicksPerSecond \in Nat \ {0}
  BY WindowAssumption
<1>3. stamp \div TicksPerSecond \in Nat \ {0}
  BY <1>1, <1>2, SMTT(30)
<1> QED BY <1>1, <1>3, IndexType

(* The largest of some numbers is the one that is not exceeded.             *)
LEMMA LargestIs ==
  ASSUME NEW S \in SUBSET Nat, NEW m \in S, \A y \in S : y <= m
  PROVE  Largest(S) = m
<1>1. Largest(S) \in S /\ \A y \in S : y <= Largest(S)
  BY DEF Largest
<1>2. Largest(S) \in Nat /\ m \in Nat /\ m <= Largest(S) /\ Largest(S) <= m
  BY <1>1
<1> QED BY <1>2

(* The newest second held by the buckets b.                                 *)
LEMMA NewestIs ==
  ASSUME NEW b \in BucketsType, NEW i \in Slots,
         \A j \in Slots : b[j].epochSecond <= b[i].epochSecond
  PROVE  Largest({b[j].epochSecond : j \in Slots}) = b[i].epochSecond
<1> DEFINE E == {b[j].epochSecond : j \in Slots}
<1>1. E \in SUBSET Nat
  BY DEF BucketsType
<1>2. b[i].epochSecond \in E /\ \A y \in E : y <= b[i].epochSecond
  OBVIOUS
<1> HIDE DEF E
<1>3. Largest(E) = b[i].epochSecond
  BY <1>1, <1>2, LargestIs
<1> QED BY <1>3 DEF E

(* Adding an event moves the newest second exactly when the event is newer. *)
LEMMA AddNewest ==
  ASSUME SpanInv, AddLocked, MaxLateness < W, NEW i \in Slots,
         \A j \in Slots : buckets[j].epochSecond <= buckets[i].epochSecond
  PROVE  LET last == IF writer.sec > buckets[i].epochSecond
                     THEN writer.sec ELSE buckets[i].epochSecond
         IN  \E k \in Slots : /\ buckets'[k].epochSecond = last
                              /\ \A j \in Slots : buckets'[j].epochSecond <= last
<1> DEFINE sec  == writer.sec
           slot == BucketIndex(sec)
           m    == buckets[i].epochSecond
<1>0. IInv
  BY DEF SpanInv
<1>1. /\ sec \in Nat \ {0} /\ W \in Nat \ {0} /\ MaxLateness \in Nat
      /\ slot \in Slots
      /\ \A j \in Slots : buckets[j].epochSecond \in Nat
  BY <1>0, WindowAssumption, IndexType DEF IInv, TypeOK
<1>2. m \in Nat /\ \A j \in Slots : buckets[j].epochSecond <= m
  BY <1>1
<1>3. buckets'[slot].epochSecond = sec
  BY <1>0, <1>1, AddSlotCases
<1>4. \A j \in Slots : \/ buckets'[j].epochSecond = sec
                       \/ buckets'[j].epochSecond = 0
                       \/ buckets'[j].epochSecond = buckets[j].epochSecond
  BY <1>0, AddSlotCases
<1>5. CASE sec > m
  <2>1. \A j \in Slots : buckets'[j].epochSecond <= sec
    <3> TAKE j \in Slots
    <3> HIDE DEF sec, m
    <3> QED BY <1>1, <1>2, <1>4, <1>5
  <2> QED BY <1>1, <1>3, <1>5, <2>1
<1>6. CASE ~(sec > m)
  <2>1. sec + MaxLateness >= m
    BY DEF SpanInv, LatenessHeld, AddLocked
  <2>2. i \notin Expired(sec)
    <3> HIDE DEF sec
    <3> QED BY <1>1, <1>6 DEF Expired
  <2>3. buckets'[i].epochSecond = m
    <3>1. CASE i = slot
      <4>1. m # 0
        <5> HIDE DEF sec, m
        <5> QED BY <1>1, <1>2, <1>6
      <4>2. BucketIndex(m) = BucketIndex(sec)
        BY <1>0, <3>1, <4>1 DEF IInv, SlotDiscipline
      <4>3. m - sec < W /\ sec - m < W
        <5> HIDE DEF sec, m
        <5> QED BY <1>1, <1>2, <1>6, <2>1
      <4>4. m = sec
        <5> HIDE DEF sec, m
        <5> QED BY <1>1, <1>2, <4>2, <4>3, SameSlotSameSecond
      <4> QED BY <1>3, <3>1, <4>4
    <3>2. CASE i # slot
      BY <1>0, <2>2, <3>2, AddSlotCases
    <3> QED BY <3>1, <3>2
  <2>4. \A j \in Slots : buckets'[j].epochSecond <= m
    <3> TAKE j \in Slots
    <3> HIDE DEF sec, m
    <3> QED BY <1>1, <1>2, <1>4, <1>6
  <2> QED BY <1>6, <2>3, <2>4
<1> QED BY <1>5, <1>6

(* The invariant of the refinement is kept by every step.                   *)
LEMMA NextRefInv ==
  ASSUME MaxLateness < W
  PROVE  RefInv /\ [Next]_vars => RefInv'
<1> SUFFICES ASSUME RefInv, [Next]_vars PROVE RefInv'
  OBVIOUS
<1>0. SpanInv' /\ SpanInv
  BY NextSpanInv DEF RefInv
<1>1. ASSUME NEW query \in Queries, NEW score \in Scores, NEW stamp \in Stamps,
             AddBegin(query, score, stamp)
      PROVE  HasNewest' /\ InputsHeld'
  <2>1. SecondOf(stamp) \in Seconds
    BY SecondHeld DEF RefInv, InputsHeld
  <2> QED BY <1>1, <2>1 DEF AddBegin, engineVars, RefInv, HasNewest, InputsHeld
<1>2. ASSUME AddLocked PROVE HasNewest' /\ InputsHeld'
  <2>1. HasNewest'
    <3>1. PICK i \in Slots :
            \A j \in Slots : buckets[j].epochSecond <= buckets[i].epochSecond
      BY DEF RefInv, HasNewest
    <3>2. \E k \in Slots : \A j \in Slots :
            buckets'[j].epochSecond <= buckets'[k].epochSecond
      BY <1>0, <1>2, <3>1, AddNewest
    <3> QED BY <3>2 DEF HasNewest
  <2>2. \A i \in Slots : buckets'[i].epochSecond \in Seconds \cup {0}
    BY <1>0, <1>2, AddSlotCases DEF SpanInv, RefInv, InputsHeld, AddLocked
  <2> QED BY <1>2, <2>1, <2>2 DEF AddLocked, IdleWriter, RefInv, InputsHeld
<1>3. ASSUME NEW r \in Readers, NEW n \in Sizes, SnapBegin(r, n)
      PROVE  HasNewest' /\ InputsHeld'
  <2>1. \A x \in Readers : readers'[x].pc = "snap" => readers'[x].n \in Sizes
    BY <1>0, <1>3 DEF SnapBegin, RefInv, InputsHeld, SpanInv, IInv, TypeOK
  <2> QED BY <1>3, <2>1 DEF SnapBegin, engineVars, RefInv, HasNewest, InputsHeld
<1>4. ASSUME NEW r \in Readers, SnapLocked(r) PROVE HasNewest' /\ InputsHeld'
  <2>1. \A x \in Readers : readers'[x].pc = "snap" => readers'[x].n \in Sizes
    BY <1>0, <1>4 DEF SnapLocked, IdleReader, RefInv, InputsHeld, SpanInv, IInv, TypeOK
  <2> QED BY <1>4, <2>1 DEF SnapLocked, RefInv, HasNewest, InputsHeld
<1>5. ASSUME Tick PROVE HasNewest' /\ InputsHeld'
  <2>1. clock' \in StartClock..MaxClock
    BY <1>5, WindowAssumption DEF Tick, RefInv, InputsHeld
  <2> QED BY <1>5, <2>1 DEF Tick, engineVars, RefInv, HasNewest, InputsHeld
<1>6. ASSUME UNCHANGED vars PROVE HasNewest' /\ InputsHeld'
  BY <1>6 DEF vars, engineVars, RefInv, HasNewest, InputsHeld
<1> QED BY <1>0, <1>1, <1>2, <1>3, <1>4, <1>5, <1>6 DEF Next, RefInv

(* The invariant of the refinement holds.                                   *)
LEMMA RefInvariance ==
  ASSUME MaxLateness < W
  PROVE  Spec => []RefInv
<1>1. Init => RefInv
  <2> SUFFICES ASSUME Init PROVE HasNewest /\ InputsHeld /\ SpanInv
    BY DEF RefInv
  <2>1. SpanInv
    BY InitIInv DEF Init, SpanInv, LatenessHeld, WindowSpan, IdleWriter, EmptyBucket
  <2>2. 0 \in Slots
    BY WindowAssumption DEF Slots
  <2>3. HasNewest
    BY <2>2 DEF Init, HasNewest, EmptyBucket
  <2>4. InputsHeld
    BY WindowAssumption DEF Init, InputsHeld, IdleWriter, IdleReader, EmptyBucket
  <2> QED BY <2>1, <2>3, <2>4
<1>2. RefInv /\ [Next]_vars => RefInv'
  BY NextRefInv
<1> QED BY <1>1, <1>2, PTL DEF Spec

(* The counts held second by second are those held slot by slot.            *)
LEMMA WeightHeld ==
  ASSUME RefInv, NEW q \in Queries
  PROVE  Abs!Weight(q) = Contribution(buckets, Slots, q)
<1> DEFINE A == UNION {{s} \X (1..VotesHeld[s][q]) : s \in Seconds}
           B == UnitVotes(buckets, Slots, q)
           g == [x \in B |-> <<buckets[x[1]].epochSecond, x[2]>>]
<1>0. IInv /\ buckets \in BucketsType
  BY DEF RefInv, SpanInv, IInv, TypeOK, BucketsType
<1>1. IsFiniteSet(B)
  BY <1>0, UnitVotesFinite
<1>2. ASSUME NEW i \in Slots, NEW u \in 1..buckets[i].counts[q]
      PROVE  /\ buckets[i].epochSecond \in Seconds
             /\ BucketIndex(buckets[i].epochSecond) = i
             /\ VotesHeld[buckets[i].epochSecond] = buckets[i].counts
  <2>1. buckets[i].epochSecond # 0
    <3> SUFFICES ASSUME buckets[i].epochSecond = 0 PROVE FALSE
      OBVIOUS
    <3>1. buckets[i].counts[q] = 0
      BY <1>0 DEF IInv, SlotDiscipline, NoCounts
    <3> QED BY <1>2, <3>1
  <2>2. buckets[i].epochSecond \in Seconds
    BY <2>1 DEF RefInv, InputsHeld
  <2>3. BucketIndex(buckets[i].epochSecond) = i
    BY <1>0, <2>1 DEF IInv, SlotDiscipline
  <2> QED BY <2>2, <2>3 DEF VotesHeld
<1>3. ASSUME NEW s \in Seconds, NEW u \in 1..VotesHeld[s][q]
      PROVE  /\ buckets[BucketIndex(s)].epochSecond = s
             /\ u \in 1..buckets[BucketIndex(s)].counts[q]
  <2>1. VotesHeld[s] = IF buckets[BucketIndex(s)].epochSecond = s
                       THEN buckets[BucketIndex(s)].counts ELSE NoCounts
    BY DEF VotesHeld
  <2>2. NoCounts[q] = 0
    BY DEF NoCounts
  <2> QED BY <1>3, <2>1, <2>2
<1>4. \A x \in B : \E i \in Slots : \E u \in 1..buckets[i].counts[q] : x = <<i, u>>
  BY DEF UnitVotes
<1>5. \A i \in Slots : \A u \in 1..buckets[i].counts[q] : <<i, u>> \in B
  BY DEF UnitVotes
<1>6. \A x \in A : \E s \in Seconds : \E u \in 1..VotesHeld[s][q] : x = <<s, u>>
  OBVIOUS
<1>7. \A s \in Seconds : \A u \in 1..VotesHeld[s][q] : <<s, u>> \in A
  OBVIOUS
<1> HIDE DEF A, B
<1>8. g \in [B -> A]
  <2> SUFFICES ASSUME NEW x \in B PROVE <<buckets[x[1]].epochSecond, x[2]>> \in A
    OBVIOUS
  <2>1. PICK i \in Slots : \E u \in 1..buckets[i].counts[q] : x = <<i, u>>
    BY <1>4
  <2>2. PICK u \in 1..buckets[i].counts[q] : x = <<i, u>>
    BY <2>1
  <2> QED BY <1>2, <1>7, <2>2
<1>9. \A x, y \in B : g[x] = g[y] => x = y
  <2> SUFFICES ASSUME NEW x \in B, NEW y \in B, g[x] = g[y] PROVE x = y
    OBVIOUS
  <2>1. PICK i \in Slots : \E u \in 1..buckets[i].counts[q] : x = <<i, u>>
    BY <1>4
  <2>2. PICK u \in 1..buckets[i].counts[q] : x = <<i, u>>
    BY <2>1
  <2>3. PICK j \in Slots : \E v \in 1..buckets[j].counts[q] : y = <<j, v>>
    BY <1>4
  <2>4. PICK v \in 1..buckets[j].counts[q] : y = <<j, v>>
    BY <2>3
  <2>5. buckets[i].epochSecond = buckets[j].epochSecond /\ u = v
    BY <2>2, <2>4
  <2>6. i = j
    BY <1>2, <2>5
  <2> QED BY <2>2, <2>4, <2>5, <2>6
<1>10. \A y \in A : \E x \in B : g[x] = y
  <2> SUFFICES ASSUME NEW y \in A PROVE \E x \in B : g[x] = y
    OBVIOUS
  <2>0. PICK s \in Seconds : \E u \in 1..VotesHeld[s][q] : y = <<s, u>>
    BY <1>6
  <2>1. PICK u \in 1..VotesHeld[s][q] : y = <<s, u>>
    BY <2>0
  <2>2. BucketIndex(s) \in Slots
    BY SecondsType
  <2>3. <<BucketIndex(s), u>> \in B
    BY <1>3, <1>5, <2>2
  <2>4. g[<<BucketIndex(s), u>>] = y
    BY <1>3, <2>1, <2>3
  <2> QED BY <2>3, <2>4
<1>11. g \in Bijection(B, A)
  BY <1>8, <1>9, <1>10, Fun_IsBij
<1>12. Cardinality(A) = Cardinality(B)
  BY <1>1, <1>11, FS_Bijection DEF ExistsBijection
<1>13. Abs!Cardinality(A) = Cardinality(A)
  BY DEF Abs!Cardinality, Cardinality
<1>14. Abs!Weight(q) = Abs!Cardinality(A)
  BY DEF Abs!Weight, A
<1> QED BY <1>12, <1>13, <1>14 DEF Contribution, B

(* A fresh engine holds no vote.                                            *)
LEMMA InitRefines == Init => Abs!Init
<1> SUFFICES ASSUME Init PROVE Abs!Init
  OBVIOUS
<1>1. 0 \in Slots /\ \A i \in Slots : buckets[i] = EmptyBucket
  BY WindowAssumption DEF Init, Slots
<1>2. buckets \in BucketsType
  BY InitIInv DEF IInv, TypeOK, BucketsType
<1>3. NewestHeld = 0
  <2>1. \A i \in Slots : buckets[i].epochSecond = 0
    BY <1>1 DEF EmptyBucket
  <2>2. \A j \in Slots : buckets[j].epochSecond <= buckets[0].epochSecond
    BY <1>1, <2>1
  <2>3. NewestHeld = buckets[0].epochSecond
    BY <1>1, <1>2, <2>2, NewestIs DEF NewestHeld
  <2> QED BY <1>1, <2>1, <2>3
<1>4. \A s \in Seconds : VotesHeld[s] = NoCounts
  BY <1>1, SecondsType DEF VotesHeld, EmptyBucket
<1>5. VotesHeld = [s \in Seconds |-> Abs!NoVotes]
  <2>1. VotesHeld = [s \in Seconds |-> VotesHeld[s]]
    BY DEF VotesHeld
  <2>2. Abs!NoVotes = NoCounts
    BY DEF Abs!NoVotes, NoCounts
  <2> QED BY <1>4, <2>1, <2>2
<1>6. served = [r \in Readers |-> <<>>]
  BY DEF Init
<1> QED BY <1>3, <1>5, <1>6 DEF Abs!Init

(* What the step of Add leaves held for one second.                         *)
LEMMA AddHeld ==
  ASSUME RefInv, RefInv', AddLocked, MaxLateness < W,
         NEW last \in Nat, last >= writer.sec,
         \E k \in Slots : buckets'[k].epochSecond = last,
         NEW t \in Seconds
  PROVE  VotesHeld'[t] =
           IF t <= last - W THEN NoCounts
           ELSE IF t = writer.sec
             THEN [VotesHeld[t] EXCEPT ![writer.query] = @ + writer.score]
           ELSE VotesHeld[t]
<1> DEFINE sec  == writer.sec
           slot == BucketIndex(sec)
           j    == BucketIndex(t)
           gone == Expired(sec) \cup Reused(sec)
<1>0. IInv /\ IInv' /\ WindowSpan'
  BY DEF RefInv, SpanInv
<1>1. /\ sec \in Nat \ {0} /\ W \in Nat \ {0} /\ MaxLateness \in Nat
      /\ slot \in Slots
      /\ \A i \in Slots : buckets[i].epochSecond \in Nat
      /\ \A i \in Slots : buckets'[i].epochSecond \in Nat
  BY <1>0, WindowAssumption, IndexType DEF IInv, TypeOK
<1>2. t \in Nat \ {0} /\ j \in Slots
  BY SecondsType
<1>3. VotesHeld[t] = IF buckets[j].epochSecond = t THEN buckets[j].counts ELSE NoCounts
  BY DEF VotesHeld
<1>4. VotesHeld'[t] = IF buckets'[j].epochSecond = t THEN buckets'[j].counts ELSE NoCounts
  BY DEF VotesHeld
<1>5. buckets'[slot].epochSecond = sec
  BY <1>0, <1>1, AddSlotCases
<1>6. sec + MaxLateness >= buckets[j].epochSecond
  BY <1>2 DEF RefInv, SpanInv, LatenessHeld, AddLocked
<1>7. buckets' = NewBuckets(gone, sec, writer.query, writer.score)
  BY DEF AddLocked
<1>8. PICK k \in Slots : buckets'[k].epochSecond = last
  OBVIOUS
<1>9. last \in Nat /\ last >= sec
  OBVIOUS
<1>10. CASE t <= last - W
  <2>1. ASSUME buckets'[j].epochSecond = t PROVE FALSE
    <3>1. buckets'[k].epochSecond - buckets'[j].epochSecond < W
      <4>1. last # 0
        <5> HIDE DEF sec
        <5> QED BY <1>1, <1>9
      <4> QED BY <1>0, <1>2, <1>8, <2>1, <4>1 DEF WindowSpan
    <3>2. last - t < W
      BY <1>8, <2>1, <3>1
    <3> QED BY <1>1, <1>2, <1>10, <3>2
  <2> QED BY <1>4, <1>10, <2>1
<1>11. CASE ~(t <= last - W) /\ t = sec
  <2>1. /\ buckets'[slot].counts
            = [(IF slot \in gone THEN EmptyBucket ELSE buckets[slot]).counts
                 EXCEPT ![writer.query] = @ + writer.score]
    <3> HIDE DEF gone, slot
    <3> QED BY <1>1, <1>7 DEF NewBuckets, slot
  <2>2. VotesHeld[t] = (IF slot \in gone THEN EmptyBucket ELSE buckets[slot]).counts
    <3>1. CASE buckets[slot].epochSecond = sec
      <4>1. slot \notin gone
        BY <1>1, <3>1 DEF Expired, Reused
      <4> HIDE DEF gone, slot
      <4> QED BY <1>3, <1>11, <3>1, <4>1 DEF slot
    <3>2. CASE buckets[slot].epochSecond # sec
      <4>1. slot \in gone
        BY <3>2 DEF Reused
      <4> HIDE DEF gone, slot
      <4> QED BY <1>3, <1>11, <3>2, <4>1 DEF slot, EmptyBucket
    <3> QED BY <3>1, <3>2
  <2>3. VotesHeld'[t] = buckets'[slot].counts
    BY <1>4, <1>5, <1>11
  <2> HIDE DEF gone, slot
  <2> QED BY <1>11, <2>1, <2>2, <2>3
<1>12. CASE ~(t <= last - W) /\ t # sec
  <2>1. VotesHeld'[t] = VotesHeld[t]
    <3>1. CASE j = slot
      <4>1. VotesHeld'[t] = NoCounts
        BY <1>4, <1>5, <1>12, <3>1
      <4>2. buckets[j].epochSecond # t
        <5> SUFFICES ASSUME buckets[j].epochSecond = t PROVE FALSE
          OBVIOUS
        <5>1. sec - t < W /\ t - sec < W
          <6> HIDE DEF sec, j
          <6> QED BY <1>1, <1>2, <1>6, <1>9, <1>12
        <5> QED BY <1>1, <1>2, <1>12, <3>1, <5>1, SameSlotSameSecond
      <4> QED BY <1>3, <4>1, <4>2
    <3>2. CASE j # slot /\ j \in Expired(sec)
      <4>1. buckets'[j].epochSecond = 0
        BY <1>0, <1>2, <3>2, AddSlotCases
      <4>2. buckets[j].epochSecond # t
        <5>1. sec - buckets[j].epochSecond >= W
          BY <3>2 DEF Expired
        <5> HIDE DEF sec, j
        <5> QED BY <1>1, <1>2, <1>9, <1>12, <5>1
      <4> QED BY <1>2, <1>3, <1>4, <4>1, <4>2
    <3>3. CASE j # slot /\ j \notin Expired(sec)
      <4>1. buckets'[j] = buckets[j]
        BY <1>0, <1>2, <3>3, AddSlotCases
      <4> QED BY <1>3, <1>4, <4>1
    <3> QED BY <3>1, <3>2, <3>3
  <2> QED BY <1>12, <2>1
<1> QED BY <1>10, <1>11, <1>12

(* The critical section of Add is one vote.                                 *)
LEMMA AddRefines ==
  ASSUME MaxLateness < W, RefInv, RefInv', AddLocked
  PROVE  Abs!Vote(writer.query, writer.score, writer.sec)
<1> DEFINE sec  == writer.sec
<1>0. IInv /\ SpanInv /\ IInv'
  BY DEF RefInv, SpanInv
<1>1. /\ sec \in Nat \ {0} /\ W \in Nat \ {0} /\ MaxLateness \in Nat
      /\ buckets \in BucketsType /\ buckets' \in BucketsType
  BY <1>0, WindowAssumption DEF IInv, TypeOK, BucketsType
<1>2. PICK i \in Slots :
        \A j \in Slots : buckets[j].epochSecond <= buckets[i].epochSecond
  BY DEF RefInv, HasNewest
<1> DEFINE m    == buckets[i].epochSecond
           last == IF sec > m THEN sec ELSE m
<1>3. NewestHeld = m /\ m \in Nat
  BY <1>1, <1>2, NewestIs DEF BucketsType, NewestHeld
<1>4. PICK k \in Slots : /\ buckets'[k].epochSecond = last
                         /\ \A j \in Slots : buckets'[j].epochSecond <= last
  BY <1>0, <1>2, AddNewest
<1>5. NewestHeld' = last
  BY <1>1, <1>4, NewestIs DEF NewestHeld
<1>6. sec > NewestHeld - W
  <2>1. sec + MaxLateness >= m
    BY DEF RefInv, SpanInv, LatenessHeld, AddLocked
  <2> HIDE DEF sec, m
  <2> QED BY <1>1, <1>3, <2>1
<1>7. last \in Nat /\ last >= sec
  <2> HIDE DEF sec, m
  <2> QED BY <1>1, <1>3
<1>8. VotesHeld' = [t \in Seconds |->
                     IF t <= last - W THEN Abs!NoVotes
                     ELSE IF t = sec
                       THEN [VotesHeld[t] EXCEPT ![writer.query] = @ + writer.score]
                     ELSE VotesHeld[t]]
  <2>1. VotesHeld' = [t \in Seconds |-> VotesHeld'[t]]
    BY DEF VotesHeld
  <2>2. Abs!NoVotes = NoCounts
    BY DEF Abs!NoVotes, NoCounts
  <2>3. ASSUME NEW t \in Seconds
        PROVE  VotesHeld'[t] =
                 IF t <= last - W THEN NoCounts
                 ELSE IF t = sec
                   THEN [VotesHeld[t] EXCEPT ![writer.query] = @ + writer.score]
                 ELSE VotesHeld[t]
    BY <1>4, <1>7, AddHeld
  <2> HIDE DEF last, sec
  <2> QED BY <2>1, <2>2, <2>3
<1>9. served' = served
  BY DEF AddLocked
<1>10. last = IF sec > NewestHeld THEN sec ELSE NewestHeld
  BY <1>3
<1> HIDE DEF last
<1> QED BY <1>5, <1>6, <1>8, <1>9, <1>10 DEF Abs!Vote

(* The critical section of Snapshot is one answer.                          *)
LEMMA SnapRefines ==
  ASSUME RefInv, NEW r \in Readers, SnapLocked(r)
  PROVE  Abs!Answer(r, readers[r].n)
<1>1. IInv
  BY DEF RefInv, SpanInv
<1>2. totals = [q \in Queries |-> Abs!Weight(q)]
  BY <1>1, WeightHeld DEF IInv, TypeOK, Counts, TotalsMatchBuckets
<1>3. totals \in Counts /\ readers[r].n \in Int /\ served \in [Readers -> Items]
  BY <1>1 DEF IInv, TypeOK
<1>4. cached'.items = Ranked(totals)
  BY <1>1, RebuildStep DEF SnapLocked, Rebuild, IInv, CachedFresh
<1>5. /\ served' = [served EXCEPT ![r] = TopItems(cached'.items, readers[r].n)]
      /\ served'[r] = TopItems(Ranked(totals), readers[r].n)
  BY <1>3, <1>4 DEF SnapLocked
<1>6. Abs!IsTop(served'[r], readers[r].n, [q \in Queries |-> Abs!Weight(q)])
  BY <1>2, <1>3, <1>5, PrefixIsTop
<1>7. NewestHeld' = NewestHeld /\ VotesHeld' = VotesHeld
  BY DEF SnapLocked, NewestHeld, VotesHeld
<1>8. served' = [served EXCEPT ![r] = served'[r]]
  BY <1>5, <1>3
<1> QED BY <1>6, <1>7, <1>8 DEF Abs!Answer

(* Every step is a step of the sliding window or changes nothing of it.     *)
LEMMA NextRefines ==
  ASSUME MaxLateness < W
  PROVE  RefInv /\ [Next]_vars => [Abs!Next]_(Abs!vars)
<1> SUFFICES ASSUME RefInv, [Next]_vars PROVE Abs!Next \/ UNCHANGED Abs!vars
  OBVIOUS
<1>1. RefInv'
  BY NextRefInv
<1>2. ASSUME UNCHANGED <<buckets, served>> PROVE UNCHANGED Abs!vars
  BY <1>2 DEF Abs!vars, NewestHeld, VotesHeld
<1>3. CASE AddLocked
  <2>1. /\ writer.query \in Queries
        /\ writer.score \in {s \in Scores : s > 0}
        /\ writer.sec \in Seconds
    BY <1>3 DEF AddLocked, RefInv, InputsHeld, SpanInv, IInv, TypeOK
  <2> QED BY <1>1, <1>3, <2>1, AddRefines DEF Abs!Next
<1>4. ASSUME NEW r \in Readers, SnapLocked(r) PROVE Abs!Next
  <2>1. readers[r].n \in Sizes
    BY <1>4 DEF SnapLocked, RefInv, InputsHeld
  <2> QED BY <1>4, <2>1, SnapRefines DEF Abs!Next
<1>5. ASSUME NEW query \in Queries, NEW score \in Scores, NEW stamp \in Stamps,
             AddBegin(query, score, stamp)
      PROVE  UNCHANGED <<buckets, served>>
  BY <1>5 DEF AddBegin, engineVars
<1>6. ASSUME NEW r \in Readers, NEW n \in Sizes, SnapBegin(r, n)
      PROVE  UNCHANGED <<buckets, served>>
  BY <1>6 DEF SnapBegin, engineVars
<1>7. CASE Tick
  BY <1>2, <1>7 DEF Tick, engineVars
<1>8. CASE UNCHANGED vars
  BY <1>2, <1>8 DEF vars, engineVars
<1> QED BY <1>2, <1>3, <1>4, <1>5, <1>6, <1>7, <1>8 DEF Next

(* The ring buffer, with its slots, running totals, cache and lock, shows   *)
(* its callers a sliding window of W seconds, for every instance in which   *)
(* an event lags the newest second by less than the window.                 *)
THEOREM SlidingWindowImplemented ==
  ASSUME MaxLateness < W
  PROVE  Spec => ImplementsSlidingWindow
<1>1. Init => Abs!Init
  BY InitRefines
<1>2. RefInv /\ [Next]_vars => [Abs!Next]_(Abs!vars)
  BY NextRefines
<1> QED BY <1>1, <1>2, RefInvariance, PTL DEF Spec, ImplementsSlidingWindow, Abs!Spec

=============================================================================
