---------------------------- MODULE WindowEngine ----------------------------
(* The ring buffer of per-second vote counts, internal/engine/window.       *)
(*                                                                          *)
(* Add is called by the one goroutine that consumes the topic, Snapshot by  *)
(* any number of HTTP handler goroutines.  Both read the clock before they  *)
(* take e.mu, so each call is two steps: the clock is read in the first,    *)
(* the critical section is the second.  Time passes in ticks,               *)
(* TicksPerSecond of them to a second (milliseconds in the code).           *)
(*                                                                          *)
(* Scores are whole numbers: the only caller passes 1.0, and a float64 adds *)
(* and subtracts whole numbers exactly up to 2^53.  A map without a key is  *)
(* a function that is 0 there.                                              *)
EXTENDS Integers, Sequences, FiniteSets

CONSTANTS
  Queries,        \* normalised query texts, numbered in string order
  Scores,         \* the scores Add may be called with
  W,              \* windowSeconds
  Readers,        \* goroutines that call Snapshot
  Sizes,          \* the n they ask for
  Stamps,         \* ingestedAtMS of the events, in ticks
  TicksPerSecond, \* 1000 in the code
  RebuildInterval,\* 250 in the code
  MaxLateness,    \* environment: how many seconds an event may lag the newest
  StartClock,     \* bound: first reading of the clock
  MaxClock,       \* bound: last reading of the clock
  MaxTotal        \* bound: no query's total grows beyond it

ASSUME WindowAssumption ==
  /\ Queries \subseteq Nat /\ IsFiniteSet(Queries)
  /\ Scores \subseteq Int
  /\ W \in Nat \ {0}
  /\ Sizes \subseteq Int
  /\ Stamps \subseteq Int
  /\ TicksPerSecond \in Nat \ {0}
  /\ RebuildInterval \in Nat
  /\ MaxLateness \in Nat
  /\ StartClock \in Nat /\ StartClock >= TicksPerSecond
  /\ MaxClock \in Nat /\ MaxClock >= StartClock
  /\ MaxTotal \in Nat

VARIABLES
  clock,          \* the wall clock
  buckets,        \* e.buckets
  totals,         \* e.totals
  cached,         \* e.cached: the last snapshot that was built
  dirty,          \* e.dirty
  lastRebuildAt,  \* e.lastRebuildAt, 0 for the zero time
  writer,         \* the consumer goroutine's call of Add, if any
  readers,        \* the handler goroutines' calls of Snapshot
  served          \* what the last Snapshot of each of them returned

engineVars == <<buckets, totals, cached, dirty, lastRebuildAt>>
vars == <<clock, engineVars, writer, readers, served>>

-----------------------------------------------------------------------------
Slots == 0..(W - 1)
NoCounts == [q \in Queries |-> 0]
EmptyBucket == [epochSecond |-> 0, counts |-> NoCounts]
IdleWriter == [pc |-> "idle", query |-> 0, score |-> 1, sec |-> 1, now |-> 0]
IdleReader == [pc |-> "idle", n |-> 0, now |-> 0]

(* The definitions called Bug... are the mistakes the properties are meant  *)
(* to catch; nothing here uses them.                                        *)
BugNoFallback(stamp) == IF stamp < 0 THEN 0 ELSE stamp \div TicksPerSecond

(* The second an event is counted in: its stamp's, or the current one when  *)
(* the stamp is missing.  Go's division truncates toward zero: every stamp  *)
(* below one second, a negative one included, falls back to the clock.      *)
SecondOf(stamp) ==
  IF stamp >= TicksPerSecond THEN stamp \div TicksPerSecond
                             ELSE clock \div TicksPerSecond

BucketIndex(second) == second % W

(* Unit votes for q held by the slots in S, and how many they are.          *)
UnitVotes(b, S, q) == UNION {{i} \X (1..b[i].counts[q]) : i \in S}
Contribution(b, S, q) == Cardinality(UnitVotes(b, S, q))

BugExpiredEarly(second) ==
  {i \in Slots : /\ buckets[i].epochSecond # 0
                 /\ second - buckets[i].epochSecond >= W - 1}

BugNotEvicted(second) == {}

(* Slots evictExpiredBucketsLocked(second) empties.                         *)
Expired(second) ==
  {i \in Slots : /\ buckets[i].epochSecond # 0
                 /\ second - buckets[i].epochSecond >= W}

(* The slot of second when it still holds the counts of another second.     *)
Reused(second) ==
  {i \in {BucketIndex(second)} : buckets[i].epochSecond # second}

(* Subtracting the counts of a bucket at a time, and deleting a key that    *)
(* falls to 0 or below, leaves the difference cut off at 0.                 *)
BugLess(total, removed) == IF total - removed <= 1 THEN 0 ELSE total - removed
Less(total, removed) == IF total - removed <= 0 THEN 0 ELSE total - removed

(* e.totals after the contributions of the slots in gone are removed and    *)
(* the vote is added.                                                       *)
NewTotals(gone, query, score) ==
  [q \in Queries |-> Less(totals[q], Contribution(buckets, gone, q))
                       + (IF q = query THEN score ELSE 0)]

NewBuckets(gone, second, query, score) ==
  LET kept == [i \in Slots |-> IF i \in gone THEN EmptyBucket ELSE buckets[i]]
      slot == BucketIndex(second)
  IN  [kept EXCEPT ![slot] =
         [epochSecond |-> second,
          counts      |-> [kept[slot].counts EXCEPT ![query] = @ + score]]]

(* The order of the sort in buildSnapshotStateLocked.                       *)
BugBeats(t, p, q) == t[p] > t[q] \/ (t[p] = t[q] /\ p > q)
Beats(t, p, q) == t[p] > t[q] \/ (t[p] = t[q] /\ p < q)

(* The items of buildSnapshotStateLocked: the queries with a positive       *)
(* score, each at the place given by how many beat it.  Rank is the place.  *)
Positive(t) == {q \in Queries : t[q] > 0}
Place(t, q) == 1 + Cardinality({p \in Positive(t) : Beats(t, p, q)})
Ranked(t) ==
  [k \in 1..Cardinality(Positive(t)) |->
     LET q == CHOOSE p \in Positive(t) : Place(t, p) = k
     IN  [query |-> q, score |-> t[q]]]

ShouldRebuild(now) ==
  \/ lastRebuildAt = 0
  \/ now - lastRebuildAt >= RebuildInterval

(* Build a snapshot of the totals t and store it.                           *)
Rebuild(now, t) ==
  /\ cached' = [generatedAt |-> now, items |-> Ranked(t)]
  /\ lastRebuildAt' = now
  /\ dirty' = FALSE

BugNotDirty == UNCHANGED <<cached, lastRebuildAt, dirty>>
MarkDirty == dirty' = TRUE /\ UNCHANGED <<cached, lastRebuildAt>>

(* The copy of the n best items Snapshot returns.                           *)
TopItems(items, n) ==
  LET size == IF n <= 0 THEN 10 ELSE n
  IN  SubSeq(items, 1, IF size < Len(items) THEN size ELSE Len(items))

-----------------------------------------------------------------------------
Init ==
  /\ clock = StartClock
  /\ buckets = [i \in Slots |-> EmptyBucket]
  /\ totals = NoCounts
  /\ cached = [generatedAt |-> 0, items |-> <<>>]
  /\ dirty = TRUE
  /\ lastRebuildAt = 0
  /\ writer = IdleWriter
  /\ readers = [r \in Readers |-> IdleReader]
  /\ served = [r \in Readers |-> <<>>]

(* Add up to e.mu.Lock.  An empty query (0) or a score that is not positive *)
(* returns at once and is no step.  The last two conjuncts are not the      *)
(* code's: the environment's bound on lateness and the bound on totals.     *)
(* The two readings of the clock, for a missing stamp and for the rebuild,  *)
(* are one.                                                                 *)
AddBegin(query, score, stamp) ==
  /\ writer.pc = "idle"
  /\ query # 0 /\ score > 0
  /\ writer' = [pc |-> "add", query |-> query, score |-> score,
                sec |-> SecondOf(stamp), now |-> clock]
  /\ UNCHANGED <<clock, engineVars, readers, served>>
  /\ \A i \in Slots : SecondOf(stamp) + MaxLateness >= buckets[i].epochSecond
  /\ totals[query] + score <= MaxTotal

(* The critical section of Add.                                             *)
AddLocked ==
  LET gone == Expired(writer.sec) \cup Reused(writer.sec)
      t    == NewTotals(gone, writer.query, writer.score)
  IN  /\ writer.pc = "add"
      /\ buckets' = NewBuckets(gone, writer.sec, writer.query, writer.score)
      /\ totals' = t
      /\ \/ ShouldRebuild(writer.now) /\ Rebuild(writer.now, t)
         \/ ~ShouldRebuild(writer.now) /\ MarkDirty
      /\ writer' = IdleWriter
      /\ UNCHANGED <<clock, readers, served>>

(* Snapshot up to e.mu.Lock.                                                *)
SnapBegin(r, n) ==
  /\ readers[r].pc = "idle"
  /\ readers' = [readers EXCEPT ![r] = [pc |-> "snap", n |-> n, now |-> clock]]
  /\ UNCHANGED <<clock, engineVars, writer, served>>

(* The critical section of Snapshot and the copy of its result.             *)
SnapLocked(r) ==
  /\ readers[r].pc = "snap"
  /\ \/ dirty /\ Rebuild(readers[r].now, totals)
     \/ ~dirty /\ UNCHANGED <<cached, lastRebuildAt, dirty>>
  /\ served' = [served EXCEPT ![r] = TopItems(cached'.items, readers[r].n)]
  /\ readers' = [readers EXCEPT ![r] = IdleReader]
  /\ UNCHANGED <<clock, buckets, totals, writer>>

Tick ==
  /\ clock < MaxClock
  /\ clock' = clock + 1
  /\ UNCHANGED <<engineVars, writer, readers, served>>

Next ==
  \/ \E query \in Queries, score \in Scores, stamp \in Stamps :
       AddBegin(query, score, stamp)
  \/ AddLocked
  \/ \E r \in Readers, n \in Sizes : SnapBegin(r, n)
  \/ \E r \in Readers : SnapLocked(r)
  \/ Tick

(* A sync.Mutex is handed to its longest waiter, so a call that waits for   *)
(* e.mu gets it.                                                            *)
Fairness == WF_vars(AddLocked) /\ \A r \in Readers : WF_vars(SnapLocked(r))

Spec == Init /\ [][Next]_vars /\ Fairness

-----------------------------------------------------------------------------
Counts == [Queries -> Nat]
Item == [query : Queries, score : Nat]
Items == Seq(Item)

(* Every variable has its type; the second of an event being added is never *)
(* 0, the mark of an empty bucket.                                          *)
TypeOK ==
  /\ clock \in Nat /\ clock >= TicksPerSecond
  /\ buckets \in [Slots -> [epochSecond : Nat, counts : Counts]]
  /\ totals \in Counts
  /\ cached \in [generatedAt : Nat, items : Items]
  /\ dirty \in BOOLEAN
  /\ lastRebuildAt \in Nat
  /\ writer \in [pc : {"idle", "add"}, query : Nat, score : Nat,
                 sec : Nat \ {0}, now : Nat]
  /\ writer.pc = "add" => writer.query \in Queries
  /\ readers \in [Readers -> [pc : {"idle", "snap"}, n : Int, now : Nat]]
  /\ served \in [Readers -> Items]

(* A bucket in use sits in the slot of its second, one not in use is empty. *)
SlotDiscipline ==
  \A i \in Slots : IF buckets[i].epochSecond = 0
                   THEN buckets[i].counts = NoCounts
                   ELSE BucketIndex(buckets[i].epochSecond) = i

(* The running totals that Add updates by differences are what a recount of *)
(* all buckets would give: no vote is subtracted twice, or left behind,     *)
(* when buckets are evicted and slots reused.                               *)
TotalsMatchBuckets ==
  \A q \in Queries : totals[q] = Contribution(buckets, Slots, q)

(* A cache that is not marked dirty is what a rebuild would produce now.    *)
CachedFresh == ~dirty => cached.items = Ranked(totals)

(* All buckets in use lie within one window of W seconds, so that the sum   *)
(* of all buckets is a sum over a window.  Holds for events that lag by     *)
(* less than the window.                                                    *)
WindowSpan ==
  \A i, j \in Slots :
    (buckets[i].epochSecond # 0 /\ buckets[j].epochSecond # 0)
      => buckets[i].epochSecond - buckets[j].epochSecond < W

(* The call of reader r returns in this step.                               *)
Returns(r) == readers[r].pc = "snap" /\ readers'[r].pc = "idle"

(* The seconds an event can be counted in.                                  *)
Seconds == {stamp \div TicksPerSecond :
              stamp \in {t \in Stamps \cup (StartClock..MaxClock) : t >= TicksPerSecond}}

(* The newest second held, 0 when none is, and the counts held for each.    *)
Largest(S) == CHOOSE x \in S : \A y \in S : y <= x
NewestHeld == Largest({buckets[i].epochSecond : i \in Slots})
VotesHeld ==
  [s \in Seconds |-> IF buckets[BucketIndex(s)].epochSecond = s
                     THEN buckets[BucketIndex(s)].counts ELSE NoCounts]

Abs == INSTANCE SlidingWindow WITH
  Scores <- {s \in Scores : s > 0},
  newest <- NewestHeld,
  votes  <- VotesHeld,
  answer <- served

(* A Snapshot returns the n best queries of the buckets as they are when it *)
(* holds the lock, with their exact counts, whether it rebuilt the cache or *)
(* trusted it, and whatever happened since the clock was read.              *)
ServesLiveBuckets ==
  [][\A r \in Readers : Returns(r) =>
       Abs!IsTop(served'[r], readers[r].n,
                 [q \in Queries |-> Contribution(buckets, Slots, q)])]_vars

(* Adding an event forgets a second only when it is W or more older than    *)
(* the newest second held afterwards: what is dropped has left the window.  *)
DropsOnlyExpired ==
  [][\A i \in Slots :
       (buckets[i].epochSecond # 0 /\ buckets'[i].epochSecond # buckets[i].epochSecond)
         => \E j \in Slots :
              buckets'[j].epochSecond - buckets[i].epochSecond >= W]_vars

(* The ring buffer implements the sliding window.                           *)
ImplementsSlidingWindow == Abs!Spec

(* What README.md says is served: every query in an answer was voted for in *)
(* the W seconds before the call.                                           *)
ServesOnlyRecent ==
  [][\A r \in Readers : Returns(r) =>
       \A k \in DOMAIN served'[r] : \E i \in Slots :
         /\ buckets[i].counts[served'[r][k].query] > 0
         /\ readers[r].now \div TicksPerSecond - buckets[i].epochSecond < W]_vars

(* The inductive invariant of the proofs.                                   *)
IInv == TypeOK /\ SlotDiscipline /\ TotalsMatchBuckets /\ CachedFresh
=============================================================================
