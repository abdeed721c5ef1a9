------------------------- MODULE TopHandlers_proofs -------------------------
(* The freshness an answer states is true and a scrape counts every read    *)
(* once, however readers, votes and ticks interleave: for any number of     *)
(* readers, queries and calls.                                              *)
EXTENDS TopHandlers, FiniteSetTheorems, TLAPS

(* What is proved of the engine, of Snapshots that ask for any number.      *)
Engine == INSTANCE WindowEngine_proofs WITH Sizes <- Int

-----------------------------------------------------------------------------
Busy == {r \in Readers : call[r].pc # "idle"}
Between == {r \in Readers : call[r].pc \in {"age", "latency"}}

(* No time the engine has noted is later than the clock, and a snapshot     *)
(* that is not dirty was built.                                             *)
EngineOK ==
  /\ clock \in Nat /\ clock >= StartClock
  /\ cached.generatedAt \in Nat /\ cached.generatedAt <= clock
  /\ dirty \in BOOLEAN
  /\ ~dirty => cached.generatedAt > 0
  /\ writer.pc = "add" => writer.now \in 1..clock
  /\ readers \in [Readers -> [pc : {"idle", "snap"}, n : Int, now : Nat]]
  /\ \A r \in Readers : readers[r].pc = "snap" => readers[r].now \in 1..clock

CallsOK ==
  \A r \in Readers :
    /\ call[r].pc # "idle" => StartClock <= call[r].start /\ call[r].start <= clock
    /\ call[r].pc \in {"counted", "age", "latency"} => call[r].generatedAt \in 1..clock

(* Every read is counted first and observed last; the times between add up  *)
(* to no more than all answers could have taken.                            *)
Balance ==
  /\ IsFiniteSet(Busy)
  /\ answered + Cardinality(Busy) <= calls
  /\ metrics.topReads = answered + Cardinality(Between)
  /\ metrics.latencyCount = answered
  /\ metrics.latencySum <= answered * (clock - StartClock)

IInv == TypeOK /\ EngineOK /\ CallsOK /\ LagIsHonest /\ Balance

-----------------------------------------------------------------------------
LEMMA Constants ==
  /\ StartClock \in Nat /\ StartClock > 0 /\ MaxCalls \in Nat
  /\ \A raw \in RawSizes : raw \in Raw
BY TopAssumption

(* The counters stay numbers.                                               *)
LEMMA CollectorTyped ==
  ASSUME metrics \in Collectors, NEW t \in Nat
  PROVE  /\ IncTopRead(metrics) \in Collectors
         /\ SetSnapshotAge(metrics, t) \in Collectors
         /\ ObserveTopReadLatency(metrics, t) \in Collectors
         /\ IncTopRead(metrics).topReads = metrics.topReads + 1
         /\ IncTopRead(metrics).latencyCount = metrics.latencyCount
         /\ IncTopRead(metrics).latencySum = metrics.latencySum
         /\ SetSnapshotAge(metrics, t).topReads = metrics.topReads
         /\ SetSnapshotAge(metrics, t).latencyCount = metrics.latencyCount
         /\ SetSnapshotAge(metrics, t).latencySum = metrics.latencySum
         /\ ObserveTopReadLatency(metrics, t).topReads = metrics.topReads
         /\ ObserveTopReadLatency(metrics, t).latencyCount = metrics.latencyCount + 1
         /\ ObserveTopReadLatency(metrics, t).latencySum = metrics.latencySum + t
<1>1. ClampNonNegative(t) = t
  BY DEF ClampNonNegative
<1>2. /\ IncTopRead(metrics) \in Collectors
      /\ IncTopRead(metrics).topReads = metrics.topReads + 1
      /\ IncTopRead(metrics).latencyCount = metrics.latencyCount
      /\ IncTopRead(metrics).latencySum = metrics.latencySum
  BY DEF IncTopRead, Collectors
<1>3. /\ SetSnapshotAge(metrics, t) \in Collectors
      /\ SetSnapshotAge(metrics, t).topReads = metrics.topReads
      /\ SetSnapshotAge(metrics, t).latencyCount = metrics.latencyCount
      /\ SetSnapshotAge(metrics, t).latencySum = metrics.latencySum
  BY <1>1 DEF SetSnapshotAge, Collectors
<1>4. /\ ObserveTopReadLatency(metrics, t) \in Collectors
      /\ ObserveTopReadLatency(metrics, t).topReads = metrics.topReads
      /\ ObserveTopReadLatency(metrics, t).latencyCount = metrics.latencyCount + 1
      /\ ObserveTopReadLatency(metrics, t).latencySum = metrics.latencySum + t
  <2>1. ObserveTopReadLatency(metrics, t)
          = [metrics EXCEPT !.latencyLast = t, !.latencySum = @ + t, !.latencyCount = @ + 1]
    BY <1>1 DEF ObserveTopReadLatency
  <2>2. metrics.latencySum + t \in Nat /\ metrics.latencyCount + 1 \in Nat
    BY DEF Collectors
  <2> QED BY <2>1, <2>2 DEF Collectors
<1> QED BY <1>2, <1>3, <1>4

(* More answers in more time: the product of the two grows as it must.      *)
LEMMA Products ==
  ASSUME NEW n \in Nat, NEW x \in Nat
  PROVE  /\ n * x \in Nat
         /\ (n + 1) * x = n * x + x
         /\ n * (x + 1) = n * x + n
<1>1. n * x \in Nat
  BY Z3
<1>2. (n + 1) * x = n * x + x
  BY Z3
<1>3. n * (x + 1) = n * x + n
  BY Z3
<1> QED BY <1>1, <1>2, <1>3

LEMMA MeanBounded ==
  ASSUME NEW n \in Nat, NEW x \in Nat, NEW sum \in Nat, sum <= n * x
  PROVE  Mean(sum, n) <= x
<1>1. CASE n = 0
  BY <1>1 DEF Mean
<1>2. CASE n > 0
  <2>1. sum \div n <= x
    BY <1>2, Z3
  <2> QED BY <1>2, <2>1 DEF Mean
<1> QED BY <1>1, <1>2

LEMMA InitHolds == Init => IInv
<1> SUFFICES ASSUME Init PROVE IInv
    OBVIOUS
<1>1. /\ clock = StartClock /\ cached = [generatedAt |-> 0, items |-> <<>>] /\ dirty = TRUE
      /\ writer = Win!IdleWriter /\ readers = [r \in Readers |-> Win!IdleReader]
  BY DEF Init, Win!Init
<1>2. EngineOK
  BY <1>1, Constants DEF EngineOK, Win!IdleWriter, Win!IdleReader
<1>3. \A r \in Readers : call[r].pc = "idle"
  BY DEF Init, IdleCall
<1>4. TypeOK
  <2>1. metrics \in Collectors
    BY DEF Init, NewCollector, Collectors
  <2>2. IdleCall \in [pc : {"idle", "snapshot", "counted", "age", "latency"},
                      path : {"top", "health"}, n : MinTopN..MaxTopN, start : Nat,
                      generatedAt : Nat, lag : Nat]
    BY DEF IdleCall, MinTopN, MaxTopN
  <2> QED BY <2>1, <2>2, Constants DEF Init, TypeOK
<1>5. CallsOK /\ LagIsHonest
  BY <1>3 DEF CallsOK, LagIsHonest
<1>6. Balance
  <2>1. Busy = {} /\ Between = {}
    BY <1>3 DEF Busy, Between
  <2>2. metrics = NewCollector /\ calls = 0 /\ answered = 0
    BY DEF Init
  <2>3. clock - StartClock = 0
    BY <1>1, Constants
  <2> QED BY <2>1, <2>2, <2>3, FS_EmptySet DEF Balance, NewCollector
<1> QED BY <1>2, <1>4, <1>5, <1>6 DEF IInv

-----------------------------------------------------------------------------
(* Nothing happens but to the engine: no call, no metric.                   *)
LEMMA QuietHolds ==
  ASSUME IInv, UNCHANGED http, clock' \in Nat, clock' = clock \/ clock' = clock + 1, EngineOK'
  PROVE  IInv'
<1>1. TypeOK'
  BY DEF IInv, TypeOK, http
<1>2. clock \in Nat /\ clock <= clock'
  BY DEF IInv, EngineOK
<1>3. \A r \in Readers : call[r].start \in Nat /\ call[r].generatedAt \in Nat /\ call[r].lag \in Nat
  BY DEF IInv, TypeOK
<1>4. CallsOK'
  BY <1>2, <1>3, Constants DEF IInv, CallsOK, http
<1>5. LagIsHonest'
  BY <1>2, <1>3 DEF IInv, LagIsHonest, http
<1>6. Balance'
  <2> DEFINE x == clock - StartClock
  <2>1. x \in Nat /\ answered \in Nat /\ metrics.latencySum \in Nat
    BY Constants DEF IInv, EngineOK, TypeOK, Collectors
  <2>2. metrics.latencySum <= answered * x
    BY DEF IInv, Balance
  <2>3. clock' - StartClock = x \/ clock' - StartClock = x + 1
    <3>1. StartClock \in Nat /\ clock \in Nat
      BY <1>2, Constants
    <3>2. CASE clock' = clock
      BY <3>1, <3>2
    <3>3. CASE clock' = clock + 1
      BY <3>1, <3>3
    <3> QED BY <3>2, <3>3
  <2> HIDE DEF x
  <2>4. answered * x \in Nat /\ answered * (x + 1) = answered * x + answered
    BY <2>1, Products
  <2>5. metrics.latencySum <= answered * (clock' - StartClock)
    BY <2>1, <2>2, <2>3, <2>4
  <2>6. /\ Busy' = Busy /\ Between' = Between
        /\ UNCHANGED <<calls, answered, metrics>>
    BY DEF Busy, Between, http
  <2>7. IsFiniteSet(Busy) /\ answered + Cardinality(Busy) <= calls
        /\ metrics.topReads = answered + Cardinality(Between) /\ metrics.latencyCount = answered
    BY DEF IInv, Balance
  <2> QED BY <2>5, <2>6, <2>7 DEF Balance
<1> QED BY <1>1, <1>4, <1>5, <1>6 DEF IInv

LEMMA AddBeginHolds ==
  ASSUME IInv, NEW query, NEW score, NEW stamp, AddBegin(query, score, stamp)
  PROVE  IInv'
<1>1. /\ UNCHANGED <<clock, cached, dirty, readers, http>> /\ writer'.now = clock
  BY DEF AddBegin, Win!AddBegin, Win!engineVars
<1>2. EngineOK'
  BY <1>1, Constants DEF IInv, EngineOK
<1> QED BY <1>1, <1>2, QuietHolds DEF IInv, EngineOK

LEMMA AddLockedHolds == ASSUME IInv, AddLocked PROVE IInv'
<1>1. UNCHANGED <<clock, readers, http>> /\ writer' = Win!IdleWriter /\ writer.pc = "add"
  BY DEF AddLocked, Win!AddLocked
<1>2. \/ cached'.generatedAt = writer.now /\ dirty' = FALSE
      \/ cached' = cached /\ dirty' = TRUE
  BY DEF AddLocked, Win!AddLocked, Win!Rebuild, Win!MarkDirty
<1>3. writer.now \in 1..clock
  BY <1>1 DEF IInv, EngineOK
<1>4. EngineOK'
  <2>1. writer'.pc = "idle"
    BY <1>1 DEF Win!IdleWriter
  <2>2. cached'.generatedAt \in Nat /\ cached'.generatedAt <= clock
        /\ dirty' \in BOOLEAN /\ (~dirty' => cached'.generatedAt > 0)
    <3>1. /\ clock \in Nat /\ dirty \in BOOLEAN
          /\ cached.generatedAt \in Nat /\ cached.generatedAt <= clock
      BY DEF IInv, EngineOK
    <3>2. CASE cached'.generatedAt = writer.now /\ dirty' = FALSE
      <4>1. /\ cached'.generatedAt \in Nat /\ cached'.generatedAt <= clock
            /\ cached'.generatedAt > 0
        BY <1>3, <3>1, <3>2
      <4>2. dirty' \in BOOLEAN
        BY <3>2, Zenon
      <4> QED BY <4>1, <4>2
    <3>3. CASE cached' = cached /\ dirty' = TRUE
      <4>1. cached'.generatedAt = cached.generatedAt
        BY <3>3
      <4>2. dirty' \in BOOLEAN /\ dirty'
        BY <3>3, Zenon
      <4> QED BY <3>1, <4>1, <4>2
    <3> QED BY <1>2, <3>2, <3>3
  <2> QED BY <1>1, <2>1, <2>2 DEF IInv, EngineOK
<1> QED BY <1>1, <1>4, QuietHolds DEF IInv, EngineOK

LEMMA TickHolds == ASSUME IInv, Tick PROVE IInv'
<1>1. clock' = clock + 1 /\ clock \in Nat /\ UNCHANGED <<cached, dirty, writer, readers, http>>
  BY DEF Tick, Win!Tick, Win!engineVars, IInv, EngineOK
<1>2. EngineOK'
  BY <1>1, Constants DEF IInv, EngineOK
<1> QED BY <1>1, <1>2, QuietHolds

LEMMA StutterHolds == ASSUME IInv, UNCHANGED vars PROVE IInv'
<1>1. UNCHANGED <<clock, cached, dirty, writer, readers, http>>
  BY DEF vars, engineVars
<1>2. EngineOK'
  BY <1>1 DEF IInv, EngineOK
<1> QED BY <1>1, <1>2, QuietHolds DEF IInv, EngineOK

-----------------------------------------------------------------------------
(* Only the call of reader r changes.                                       *)
OnlyCall(r) == \A other \in Readers \ {r} : call'[other] = call[other]

(* What a step of one call must see to for the rest to follow.              *)
LEMMA OthersHold ==
  ASSUME IInv, NEW r \in Readers, OnlyCall(r), UNCHANGED clock,
         call'[r].pc # "idle" => StartClock <= call'[r].start /\ call'[r].start <= clock,
         call'[r].pc \in {"counted", "age", "latency"} => call'[r].generatedAt \in 1..clock,
         call'[r].pc \in {"age", "latency"} =>
           /\ call'[r].start <= call'[r].generatedAt + call'[r].lag
           /\ call'[r].generatedAt + call'[r].lag <= clock
  PROVE  CallsOK' /\ LagIsHonest'
<1>1. CallsOK'
  <2> SUFFICES ASSUME NEW s \in Readers
               PROVE  /\ call'[s].pc # "idle" =>
                           StartClock <= call'[s].start /\ call'[s].start <= clock'
                      /\ call'[s].pc \in {"counted", "age", "latency"} =>
                           call'[s].generatedAt \in 1..clock'
    BY DEF CallsOK
  <2>1. CASE s = r
    BY <2>1
  <2>2. CASE s # r
    BY <2>2 DEF OnlyCall, IInv, CallsOK
  <2> QED BY <2>1, <2>2
<1>2. LagIsHonest'
  <2> SUFFICES ASSUME NEW s \in Readers, call'[s].pc \in {"age", "latency"}
               PROVE  /\ call'[s].generatedAt > 0
                      /\ call'[s].start <= call'[s].generatedAt + call'[s].lag
                      /\ call'[s].generatedAt + call'[s].lag <= clock'
    BY DEF LagIsHonest
  <2>1. CASE s = r
    BY <2>1
  <2>2. CASE s # r
    BY <2>2 DEF OnlyCall, IInv, LagIsHonest
  <2> QED BY <2>1, <2>2
<1> QED BY <1>1, <1>2

(* The sets of calls are finite, and so are their changes by one.           *)
LEMMA BusyFinite ==
  ASSUME IInv
  PROVE  /\ IsFiniteSet(Busy) /\ IsFiniteSet(Between)
         /\ Cardinality(Busy) \in Nat /\ Cardinality(Between) \in Nat
<1>1. IsFiniteSet(Busy) /\ Between \in SUBSET Busy
  BY DEF IInv, Balance, Busy, Between
<1> QED BY <1>1, FS_Subset, FS_CardinalityType

LEMMA BeginHolds ==
  ASSUME IInv, NEW r \in Readers, NEW path \in {"top", "health"},
         NEW n \in MinTopN..MaxTopN, Begin(r, path, n)
  PROVE  IInv'
<1>1. /\ call[r].pc = "idle" /\ calls < MaxCalls /\ calls' = calls + 1
      /\ UNCHANGED <<clock, cached, dirty, writer, metrics, answered>>
      /\ readers' = [readers EXCEPT ![r] = [pc |-> "snap", n |-> n, now |-> clock]]
  BY DEF Begin, Win!SnapBegin, Win!engineVars
<1> DEFINE new == [pc |-> "snapshot", path |-> path, n |-> n, start |-> clock,
                   generatedAt |-> 0, lag |-> 0]
<1>2. call' = [call EXCEPT ![r] = new]
  BY DEF Begin
<1>3. new.pc = "snapshot" /\ new.start = clock
  OBVIOUS
<1>4. clock \in Nat /\ StartClock <= clock /\ StartClock > 0 /\ StartClock \in Nat
  BY Constants DEF IInv, EngineOK
<1>5. TypeOK'
  <2>1. new \in [pc : {"idle", "snapshot", "counted", "age", "latency"},
                 path : {"top", "health"}, n : MinTopN..MaxTopN, start : Nat,
                 generatedAt : Nat, lag : Nat]
    BY <1>4
  <2> HIDE DEF new
  <2> QED BY <1>1, <1>2, <2>1, Constants DEF IInv, TypeOK
<1>6. EngineOK'
  <2>1. n \in Int
    BY DEF MinTopN, MaxTopN
  <2> QED BY <1>1, <1>4, <2>1 DEF IInv, EngineOK
<1> HIDE DEF new
<1>7. call'[r] = new /\ OnlyCall(r)
  BY <1>2 DEF OnlyCall, IInv, TypeOK
<1>8. call'[r].pc = "snapshot" /\ call'[r].start = clock
  BY <1>3, <1>7
<1>9. CallsOK' /\ LagIsHonest'
  <2>1. clock \in Nat /\ clock' = clock
    BY <1>1, <1>4
  <2> QED BY <1>4, <1>7, <1>8, <2>1, OthersHold
<1>10. Balance'
  <2>1. Busy' = Busy \cup {r} /\ r \notin Busy /\ Between' = Between
    BY <1>1, <1>7, <1>8 DEF Busy, Between, OnlyCall
  <2>2. IsFiniteSet(Busy') /\ Cardinality(Busy') = Cardinality(Busy) + 1
    BY <2>1, BusyFinite, FS_AddElement
  <2>3. answered' + Cardinality(Busy') <= calls'
    BY <1>1, <2>2, BusyFinite DEF IInv, Balance, TypeOK
  <2> QED BY <1>1, <2>1, <2>2, <2>3 DEF IInv, Balance
<1> QED BY <1>5, <1>6, <1>9, <1>10 DEF IInv

Calls == [pc : {"idle", "snapshot", "counted", "age", "latency"},
          path : {"top", "health"}, n : MinTopN..MaxTopN, start : Nat,
          generatedAt : Nat, lag : Nat]

LEMMA TypedFacts ==
  ASSUME IInv
  PROVE  /\ call \in [Readers -> Calls] /\ metrics \in Collectors
         /\ calls \in 0..MaxCalls /\ MaxCalls \in Nat /\ calls \in Nat /\ answered \in Nat
         /\ metrics.topReads \in Nat /\ metrics.latencyCount \in Nat /\ metrics.latencySum \in Nat
         /\ clock \in Nat /\ StartClock \in Nat /\ StartClock <= clock
<1>1. call \in [Readers -> Calls] /\ metrics \in Collectors
  BY DEF IInv, TypeOK, Calls
<1>2. calls \in 0..MaxCalls /\ answered \in 0..calls /\ MaxCalls \in Nat
  BY Constants DEF IInv, TypeOK
<1>3. metrics.topReads \in Nat /\ metrics.latencyCount \in Nat /\ metrics.latencySum \in Nat
  BY <1>1 DEF Collectors
<1>4. clock \in Nat /\ StartClock \in Nat /\ StartClock <= clock
  BY Constants DEF IInv, EngineOK
<1> QED BY <1>1, <1>2, <1>3, <1>4

(* A step that leaves the engine and the clock alone.                       *)
LEMMA EngineRests ==
  ASSUME IInv, UNCHANGED <<clock, cached, dirty, writer, readers>>
  PROVE  EngineOK'
BY DEF IInv, EngineOK

LEMMA SnapshotHolds ==
  ASSUME IInv, NEW r \in Readers, Snapshot(r)
  PROVE  IInv'
<1>1. /\ call[r].pc = "snapshot" /\ readers[r].pc = "snap"
      /\ UNCHANGED <<clock, writer, metrics, calls, answered>>
      /\ readers' = [readers EXCEPT ![r] = Win!IdleReader]
      /\ call' = [call EXCEPT ![r].pc = "counted", ![r].generatedAt = cached'.generatedAt]
  BY DEF Snapshot, Win!SnapLocked
<1>2. /\ readers[r].now \in 1..clock /\ cached.generatedAt \in Nat
      /\ cached.generatedAt <= clock /\ clock \in Nat
      /\ ~dirty => cached.generatedAt > 0
  BY <1>1 DEF IInv, EngineOK
<1>3. cached'.generatedAt \in 1..clock /\ (dirty' = FALSE \/ dirty' = dirty)
  <2>1. CASE dirty /\ Win!Rebuild(readers[r].now, totals)
    <3>1. cached'.generatedAt = readers[r].now /\ dirty' = FALSE
      BY <2>1 DEF Win!Rebuild
    <3> QED BY <1>2, <3>1
  <2>2. CASE ~dirty /\ UNCHANGED <<cached, lastRebuildAt, dirty>>
    BY <1>2, <2>2
  <2> QED BY <2>1, <2>2 DEF Snapshot, Win!SnapLocked
<1>4. EngineOK'
  <2>1. cached'.generatedAt \in Nat /\ cached'.generatedAt <= clock /\ cached'.generatedAt > 0
    BY <1>2, <1>3
  <2>2. dirty' \in BOOLEAN
    <3>1. dirty \in BOOLEAN
      BY DEF IInv, EngineOK
    <3> QED BY <1>3, <3>1, Zenon
  <2>3. /\ readers' \in [Readers -> [pc : {"idle", "snap"}, n : Int, now : Nat]]
        /\ \A s \in Readers : readers'[s].pc = "snap" => readers'[s].now \in 1..clock
    BY <1>1 DEF IInv, EngineOK, Win!IdleReader
  <2>4. clock' = clock /\ writer' = writer /\ (writer.pc = "add" => writer.now \in 1..clock)
        /\ clock >= StartClock
    BY <1>1 DEF IInv, EngineOK
  <2> QED BY <1>2, <2>1, <2>2, <2>3, <2>4 DEF EngineOK
<1>5. cached'.generatedAt \in Nat
  BY <1>2, <1>3
<1>6. call' \in [Readers -> Calls]
  BY <1>1, <1>5, TypedFacts DEF Calls
<1>7. /\ call'[r].pc = "counted" /\ call'[r].start = call[r].start
      /\ call'[r].generatedAt = cached'.generatedAt /\ OnlyCall(r)
  BY <1>1, TypedFacts DEF OnlyCall, Calls
<1>8. StartClock <= call[r].start /\ call[r].start <= clock
  BY <1>1 DEF IInv, CallsOK
<1>9. CallsOK' /\ LagIsHonest'
  <2>1. UNCHANGED clock
    BY <1>1
  <2> QED BY <1>3, <1>7, <1>8, <2>1, OthersHold
<1>10. Balance'
  <2>1. Busy' = Busy /\ Between' = Between
    BY <1>1, <1>7 DEF Busy, Between, OnlyCall
  <2> QED BY <1>1, <2>1 DEF IInv, Balance
<1>11. TypeOK'
  BY <1>1, <1>6 DEF IInv, TypeOK, Calls
<1> QED BY <1>4, <1>9, <1>10, <1>11 DEF IInv

LEMMA CountReadHolds ==
  ASSUME IInv, NEW r \in Readers, CountRead(r)
  PROVE  IInv'
<1>1. /\ call[r].pc = "counted" /\ metrics' = IncTopRead(metrics)
      /\ UNCHANGED <<clock, cached, dirty, writer, readers, calls, answered>>
      /\ call' = [call EXCEPT ![r].pc = "age", ![r].lag = SnapshotLag(r)]
  BY DEF CountRead, engineVars
<1>2. /\ StartClock <= call[r].start /\ call[r].start <= clock
      /\ call[r].generatedAt \in 1..clock
  BY <1>1 DEF IInv, CallsOK
<1>3. /\ SnapshotLag(r) \in Nat /\ call[r].generatedAt + SnapshotLag(r) = clock
  BY <1>2, TypedFacts DEF SnapshotLag, ClampNonNegative
<1>4. call' \in [Readers -> Calls]
  BY <1>1, <1>3, TypedFacts DEF Calls
<1>5. /\ call'[r].pc = "age" /\ call'[r].start = call[r].start
      /\ call'[r].generatedAt = call[r].generatedAt /\ call'[r].lag = SnapshotLag(r)
      /\ OnlyCall(r)
  BY <1>1, TypedFacts DEF OnlyCall, Calls
<1>6. CallsOK' /\ LagIsHonest'
  <2>1. UNCHANGED clock /\ clock \in Nat
    BY <1>1, TypedFacts
  <2> QED BY <1>2, <1>3, <1>5, <2>1, OthersHold
<1>7. metrics' \in Collectors /\ metrics'.topReads = metrics.topReads + 1
      /\ metrics'.latencyCount = metrics.latencyCount
      /\ metrics'.latencySum = metrics.latencySum
  BY <1>1, TypedFacts, CollectorTyped
<1>8. Balance'
  <2>1. Busy' = Busy /\ Between' = Between \cup {r} /\ r \notin Between
    BY <1>1, <1>5 DEF Busy, Between, OnlyCall
  <2>2. Cardinality(Between') = Cardinality(Between) + 1
    BY <2>1, BusyFinite, FS_AddElement
  <2>3. metrics'.topReads = answered + Cardinality(Between')
    BY <1>7, <2>2, BusyFinite, TypedFacts DEF IInv, Balance
  <2> QED BY <1>1, <1>7, <2>1, <2>3 DEF IInv, Balance
<1>9. TypeOK'
  BY <1>1, <1>4, <1>7 DEF IInv, TypeOK, Calls
<1> QED BY <1>1, <1>6, <1>8, <1>9, EngineRests DEF IInv

LEMMA SetAgeHolds ==
  ASSUME IInv, NEW r \in Readers, SetAge(r)
  PROVE  IInv'
<1>1. /\ call[r].pc = "age" /\ metrics' = SetSnapshotAge(metrics, call[r].lag)
      /\ UNCHANGED <<clock, cached, dirty, writer, readers, calls, answered>>
      /\ call' = [call EXCEPT ![r].pc = "latency"]
  BY DEF SetAge, engineVars
<1>2. call[r].lag \in Nat /\ call' \in [Readers -> Calls]
  BY <1>1, TypedFacts DEF Calls
<1>3. /\ call'[r].pc = "latency" /\ call'[r].start = call[r].start
      /\ call'[r].generatedAt = call[r].generatedAt /\ call'[r].lag = call[r].lag
      /\ OnlyCall(r)
  BY <1>1, TypedFacts DEF OnlyCall, Calls
<1>4. CallsOK' /\ LagIsHonest'
  <2>1. UNCHANGED clock /\ clock \in Nat
    BY <1>1, TypedFacts
  <2>2. /\ StartClock <= call[r].start /\ call[r].start <= clock
        /\ call[r].generatedAt \in 1..clock
    BY <1>1 DEF IInv, CallsOK
  <2>3. /\ call[r].start <= call[r].generatedAt + call[r].lag
        /\ call[r].generatedAt + call[r].lag <= clock
    BY <1>1 DEF IInv, LagIsHonest
  <2> QED BY <1>3, <2>1, <2>2, <2>3, OthersHold
<1>5. metrics' \in Collectors /\ metrics'.topReads = metrics.topReads
      /\ metrics'.latencyCount = metrics.latencyCount
      /\ metrics'.latencySum = metrics.latencySum
  BY <1>1, <1>2, TypedFacts, CollectorTyped
<1>6. Balance'
  <2>1. Busy' = Busy /\ Between' = Between
    BY <1>1, <1>3 DEF Busy, Between, OnlyCall
  <2> QED BY <1>1, <1>5, <2>1 DEF IInv, Balance
<1>7. TypeOK'
  BY <1>1, <1>2, <1>5 DEF IInv, TypeOK, Calls
<1> QED BY <1>1, <1>4, <1>6, <1>7, EngineRests DEF IInv

(* A call that ends: nothing is asked of an idle one.                       *)
LEMMA EndHolds ==
  ASSUME IInv, NEW r \in Readers, call[r].pc # "idle",
         call' = [call EXCEPT ![r] = IdleCall], UNCHANGED <<clock, calls>>
  PROVE  /\ CallsOK' /\ LagIsHonest' /\ call' \in [Readers -> Calls]
         /\ IsFiniteSet(Busy') /\ Cardinality(Busy') = Cardinality(Busy) - 1
         /\ Between' = Between \ {r}
<1>1. IdleCall \in Calls /\ IdleCall.pc = "idle"
  BY DEF IdleCall, Calls, MinTopN, MaxTopN
<1>2. call' \in [Readers -> Calls] /\ call'[r].pc = "idle" /\ OnlyCall(r)
  BY <1>1, TypedFacts DEF OnlyCall
<1>3. CallsOK' /\ LagIsHonest'
  BY <1>2, OthersHold
<1>4. Busy' = Busy \ {r} /\ r \in Busy /\ Between' = Between \ {r}
  BY <1>2 DEF Busy, Between, OnlyCall
<1>5. IsFiniteSet(Busy') /\ Cardinality(Busy') = Cardinality(Busy) - 1
  BY <1>4, BusyFinite, FS_RemoveElement
<1> QED BY <1>2, <1>3, <1>4, <1>5

LEMMA AnswerHolds ==
  ASSUME IInv, NEW r \in Readers, Answer(r)
  PROVE  IInv'
<1> DEFINE latency == ClampNonNegative(clock - call[r].start)
           x == clock - StartClock
<1>1. /\ call[r].pc = "latency" /\ call' = [call EXCEPT ![r] = IdleCall]
      /\ metrics' = ObserveTopReadLatency(metrics, latency)
      /\ UNCHANGED <<clock, cached, dirty, writer, readers, calls>> /\ answered' = answered + 1
  BY DEF Answer, engineVars
<1>2. latency \in Nat /\ latency <= x /\ x \in Nat
  <2>1. StartClock <= call[r].start /\ call[r].start <= clock /\ call[r].start \in Nat
    BY <1>1, TypedFacts DEF IInv, CallsOK, Calls
  <2> QED BY <2>1, TypedFacts DEF ClampNonNegative
<1> HIDE DEF latency
<1>3. metrics' \in Collectors /\ metrics'.topReads = metrics.topReads
      /\ metrics'.latencyCount = metrics.latencyCount + 1
      /\ metrics'.latencySum = metrics.latencySum + latency
  BY <1>1, <1>2, TypedFacts, CollectorTyped
<1>4. /\ CallsOK' /\ LagIsHonest' /\ call' \in [Readers -> Calls]
      /\ IsFiniteSet(Busy') /\ Cardinality(Busy') = Cardinality(Busy) - 1
      /\ Between' = Between \ {r}
  BY <1>1, EndHolds
<1>5. /\ answered + Cardinality(Busy) <= calls
      /\ metrics.topReads = answered + Cardinality(Between)
      /\ metrics.latencyCount = answered /\ metrics.latencySum <= answered * x
  BY DEF IInv, Balance
<1>6. Cardinality(Between') = Cardinality(Between) - 1
  <2>1. r \in Between
    BY <1>1 DEF Between
  <2> QED BY <1>4, <2>1, BusyFinite, FS_RemoveElement
<1>7. metrics'.latencySum <= answered' * x
  <2> HIDE DEF x
  <2>1. answered * x \in Nat /\ (answered + 1) * x = answered * x + x
    BY <1>2, TypedFacts, Products
  <2> QED BY <1>1, <1>2, <1>3, <1>5, <2>1, TypedFacts
<1>8. answered' + Cardinality(Busy') <= calls' /\ metrics'.topReads = answered' + Cardinality(Between')
      /\ metrics'.latencyCount = answered'
  BY <1>1, <1>3, <1>4, <1>5, <1>6, TypedFacts, BusyFinite
<1>9. Balance'
  BY <1>1, <1>4, <1>7, <1>8 DEF Balance
<1>10. TypeOK'
  <2>1. answered' \in 0..calls
    <3>1. Cardinality(Busy') \in Nat
      BY <1>4, FS_CardinalityType
    <3> QED BY <1>1, <1>8, <3>1, TypedFacts
  <2> QED BY <1>1, <1>3, <1>4, <2>1 DEF IInv, TypeOK, Calls
<1> QED BY <1>1, <1>4, <1>9, <1>10, EngineRests DEF IInv

LEMMA AnswerHealthHolds ==
  ASSUME IInv, NEW r \in Readers, AnswerHealth(r)
  PROVE  IInv'
<1>1. /\ call[r].pc = "counted" /\ call' = [call EXCEPT ![r] = IdleCall]
      /\ UNCHANGED <<clock, cached, dirty, writer, readers, calls, answered>>
  BY DEF AnswerHealth, engineVars
<1>2. metrics' = metrics \/ metrics' = SetSnapshotAge(metrics, SnapshotLag(r))
  BY DEF AnswerHealth
<1>3. SnapshotLag(r) \in Nat
  <2>1. call[r].generatedAt \in 1..clock
    BY <1>1 DEF IInv, CallsOK
  <2> QED BY <2>1, TypedFacts DEF SnapshotLag, ClampNonNegative
<1>4. metrics' \in Collectors /\ metrics'.topReads = metrics.topReads
      /\ metrics'.latencyCount = metrics.latencyCount
      /\ metrics'.latencySum = metrics.latencySum
  BY <1>2, <1>3, TypedFacts, CollectorTyped
<1>5. /\ CallsOK' /\ LagIsHonest' /\ call' \in [Readers -> Calls]
      /\ IsFiniteSet(Busy') /\ Cardinality(Busy') = Cardinality(Busy) - 1
      /\ Between' = Between \ {r}
  BY <1>1, EndHolds
<1>6. Between' = Between
  BY <1>1, <1>5 DEF Between
<1>7. Balance'
  <2>1. answered + Cardinality(Busy') <= calls
    BY <1>5, BusyFinite, TypedFacts DEF IInv, Balance
  <2> QED BY <1>1, <1>4, <1>5, <1>6, <2>1 DEF IInv, Balance
<1>8. TypeOK'
  BY <1>1, <1>4, <1>5 DEF IInv, TypeOK, Calls
<1> QED BY <1>1, <1>5, <1>7, <1>8, EngineRests DEF IInv

-----------------------------------------------------------------------------
(* Every step preserves the invariant.                                      *)
LEMMA StepHolds == IInv /\ [Next]_vars => IInv'
<1> SUFFICES ASSUME IInv, [Next]_vars PROVE IInv'
    OBVIOUS
<1>1. CASE UNCHANGED vars
  BY <1>1, StutterHolds
<1>2. ASSUME NEW r \in Readers, NEW raw \in RawSizes, GetTop(r, raw) PROVE IInv'
  <2>1. raw \in Raw
    BY Constants
  <2>2. ParseTopN(raw) \in MinTopN..MaxTopN
    BY <1>2, <2>1 DEF GetTop, InvalidTopN, ParseTopN, Raw, MinTopN, MaxTopN, DefaultTopN
  <2>3. Begin(r, "top", ParseTopN(raw))
    BY <1>2 DEF GetTop
  <2> QED BY <2>2, <2>3, BeginHolds
<1>3. ASSUME NEW r \in Readers, NEW raw \in RawSizes, Refuse(r, raw) PROVE IInv'
  BY <1>3, StutterHolds DEF Refuse
<1>4. ASSUME NEW r \in Readers, Health(r) PROVE IInv'
  <2>1. 1 \in MinTopN..MaxTopN
    BY DEF MinTopN, MaxTopN
  <2> QED BY <1>4, <2>1, BeginHolds DEF Health
<1>5. ASSUME NEW r \in Readers, Step(r) PROVE IInv'
  BY <1>5, SnapshotHolds, CountReadHolds, SetAgeHolds, AnswerHolds, AnswerHealthHolds DEF Step
<1>6. CASE \E query \in Queries, score \in Scores, stamp \in Stamps : AddBegin(query, score, stamp)
  BY <1>6, AddBeginHolds
<1>7. CASE AddLocked
  BY <1>7, AddLockedHolds
<1>8. CASE Tick
  BY <1>8, TickHolds
<1> QED BY <1>1, <1>2, <1>3, <1>4, <1>5, <1>6, <1>7, <1>8 DEF Next

(* The times of the engine, of the calls and of the counters agree in every *)
(* reachable state: the inductive invariant of handlers_top.go.             *)
THEOREM Invariance == Spec => []IInv
<1> QED BY InitHolds, StepHolds, PTL DEF Spec

(* The handlers' variables have their types: the size passed on is within   *)
(* the limits parseTopN checks, and no read is answered that was not asked. *)
THEOREM TypeCorrect == Spec => []TypeOK
<1>1. IInv => TypeOK
  BY DEF IInv
<1> QED BY <1>1, Invariance, PTL

(* generated_at_ms plus freshness_lag_ms is a moment between the request    *)
(* and its answer, whoever built the snapshot.                              *)
THEOREM LagHonest == Spec => []LagIsHonest
<1>1. IInv => LagIsHonest
  BY DEF IInv
<1> QED BY <1>1, Invariance, PTL

(* A scrape between any two steps counts every answered read once, and no   *)
(* mean latency exceeds the time since the start.                           *)
THEOREM ScrapesBalance == Spec => []ScrapeBalances
<1>1. IInv => ScrapeBalances
  <2> SUFFICES ASSUME IInv PROVE ScrapeBalances
    OBVIOUS
  <2> DEFINE x == clock - StartClock
  <2>1. /\ metrics.topReads = answered + Cardinality(Between)
        /\ metrics.latencyCount = answered /\ metrics.latencySum <= answered * x
    BY DEF IInv, Balance
  <2>2. x \in Nat /\ answered \in Nat /\ metrics.latencySum \in Nat
    BY TypedFacts
  <2> HIDE DEF x
  <2>3. Mean(metrics.latencySum, metrics.latencyCount) <= x
    BY <2>1, <2>2, MeanBounded
  <2> QED BY <2>1, <2>3 DEF ScrapeBalances, RenderPrometheus, Between, x
<1> QED BY <1>1, Invariance, PTL

-----------------------------------------------------------------------------
(* The answers.  What WindowEngine_proofs knows of a step of the engine is  *)
(* known of the steps of the handlers.                                      *)
LEMMA EngineAssumed == Engine!WindowAssumption
BY TopAssumption DEF Engine!WindowAssumption, IsFiniteSet, Engine!IsFiniteSet

EngineVars == <<clock, engineVars>>

LEMMA EngineInit == Win!Init => Engine!Init
BY DEF Win!Init, Engine!Init, Win!Slots, Engine!Slots, Win!EmptyBucket, Engine!EmptyBucket,
       Win!NoCounts, Engine!NoCounts, Win!IdleWriter, Engine!IdleWriter,
       Win!IdleReader, Engine!IdleReader

LEMMA EngineSteps ==
  /\ \A query \in Queries, score \in Scores, stamp \in Stamps :
       Win!AddBegin(query, score, stamp) => Engine!AddBegin(query, score, stamp)
  /\ Win!AddLocked => Engine!AddLocked
  /\ \A r \in Readers, n \in Int : Win!SnapBegin(r, n) => Engine!SnapBegin(r, n)
  /\ \A r \in Readers : Win!SnapLocked(r) => Engine!SnapLocked(r)
  /\ Win!Tick => Engine!Tick
  /\ UNCHANGED EngineVars => UNCHANGED Engine!vars
<1>1. ASSUME NEW query \in Queries, NEW score \in Scores, NEW stamp \in Stamps
      PROVE  Win!AddBegin(query, score, stamp) => Engine!AddBegin(query, score, stamp)
  BY DEF Win!AddBegin, Engine!AddBegin, Win!SecondOf, Engine!SecondOf, Win!Slots, Engine!Slots,
         Win!engineVars, Engine!engineVars
<1>2. \A b, S, q : Win!Contribution(b, S, q) = Engine!Contribution(b, S, q)
  <2>1. \A S : Win!Cardinality(S) = Engine!Cardinality(S)
    BY DEF Win!Cardinality, Engine!Cardinality
  <2> QED BY <2>1 DEF Win!Contribution, Engine!Contribution, Win!UnitVotes, Engine!UnitVotes
<1>3. \A t : Win!Ranked(t) = Engine!Ranked(t)
  <2>1. \A S : Win!Cardinality(S) = Engine!Cardinality(S)
    BY DEF Win!Cardinality, Engine!Cardinality
  <2>2. \A t : Win!Positive(t) = Engine!Positive(t)
    BY DEF Win!Positive, Engine!Positive
  <2>3. \A t, q : Win!Place(t, q) = Engine!Place(t, q)
    BY <2>1, <2>2 DEF Win!Place, Engine!Place, Win!Beats, Engine!Beats
  <2> QED BY <2>1, <2>2, <2>3 DEF Win!Ranked, Engine!Ranked
<1>4. \A now, t : Win!Rebuild(now, t) => Engine!Rebuild(now, t)
  BY <1>3 DEF Win!Rebuild, Engine!Rebuild
<1>5. \A gone, query, score : Win!NewTotals(gone, query, score) = Engine!NewTotals(gone, query, score)
  BY <1>2 DEF Win!NewTotals, Engine!NewTotals, Win!Less, Engine!Less
<1>6. \A gone, second, query, score :
        Win!NewBuckets(gone, second, query, score) = Engine!NewBuckets(gone, second, query, score)
  BY DEF Win!NewBuckets, Engine!NewBuckets, Win!Slots, Engine!Slots, Win!EmptyBucket,
         Engine!EmptyBucket, Win!NoCounts, Engine!NoCounts, Win!BucketIndex, Engine!BucketIndex
<1>7. \A second : /\ Win!Expired(second) = Engine!Expired(second)
                  /\ Win!Reused(second) = Engine!Reused(second)
  BY DEF Win!Expired, Engine!Expired, Win!Reused, Engine!Reused, Win!Slots, Engine!Slots,
         Win!BucketIndex, Engine!BucketIndex
<1>8. Win!AddLocked => Engine!AddLocked
  BY <1>4, <1>5, <1>6, <1>7
  DEF Win!AddLocked, Engine!AddLocked, Win!ShouldRebuild, Engine!ShouldRebuild,
      Win!MarkDirty, Engine!MarkDirty, Win!IdleWriter, Engine!IdleWriter
<1>9. ASSUME NEW r \in Readers, NEW n \in Int
      PROVE  Win!SnapBegin(r, n) => Engine!SnapBegin(r, n)
  BY DEF Win!SnapBegin, Engine!SnapBegin, Win!engineVars, Engine!engineVars
<1>10. ASSUME NEW r \in Readers
       PROVE  Win!SnapLocked(r) => Engine!SnapLocked(r)
  BY <1>4 DEF Win!SnapLocked, Engine!SnapLocked, Win!TopItems, Engine!TopItems,
              Win!IdleReader, Engine!IdleReader
<1>11. Win!Tick => Engine!Tick
  BY DEF Win!Tick, Engine!Tick, Win!engineVars, Engine!engineVars
<1>12. UNCHANGED EngineVars => UNCHANGED Engine!vars
  BY DEF EngineVars, engineVars, Engine!vars, Engine!engineVars
<1> QED BY <1>1, <1>8, <1>9, <1>10, <1>11, <1>12

LEMMA SameTop ==
  \A items, n, t : Win!Abs!IsTop(items, n, t) <=> Engine!Abs!IsTop(items, n, t)
<1>1. \A S : Win!Abs!Cardinality(S) = Engine!Abs!Cardinality(S)
  BY DEF Win!Abs!Cardinality, Engine!Abs!Cardinality
<1> QED BY <1>1 DEF Win!Abs!IsTop, Engine!Abs!IsTop, Win!Abs!Beats, Engine!Abs!Beats

(* While a call waits for its snapshot, the totals are those of a moment of *)
(* the call; from then on what it was served is the top of such a moment.   *)
AnswerOK(r) ==
  /\ call[r].pc = "snapshot" => readers[r].n = call[r].n /\ totals \in moments[r]
  /\ call[r].pc \in {"counted", "age", "latency"} =>
       \E t \in moments[r] : Win!Abs!IsTop(served[r], call[r].n, t)

AnswerInv ==
  /\ IInv /\ Engine!IInv
  /\ moments \in [Readers -> SUBSET Engine!Counts]
  /\ \A r \in Readers : AnswerOK(r)

LEMMA EngineTotals == ASSUME Engine!IInv PROVE totals \in Engine!Counts
BY DEF Engine!IInv, Engine!TypeOK

(* A request comes in, with a number parseTopN lets pass.                   *)
Begins(r) == \E path \in {"top", "health"}, n \in MinTopN..MaxTopN : Begin(r, path, n)

LEMMA StepKinds ==
  ASSUME [Next]_vars
  PROVE  \/ UNCHANGED vars
         \/ \E r \in Readers : Begins(r) \/ Step(r)
         \/ \E query \in Queries, score \in Scores, stamp \in Stamps :
              AddBegin(query, score, stamp)
         \/ AddLocked \/ Tick
<1>1. ASSUME NEW r \in Readers, NEW raw \in RawSizes, GetTop(r, raw) PROVE Begins(r)
  <2>1. raw \in Raw
    BY Constants
  <2>2. ParseTopN(raw) \in MinTopN..MaxTopN
    BY <1>1, <2>1 DEF GetTop, InvalidTopN, ParseTopN, Raw, MinTopN, MaxTopN, DefaultTopN
  <2> QED BY <1>1, <2>2 DEF GetTop, Begins
<1>2. ASSUME NEW r \in Readers, Health(r) PROVE Begins(r)
  BY <1>2 DEF Health, Begins, MinTopN, MaxTopN
<1> QED BY <1>1, <1>2 DEF Next, Refuse

LEMMA EngineKept == ASSUME Engine!IInv, [Next]_vars PROVE Engine!IInv'
<1>1. ASSUME NEW r \in Readers, Begins(r) PROVE Engine!Next
  <2>1. PICK path \in {"top", "health"}, n \in MinTopN..MaxTopN : Begin(r, path, n)
    BY <1>1 DEF Begins
  <2>2. n \in Int
    BY DEF MinTopN, MaxTopN
  <2>3. Engine!SnapBegin(r, n)
    BY <2>1, <2>2, EngineSteps DEF Begin
  <2> QED BY <2>2, <2>3 DEF Engine!Next
<1>2. ASSUME NEW r \in Readers, Step(r) PROVE [Engine!Next]_(Engine!vars)
  <2>1. CASE Snapshot(r)
    BY <2>1, EngineSteps DEF Snapshot, Engine!Next
  <2>2. CASE CountRead(r) \/ SetAge(r) \/ Answer(r) \/ AnswerHealth(r)
    <3>1. UNCHANGED EngineVars
      BY <2>2 DEF CountRead, SetAge, Answer, AnswerHealth, EngineVars
    <3> QED BY <3>1, EngineSteps
  <2> QED BY <1>2, <2>1, <2>2 DEF Step
<1>3. CASE UNCHANGED vars
  <2>1. UNCHANGED EngineVars
    BY <1>3 DEF vars, EngineVars
  <2> QED BY <2>1, EngineSteps, EngineAssumed, Engine!NextIInv
<1>4. CASE \E query \in Queries, score \in Scores, stamp \in Stamps : AddBegin(query, score, stamp)
  <2>1. Engine!Next
    BY <1>4, EngineSteps DEF AddBegin, Engine!Next
  <2> QED BY <2>1, EngineAssumed, Engine!NextIInv
<1>5. CASE AddLocked \/ Tick
  <2>1. Engine!Next
    BY <1>5, EngineSteps DEF AddLocked, Tick, Engine!Next
  <2> QED BY <2>1, EngineAssumed, Engine!NextIInv
<1> QED BY <1>1, <1>2, <1>3, <1>4, <1>5, StepKinds, EngineAssumed, Engine!NextIInv

(* What keeps the answer of call s.                                         *)
LEMMA AnswerKept ==
  ASSUME NEW s \in Readers, AnswerOK(s), call'[s] = call[s], served'[s] = served[s],
         moments[s] \subseteq moments'[s],
         call[s].pc = "snapshot" => readers'[s] = readers[s] /\ totals' \in moments'[s]
  PROVE  AnswerOK(s)'
BY DEF AnswerOK

LEMMA SnapshotAnswers ==
  ASSUME AnswerInv, NEW r \in Readers, Snapshot(r)
  PROVE  AnswerOK(r)'
<1>1. /\ call[r].pc = "snapshot" /\ Win!SnapLocked(r) /\ moments' = moments
      /\ call' = [call EXCEPT ![r].pc = "counted", ![r].generatedAt = cached'.generatedAt]
  BY DEF Snapshot
<1>2. Engine!SnapLocked(r)
  BY <1>1, EngineSteps
<1>3. totals \in Engine!Counts /\ readers[r].n \in Int
  BY EngineTotals DEF AnswerInv, IInv, EngineOK
<1>4. cached'.items = Engine!Ranked(totals)
  BY <1>2 DEF Engine!SnapLocked, Engine!Rebuild, AnswerInv, Engine!IInv, Engine!CachedFresh
<1>5. served'[r] = Engine!TopItems(Engine!Ranked(totals), readers[r].n)
  BY <1>2, <1>4 DEF Engine!SnapLocked, AnswerInv, Engine!IInv, Engine!TypeOK
<1>6. Win!Abs!IsTop(served'[r], readers[r].n, totals)
  BY <1>3, <1>5, EngineAssumed, Engine!PrefixIsTop, SameTop
<1>7. call'[r].pc = "counted" /\ call'[r].n = call[r].n
  <2>1. call \in [Readers -> Calls]
    BY TypedFacts DEF AnswerInv
  <2> QED BY <1>1, <2>1 DEF Calls
<1>8. readers[r].n = call[r].n /\ totals \in moments[r]
  BY <1>1 DEF AnswerInv, AnswerOK
<1> QED BY <1>1, <1>6, <1>7, <1>8 DEF AnswerOK

LEMMA NextAnswers == AnswerInv /\ [Next]_vars => AnswerInv'
<1> SUFFICES ASSUME AnswerInv, [Next]_vars PROVE AnswerInv'
  OBVIOUS
<1>0. /\ IInv' /\ Engine!IInv' /\ IInv /\ Engine!IInv
  BY StepHolds, EngineKept DEF AnswerInv
<1>1. /\ call \in [Readers -> Calls] /\ moments \in [Readers -> SUBSET Engine!Counts]
      /\ totals \in Engine!Counts /\ totals' \in Engine!Counts
      /\ readers \in [Readers -> [pc : {"idle", "snap"}, n : Int, now : Nat]]
      /\ served \in [Readers -> Engine!Items]
      /\ \A s \in Readers : AnswerOK(s)
  <2>1. totals' \in Engine!Counts
    BY <1>0 DEF Engine!IInv, Engine!TypeOK
  <2>2. served \in [Readers -> Engine!Items]
    BY <1>0 DEF Engine!IInv, Engine!TypeOK
  <2> QED BY <1>0, <2>1, <2>2, TypedFacts, EngineTotals DEF AnswerInv, IInv, EngineOK
<1>2. ASSUME NEW r \in Readers, Begins(r)
      PROVE  /\ moments' \in [Readers -> SUBSET Engine!Counts]
             /\ \A s \in Readers : AnswerOK(s)'
  <2>1. PICK path \in {"top", "health"}, n \in MinTopN..MaxTopN : Begin(r, path, n)
    BY <1>2 DEF Begins
  <2> DEFINE new == [pc |-> "snapshot", path |-> path, n |-> n, start |-> clock,
                     generatedAt |-> 0, lag |-> 0]
  <2>2. /\ readers' = [readers EXCEPT ![r] = [pc |-> "snap", n |-> n, now |-> clock]]
        /\ call' = [call EXCEPT ![r] = new]
        /\ moments' = [moments EXCEPT ![r] = {totals}] /\ UNCHANGED <<totals, served>>
    BY <2>1 DEF Begin, Win!SnapBegin, Win!engineVars
  <2>3. new.pc = "snapshot" /\ new.n = n
    OBVIOUS
  <2> HIDE DEF new
  <2>4. AnswerOK(r)'
    BY <1>1, <2>2, <2>3 DEF AnswerOK
  <2>5. ASSUME NEW s \in Readers, s # r PROVE AnswerOK(s)'
    <3>1. /\ call'[s] = call[s] /\ served'[s] = served[s] /\ moments'[s] = moments[s]
          /\ readers'[s] = readers[s] /\ totals' = totals
      BY <1>1, <2>2, <2>5
    <3> QED BY <1>1, <3>1, AnswerKept DEF AnswerOK
  <2>6. moments' \in [Readers -> SUBSET Engine!Counts]
    BY <1>1, <2>2
  <2> QED BY <2>4, <2>5, <2>6
<1>3. ASSUME NEW r \in Readers, Step(r)
      PROVE  /\ moments' \in [Readers -> SUBSET Engine!Counts]
             /\ \A s \in Readers : AnswerOK(s)'
  <2>1. ASSUME NEW s \in Readers, s # r PROVE AnswerOK(s)'
    <3>1. /\ call'[s] = call[s] /\ served'[s] = served[s] /\ moments'[s] = moments[s]
          /\ readers'[s] = readers[s] /\ totals' = totals
      BY <1>1, <1>3, <2>1 DEF Step, Snapshot, CountRead, SetAge, Answer, AnswerHealth,
                              Win!SnapLocked, engineVars
    <3> QED BY <1>1, <3>1, AnswerKept DEF AnswerOK
  <2>2. CASE Snapshot(r)
    <3>1. AnswerOK(r)' /\ moments' = moments
      BY <2>2, SnapshotAnswers DEF Snapshot
    <3> QED BY <1>1, <2>1, <3>1
  <2>3. CASE CountRead(r) \/ SetAge(r)
    <3>1. /\ call[r].pc \in {"counted", "age"} /\ call'[r].pc \in {"age", "latency"}
          /\ call'[r].n = call[r].n /\ UNCHANGED <<served, moments>>
      BY <1>1, <2>3 DEF CountRead, SetAge, engineVars, Calls
    <3>2. AnswerOK(r)'
      BY <1>1, <3>1 DEF AnswerOK
    <3> QED BY <1>1, <2>1, <3>1, <3>2
  <2>4. CASE Answer(r) \/ AnswerHealth(r)
    <3>1. call' = [call EXCEPT ![r] = IdleCall] /\ moments' = [moments EXCEPT ![r] = {}]
      BY <2>4 DEF Answer, AnswerHealth
    <3>2. call'[r].pc = "idle"
      BY <1>1, <3>1 DEF IdleCall
    <3>3. AnswerOK(r)'
      BY <3>2 DEF AnswerOK
    <3>4. moments' \in [Readers -> SUBSET Engine!Counts]
      BY <1>1, <3>1
    <3> QED BY <2>1, <3>3, <3>4
  <2> QED BY <1>3, <2>2, <2>3, <2>4 DEF Step
<1>4. CASE AddLocked
  <2>1. /\ UNCHANGED <<call, readers, served>>
        /\ moments' = [r \in Readers |-> IF call[r].pc = "idle" THEN {}
                                         ELSE moments[r] \cup {totals'}]
    BY <1>4 DEF AddLocked, Win!AddLocked, http
  <2>2. moments' \in [Readers -> SUBSET Engine!Counts]
    BY <1>1, <2>1
  <2>3. ASSUME NEW s \in Readers PROVE AnswerOK(s)'
    <3>1. CASE call[s].pc = "idle"
      BY <2>1, <3>1 DEF AnswerOK
    <3>2. CASE call[s].pc # "idle"
      <4>1. moments[s] \subseteq moments'[s] /\ totals' \in moments'[s]
        BY <2>1, <3>2
      <4> QED BY <1>1, <2>1, <4>1, AnswerKept
    <3> QED BY <3>1, <3>2
  <2> QED BY <1>0, <2>2, <2>3 DEF AnswerInv
<1>5. CASE \/ \E query \in Queries, score \in Scores, stamp \in Stamps :
                AddBegin(query, score, stamp)
           \/ Tick \/ UNCHANGED vars
  <2>1. UNCHANGED <<call, readers, served, moments, totals>>
    BY <1>5 DEF AddBegin, Win!AddBegin, Tick, Win!Tick, Win!engineVars, http, vars, engineVars
  <2> QED BY <1>0, <1>1, <2>1 DEF AnswerInv, AnswerOK
<1> QED BY <1>0, <1>2, <1>3, <1>4, <1>5, StepKinds DEF AnswerInv

(* An answer to GET /api/v1/top is the exact top of some moment between the *)
(* request and the answer, however many readers and votes interleave.       *)
THEOREM AnswersFromTheCall == Spec => AnswersWithinCall
<1> DEFINE Body == \A r \in Readers : (call[r].pc = "latency" /\ call'[r].pc = "idle") =>
                     \E t \in moments[r] : Win!Abs!IsTop(served[r], call[r].n, t)
<1>1. Init => AnswerInv
  <2> SUFFICES ASSUME Init PROVE AnswerInv
    OBVIOUS
  <2>1. IInv
    BY InitHolds
  <2>2. Engine!IInv
    BY EngineInit, EngineAssumed, Engine!InitIInv DEF Init
  <2>3. moments \in [Readers -> SUBSET Engine!Counts]
    BY DEF Init
  <2>4. \A r \in Readers : AnswerOK(r)
    BY DEF Init, AnswerOK, IdleCall
  <2> QED BY <2>1, <2>2, <2>3, <2>4 DEF AnswerInv
<1>2. AnswerInv => Body
  BY DEF AnswerInv, AnswerOK
<1> HIDE DEF Body
<1>3. Spec => [][Body]_vars
  BY <1>1, <1>2, NextAnswers, PTL DEF Spec
<1> QED BY <1>3 DEF Body, AnswersWithinCall

=============================================================================
