---------------------------- MODULE TopHandlers ----------------------------
(* The public handlers of internal/adapters/httpapi: GET /api/v1/top and    *)
(* GET /api/v1/health, each request a goroutine that calls Snapshot of the  *)
(* window, WindowEngine, and then updates the metrics, one lock at a time,  *)
(* and GET /metrics, which shows them in between.                           *)
EXTENDS Integers, Sequences, FiniteSets, Collector

CONSTANTS
  Queries, Scores, W, Readers, Sizes, Stamps, TicksPerSecond, RebuildInterval,
  MaxLateness, StartClock, MaxClock, MaxTotal,  \* of WindowEngine
  RawSizes,    \* the values of the parameter n
  MaxCalls     \* bound: requests

(* A parameter is missing, no number, or a number.                          *)
Raw == [form : {"missing", "garbage", "number"}, value : Int]

ASSUME TopAssumption ==
  /\ RawSizes \subseteq Raw /\ MaxCalls \in Nat
  /\ Queries \subseteq Nat /\ IsFiniteSet(Queries)
  /\ Scores \subseteq Int /\ Stamps \subseteq Int
  /\ W \in Nat \ {0} /\ TicksPerSecond \in Nat \ {0}
  /\ {RebuildInterval, MaxLateness, MaxTotal} \subseteq Nat
  /\ StartClock \in Nat /\ StartClock >= TicksPerSecond
  /\ MaxClock \in Nat /\ MaxClock >= StartClock

VARIABLES
  clock, buckets, totals, cached, dirty, lastRebuildAt, writer, readers, served,
            \* of WindowEngine
  call,     \* the goroutine of each request
  metrics,
  calls,    \* requests so far
  answered, \* history variable: top reads answered with 200
  moments   \* history variable: the totals there were during a call

Win == INSTANCE WindowEngine

engineVars == <<buckets, totals, cached, dirty, lastRebuildAt, writer, readers, served>>
http == <<call, metrics, calls, answered>>
vars == <<clock, engineVars, http, moments>>

-----------------------------------------------------------------------------
DefaultTopN == 10
MinTopN == 1
MaxTopN == 100

(* The definitions called Bug... are mistakes the properties are meant to   *)
(* catch; nothing here uses them.                                           *)
BugInvalidTopN(raw) == raw.form = "garbage" \/ raw.value > MaxTopN

(* parseTopN.                                                               *)
InvalidTopN(raw) ==
  \/ raw.form = "garbage"
  \/ raw.form = "number" /\ raw.value \notin MinTopN..MaxTopN
ParseTopN(raw) == IF raw.form = "missing" THEN DefaultTopN ELSE raw.value

SnapshotLag(r) ==
  IF call[r].generatedAt <= 0 THEN 0 ELSE ClampNonNegative(clock - call[r].generatedAt)

IdleCall == [pc |-> "idle", path |-> "top", n |-> 1, start |-> 0,
             generatedAt |-> 0, lag |-> 0]

Init ==
  /\ Win!Init
  /\ call = [r \in Readers |-> IdleCall]
  /\ metrics = NewCollector
  /\ calls = 0 /\ answered = 0
  /\ moments = [r \in Readers |-> {}]

(* A request for the n best comes in; the clock is read for the latency and *)
(* then by Snapshot, which is one reading here.                             *)
Begin(r, path, n) ==
  /\ call[r].pc = "idle" /\ calls < MaxCalls
  /\ Win!SnapBegin(r, n)
  /\ call' = [call EXCEPT ![r] =
       [pc |-> "snapshot", path |-> path, n |-> n, start |-> clock,
        generatedAt |-> 0, lag |-> 0]]
  /\ calls' = calls + 1
  /\ moments' = [moments EXCEPT ![r] = {totals}]
  /\ UNCHANGED <<metrics, answered>>

GetTop(r, raw) == ~InvalidTopN(raw) /\ Begin(r, "top", ParseTopN(raw))

(* 400, before the engine and the metrics are touched.                      *)
Refuse(r, raw) ==
  /\ call[r].pc = "idle" /\ InvalidTopN(raw)
  /\ UNCHANGED vars

Health(r) == Begin(r, "health", 1)

BugSnapshot(r) ==
  /\ call[r].pc = "snapshot"
  /\ Win!SnapLocked(r)
  /\ call' = [call EXCEPT ![r].pc = "counted", ![r].generatedAt = cached.generatedAt]
  /\ UNCHANGED <<metrics, calls, answered, moments>>

(* Snapshot returns.                                                        *)
Snapshot(r) ==
  /\ call[r].pc = "snapshot"
  /\ Win!SnapLocked(r)
  /\ call' = [call EXCEPT ![r].pc = "counted", ![r].generatedAt = cached'.generatedAt]
  /\ UNCHANGED <<metrics, calls, answered, moments>>

(* GetTop reads the clock for the lag, then updates one metric after the    *)
(* other.                                                                   *)
CountRead(r) ==
  /\ call[r].pc = "counted" /\ call[r].path = "top"
  /\ metrics' = IncTopRead(metrics)
  /\ call' = [call EXCEPT ![r].pc = "age", ![r].lag = SnapshotLag(r)]
  /\ UNCHANGED <<clock, engineVars, calls, answered, moments>>

SetAge(r) ==
  /\ call[r].pc = "age"
  /\ metrics' = SetSnapshotAge(metrics, call[r].lag)
  /\ call' = [call EXCEPT ![r].pc = "latency"]
  /\ UNCHANGED <<clock, engineVars, calls, answered, moments>>

(* The last metric, and the answer.                                         *)
Answer(r) ==
  /\ call[r].pc = "latency"
  /\ metrics' = ObserveTopReadLatency(metrics, ClampNonNegative(clock - call[r].start))
  /\ call' = [call EXCEPT ![r] = IdleCall]
  /\ answered' = answered + 1
  /\ moments' = [moments EXCEPT ![r] = {}]
  /\ UNCHANGED <<clock, engineVars, calls>>

BugAnswerHealth(r) ==
  /\ call[r].pc = "counted" /\ call[r].path = "health"
  /\ metrics' = ObserveTopReadLatency(metrics, ClampNonNegative(clock - call[r].start))
  /\ call' = [call EXCEPT ![r] = IdleCall]
  /\ moments' = [moments EXCEPT ![r] = {}]
  /\ UNCHANGED <<clock, engineVars, calls, answered>>

(* Health sets the age when there is a snapshot, and answers.               *)
AnswerHealth(r) ==
  /\ call[r].pc = "counted" /\ call[r].path = "health"
  /\ metrics' = IF call[r].generatedAt > 0 THEN SetSnapshotAge(metrics, SnapshotLag(r))
                                           ELSE metrics
  /\ call' = [call EXCEPT ![r] = IdleCall]
  /\ moments' = [moments EXCEPT ![r] = {}]
  /\ UNCHANGED <<clock, engineVars, calls, answered>>

(* The consumer adds a vote meanwhile.                                      *)
AddBegin(query, score, stamp) ==
  Win!AddBegin(query, score, stamp) /\ UNCHANGED <<http, moments>>

AddLocked ==
  /\ Win!AddLocked
  /\ moments' = [r \in Readers |-> IF call[r].pc = "idle" THEN {}
                                   ELSE moments[r] \cup {totals'}]
  /\ UNCHANGED http

Tick == Win!Tick /\ UNCHANGED <<http, moments>>

Step(r) == Snapshot(r) \/ CountRead(r) \/ SetAge(r) \/ Answer(r) \/ AnswerHealth(r)

Next ==
  \/ \E r \in Readers : \/ \E raw \in RawSizes : GetTop(r, raw) \/ Refuse(r, raw)
                        \/ Health(r)
                        \/ Step(r)
  \/ \E query \in Queries, score \in Scores, stamp \in Stamps :
       AddBegin(query, score, stamp)
  \/ AddLocked
  \/ Tick

Spec == Init /\ [][Next]_vars

-----------------------------------------------------------------------------
(* Every variable of the handlers has its type.                             *)
TypeOK ==
  /\ call \in [Readers ->
       [pc : {"idle", "snapshot", "counted", "age", "latency"},
        path : {"top", "health"}, n : MinTopN..MaxTopN, start : Nat,
        generatedAt : Nat, lag : Nat]]
  /\ metrics \in Collectors
  /\ calls \in 0..MaxCalls /\ answered \in 0..calls

(* freshness_lag_ms is honest: generated_at_ms plus the lag is a moment     *)
(* between the request and its answer, whoever built the snapshot, from     *)
(* whatever reading of the clock; and no answer is made of a snapshot that  *)
(* was never built.                                                         *)
LagIsHonest ==
  \A r \in Readers : call[r].pc \in {"age", "latency"} =>
    /\ call[r].generatedAt > 0
    /\ call[r].start <= call[r].generatedAt + call[r].lag
    /\ call[r].generatedAt + call[r].lag <= clock

(* What a scrape shows between any two steps: every answered read is        *)
(* counted once, and beyond them only the reads that are between their      *)
(* first and their last metric; no mean latency exceeds the time since the  *)
(* start.  What is refused or asked by a health check is not counted.       *)
ScrapeBalances ==
  LET shown == RenderPrometheus(metrics)
  IN  /\ shown.topReads =
           answered + Cardinality({r \in Readers : call[r].pc \in {"age", "latency"}})
      /\ metrics.latencyCount = answered
      /\ shown.latencyMean <= clock - StartClock

(* A 200 answer to GET /api/v1/top holds the n best queries, with their     *)
(* counts, of some moment between the request and the answer: the votes     *)
(* added before the request are in it.                                      *)
AnswersWithinCall ==
  [][\A r \in Readers : (call[r].pc = "latency" /\ call'[r].pc = "idle") =>
       \E t \in moments[r] : Win!Abs!IsTop(served[r], call[r].n, t)]_vars
=============================================================================
