----------------------------- MODULE Collector -----------------------------
(* The metrics of internal/adapters/metrics.  Every method of the collector *)
(* holds c.mu from its first access to its last, so each is an operator     *)
(* from one record of counters to the next; what happens between two of     *)
(* them is up to the handlers.  Times are in ticks.                         *)
EXTENDS Integers

(* The reasons an event is dropped for that the models tell apart; the      *)
(* refusals of the anti-fraud rules but the cap are one.                    *)
RejectReasons == {"INVALID_JSON", "SCHEMA_VALIDATION_FAILED", "MAPPING_FAILED",
                  "INVALID_QUERY", "DUPLICATE_EVENT_ID",
                  "ANTI_FRAUD_CONTRIBUTION_CAP", "ANTI_FRAUD",
                  "UNKNOWN_REJECT_REASON"}

NewCollector ==
  [ingestTotal |-> 0, dropped |-> [r \in RejectReasons |-> 0],
   lagLast |-> 0, lagSum |-> 0, lagCount |-> 0, snapshotAge |-> 0,
   topReads |-> 0, latencyLast |-> 0, latencySum |-> 0, latencyCount |-> 0]

Collectors ==
  [ingestTotal : Nat, dropped : [RejectReasons -> Nat],
   lagLast : Nat, lagSum : Nat, lagCount : Nat, snapshotAge : Nat,
   topReads : Nat, latencyLast : Nat, latencySum : Nat, latencyCount : Nat]

ClampNonNegative(v) == IF v < 0 THEN 0 ELSE v

IncIngest(m) == [m EXCEPT !.ingestTotal = @ + 1]

IncDropped(m, reason) ==
  LET label == IF reason = "" THEN "UNKNOWN_REJECT_REASON" ELSE reason
  IN  [m EXCEPT !.dropped[label] = @ + 1]

ObserveIngestLag(m, lag) ==
  [m EXCEPT !.lagLast = ClampNonNegative(lag),
            !.lagSum = @ + ClampNonNegative(lag),
            !.lagCount = @ + 1]

SetSnapshotAge(m, age) == [m EXCEPT !.snapshotAge = ClampNonNegative(age)]

IncTopRead(m) == [m EXCEPT !.topReads = @ + 1]

ObserveTopReadLatency(m, latency) ==
  [m EXCEPT !.latencyLast = ClampNonNegative(latency),
            !.latencySum = @ + ClampNonNegative(latency),
            !.latencyCount = @ + 1]

(* A mean as the scrape shows it, cut to a whole tick: 0 before the first   *)
(* observation.                                                             *)
Mean(sum, count) == IF count = 0 THEN 0 ELSE sum \div count

(* What a scrape shows: sums and numbers of observations only as means, and *)
(* of the reasons those that occurred.                                      *)
RenderPrometheus(m) ==
  [ingestTotal |-> m.ingestTotal,
   dropped |-> [r \in {s \in RejectReasons : m.dropped[s] > 0} |-> m.dropped[r]],
   lagLast |-> m.lagLast, lagMean |-> Mean(m.lagSum, m.lagCount),
   snapshotAge |-> m.snapshotAge, topReads |-> m.topReads,
   latencyLast |-> m.latencyLast, latencyMean |-> Mean(m.latencySum, m.latencyCount)]
=============================================================================
