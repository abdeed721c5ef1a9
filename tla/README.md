# Verification of the "trending searches" service

The service reads search events from a Kafka topic, rejects what is malformed, repeated or fraudulent, counts
the rest in a ring buffer of per-second buckets, and serves the most frequent queries of the last five minutes.
A stop-list in PostgreSQL is edited through an admin API and filters the words queries are counted under.
This directory holds TLA+ modules of its parts, TLC configurations that check them on small instances, and
proofs that TLAPS checks for every value of the constants. `PROJECT.json` lists components, runs, the source
lines of every definition, findings, hazards and theorems.

    tlc -config MCWindowEngine.cfg MCWindowEngine      # a run: see the table below
    tlapm WindowEngine_proofs.tla                      # the proofs; the other ..._proofs alike

## 1. Inventory

| component (under `internal/`) | state | operations | talks to |
|---|---|---|---|
| `engine/window` | buckets, running totals, cached snapshot, dirty flag, time of the last rebuild; one mutex | `Add`, `Snapshot` | called by the ingest handler and by the HTTP handlers |
| `engine/antifraud` | per-minute counters, blocks of addresses and sessions, contributions, events of each session; one mutex | `Evaluate` | called by the ingest handler |
| `engine/dedup` | ids with their expiry; one mutex | `SeenOrAdd` | called by the ingest handler |
| `engine/normalizer` | the set of stop words; RWMutex | `Normalize`, `ReplaceStopWords` | ingest handler, stop-list service |
| `usecase/ingest` | none | `HandleRaw`, `Handle` | consumer -> validator, dedup, normalizer, antifraud, window |
| `adapters/kafka` | position of the loop; the group's offset is the broker's | `Run`, `handleWithRetry`, `commitWithRetry` | Kafka, ingest handler |
| `usecase/stoplist`, `adapters/storage/postgres`, admin handlers | tables `stop_words`, `stop_list_state` | `Add`, `Remove`, `List`, `Sync` | PostgreSQL, normalizer |
| `app`, `cmd/trends-service` | root context, error channel, goroutines | boot, `Run`, shutdown, exit | everything |
| `adapters/httpapi` (top, health, metrics) | none | `GetTop`, `Health`, `Metrics` | window, metrics |
| `adapters/metrics` | counters; one mutex | increments, render | handlers |
| `config` and the constructors | none | `FromEnv`, `Validate`, the defaults of each constructor | main |
| `adapters/contracts`, `domain`, `ports`, `logging`, docs handlers | none | pure functions | |

Goroutines: one consumer, one per HTTP request, the main goroutine. The consumer is the only writer of window,
anti-fraud and dedup store; HTTP handlers read the window; admin handlers change the stop-list concurrently.

What is hard here: the two-step calls of the window (clock, then lock) with a cache that is trusted by a flag;
totals kept by differences; late and early events; the anti-fraud maps that are cleaned up on a schedule of their
own; a handled but not yet committed message when the process dies; rebalances with a message in hand; commits
whose outcome is unknown; concurrent stop-list changes, each a transaction followed by an unprotected
read-and-replace; stop words that change while events are counted; metrics that are updated one lock at a time; the
race of a failure with a signal, and a store that is closed while requests end. What makes each component correct: the window answers as a sliding window would; the rules decide
as a policy over the whole log would; no message is skipped or counted twice; versions count stop-list contents and
the normalizer follows them; once a word is stopped at most one more vote is counted under it; answers and metrics are of the time of the request; the
process serves only with settings its components can use, stops in order, and comes back. `PROJECT.json` lists the hazards line by line.

## 2. Modules

| module | models | constants worth knowing |
|---|---|---|
| `SlidingWindow` | abstract: votes per second, the newest second, answers | |
| `WindowEngine` | `engine/window/ring_buffer.go` | `W` slots, `TicksPerSecond`, `RebuildInterval`, `MaxLateness` |
| `AntiFraudPolicy` | abstract: verdict as a function of the log | |
| `AntiFraud` | `engine/antifraud/rules.go` | the limits of `Config` |
| `KafkaIngest` | `adapters/kafka/consumer.go`, `usecase/ingest`, `engine/dedup`, life of the process | `Log`, bounds on each fault |
| `StopListSync` | repository, service and admin handlers of the stop-list, the normalizer's copy | `Requests`, `Words`, bounds on faults |
| `Collector` | operators for each method of `adapters/metrics/prometheus.go` | |
| `Service` | the ingest handlers, normalizer and metrics, composed with `StopListSync` | `Events`, `Short`, `MaxDeliveries` |
| `TopHandlers` | `handlers_top.go`, composed with `WindowEngine` and `Collector` | `RawSizes`, `MaxCalls` |
| `Settings` | operators for `config.go`, the constructors' defaults and panics, `normalizeConfig`, `backoff` | `Longest` duration, `MaxBuckets` of memory, `Envs` |
| `AppLifecycle` | `app/service.go`, `cmd/trends-service/main.go`, the restart policy of `docker-compose.yml` | `MaxFaults` |
| `..._proofs` | theorems about the module of that name | |
| `MC...` | instances of the module of that name | |

Definitions named `Bug...` are plausible mistakes: the runs were confirmed to fail when one replaces the definition
next to it. No specification uses them.

**WindowEngine.** `AddBegin`/`AddLocked` are `Add` before and inside the critical section; `SnapBegin`/`SnapLocked`
are `Snapshot`. The clock is read in the first step, so another call may come between. Time is in ticks. A map without a key
is a function that is 0 there; scores are whole numbers (the only caller passes 1.0, exact in a float64 up to 2^53).
Query 0 is the empty one, which `Add` ignores. The per-bucket subtraction that drops a key at or below 0 is `Less`; buckets
evicted one after another subtract their sum, which is why one truncated subtraction stands for the loop.
Sorting is given by `Place`, how many queries beat one, so that it needs no recursion. `MaxLateness` is no code: it is the
assumption about the environment under which the buffer is a window, and the late runs lift it.

**AntiFraud.** One disjunct for each `return` of `Evaluate`, in order. The cleanup runs at its head when a minute
has passed; `IPBlocks`, `SessionBlocks`, `Contributions` and `Entropies` are the maps after it. `log` is a history
variable. The clock never goes back.

**KafkaIngest.** `pc` is where `Consumer.Run` is. `HandleRaw` and `HandleEvent` are the two handlers; what
validator, normalizer and rules decide is the kind of the message, except the contribution cap, which matters
for repeats and is the variable `capped`. `Die` is the end of the process by whatever way; `Boot` joins the group at the committed offset.
The broker, the producer and the time are external. `everVoted` is a history variable.

**StopListSync.** `request[p].pc` is where a request's goroutine is; each SQL statement is a step. Row locks are
`wordLock` and `versionLock`; a statement that waits is a disabled action. `history` and `activeAt` are history
variables: the committed contents in order, and which one the normalizer has.

**Service.** `Receive` begins `HandleRaw`; each way it may end is an action (`BreaksContract`, `IsDuplicate`, `IsUnusable`,
`IsRefused`, `IsAccepted`), and `Add` is the vote with the metrics after it, a step of its own so that an admin request may come
between normalizer and window. `Admin` is any step of `StopListSync` but crash and boot. A query is the sequence of its tokens
that are no stop words: which runs of letters and digits a text falls into is data of the event, and so is the contract's verdict.
What comes next is left open (any event, any number of times), and so are the rules but the contribution cap, which depends on the query.
`stopped` is a history variable.

**TopHandlers.** `call[r].pc` is where a handler is: before `Snapshot`, before each of its metrics, before its answer. The
consumer's `Add` and the readers are `WindowEngine`'s own steps. A scrape is a look at the state (`RenderPrometheus` is one critical section).
`answered` and `moments` are history variables.

**Settings.** Operators only. An environment gives each variable a blank, something unreadable, or a value. `Validate` looks at two
strings; that a number makes sense is up to each constructor (`Constructed`). `Wrap` is the arithmetic of an `int64`, with `Longest` for its maximum;
`Doublings` are the delays of the loop of `backoff`, each from the one before. Two numbers no constructor mends: `EngineFits`, a window
whose buckets memory has room for (`make` in `NewEngine` panics on the longest; `MaxBuckets` stands for what the machine has), and
`ReaderAccepts`, a start offset of -1 or -2: for a consumer group `NewReader` of kafka-go v0.4.51 panics on any other, which is known of the
library and not read in this repository.

**AppLifecycle.** `main` is the program counter of the main goroutine; the boot's steps that ask the database fail once the root
context is cancelled. `Exits` leaves the goroutines as they are: `log.Fatal` runs no deferred call. `consumer` is the goroutine alone;
it returns `context.Canceled` only after the context is cancelled, which is an assumption about the library. The two constructors that
may not return are steps of the boot, `MakeEngine` after the store is opened and `MakeConsumer` before `Run`; with settings they cannot do with
the process ends with 2 (or is killed for want of memory), at every start again, and no fault is spent on it.

## 3. Runs

| run (cfg) | shows | instance |
|---|---|---|
| `window` (`MCWindowEngine`) | the buffer is a sliding window (refinement), drops only what has left; totals, cache and answers agree with the buckets | 3 slots, 2 queries, 2 readers, lateness below `W` |
| `window_late_event` | finding: a late event drops live votes | 3 slots |
| `window_idle` | finding: votes are served after the window when no event comes | 3 slots, clock runs on |
| `antifraud` (`MCAntiFraud`) | limits on what an identity adds; counts are the multiset of the events; refinement of `AntiFraudPolicy` | 2 addresses, 2 sessions, 1 user, 2 queries, 5 events |
| `kafka` (`MCKafkaIngest`) | nothing committed uncounted, nothing counted twice, offset never goes back, every message is finished with | 4 messages: a vote, its repeat, malformed, invalid; 2 handler and commit errors, a fetch error, a rebalance, signal and crash |
| `kafka_restart` | finding: committed votes are lost by a restart | |
| `stoplist` (`StopListSync`) | versions, acknowledgements, listings, the normalizer's content; every request is answered | 2 requests, 2 words, an error or a crash |
| `stoplist_race` | finding: the normalizer stays behind | 2 requests, no error |
| `service` (`MCService`) | at most one vote after a word is stopped; repeats are counted once over changes of the stop words; the metrics account for every message; the normalizer follows the database | 4 events, one stop word, one admin, 3 deliveries, a crash |
| `service_stop_list` | findings: votes under a stored stop word are served | as `service`, with an error and no crash |
| `top` (`MCTopHandlers`) | lag and answer are of the time of the request; a scrape balances | 2 requests at a time, 3 in all, one query size |
| `app` (`MCAppLifecycle`) | usable settings, orderly shutdown, exit codes, recovery | 156 environments: each variable off in six ways, pairs of back-offs and of fetch sizes, windows about `MaxBuckets`, offsets with and without a reader; 3 faults |

*Bounds.* Every `Max...` constant is a bound or a fault budget, said so where it is declared. Three slots and five seconds let
a slot be reused, a bucket be evicted on the boundary and an event be late within the window; two slots make every later
second collide. `MaxTotal` 2 is enough for ties and for a score to change the order. Five anti-fraud events against limits of
one and two per window exceed each of them and outlive each block, window and cleanup (clock to 7, windows of 2 and 3).
Two requests suffice for the races of the stop-list: three have no lock or row that two do not contend for. Two deletions of
one row need a third change before them and are beyond that run's `MaxVersion`; `ChangesOnce` proves them.
Three deliveries are an event, its repeat and another of its source; a window of one second less than the TTL tells the two limits apart.
Three faults are one more than the two goroutines; eight attempts take every back-off of the environments to its maximum.
The anti-fraud `EntropyBounded` needs a block longer than the entropy window, as the defaults have (1 h, 5 min).
Deadlock is checked in every run: where a bound stops the system an explicit disjunct (`BoundsReached`, `Waiting`) lets it rest.

*Fairness.* `WindowEngine`: a call waiting for the `sync.Mutex` gets it (starvation mode). `KafkaIngest`: the loop goes on, the
shutdown has its 5 s timeout, compose restarts the container (`restart: unless-stopped`). `StopListSync`: strong fairness of each
request's step, since PostgreSQL hands a row lock to its longest waiter. `AppLifecycle`: each goroutine goes on and the container is restarted; no request is
assumed to end. `Service` and `TopHandlers` assume none. Faults are never fair and are bounded.

## 4. Proofs

`WindowEngine_proofs` proves, for every `W`, every finite set of queries and any scores, stamps and readers:

- `Invariance`: `IInv == TypeOK /\ SlotDiscipline /\ TotalsMatchBuckets /\ CachedFresh` is invariant. `TypeOK` alone is
  inductive only with the others: the totals stay natural numbers since what a bucket takes out of them is in them (`TotalsMatchBuckets`),
  and that a bucket out of use is empty (`SlotDiscipline`) is what makes skipping it in an eviction harmless.
- `TypeCorrect`, `TotalsCorrect`, `CacheCorrect`: its parts.
- `SnapshotCorrect` (`ServesLiveBuckets`): with the lemmas on `Ranked` - places are a bijection onto `1..n`, ordered by `Beats` - every
  prefix the cache returns is the top of the live buckets.
- `WindowCorrect` (`WindowSpan`) and `OnlyExpiredDropped` (`DropsOnlyExpired`): under `MaxLateness < W`, with the lateness
  of the event being added as a further invariant.

The counting argument: `Contribution` is the cardinality of a set of unit votes, so that splitting it over slots is a fact about
disjoint finite sets (`ContributionSplit`) and needs no induction over a recursive sum. The assumptions are those of `WindowAssumption`.

- `SlidingWindowImplemented` (`ImplementsSlidingWindow`): every step of the ring buffer is a step or a stutter of `SlidingWindow`.
  The mapping reads the window off the live buckets, so an `Add` that reuses a slot must take out exactly the votes whose second has
  left the window: `SlotDiscipline` says which second a slot stands for, and `MaxLateness < W` is what `window_late_event` lacks.

`KafkaIngest_proofs` proves, for every log (`IngestAssumption`: equal ids mean equal kinds) and any number of faults:

- `Invariance`: `IInv` is `TypeOK`, `CommittedWasCounted` and `NoDoubleVote` with what makes them inductive. `InOrder`: the committed
  offset is at or behind the message in hand, and what the loop is about to commit was handled. `RememberedWasCounted`: an id in the
  duplicate store is one that was handled, and an active cap one that was counted - so a skipped repeat skips nothing.
  `VoteRemembered`: the cap of a counted vote holds to the end of its window, and the store has its id until its TTL is over.
- `NothingSkipped`, `NothingTwice`, `TypeCorrect`: its parts. `OffsetMonotone` (`CommittedNeverGoesBack`): from `InOrder`.

`StopListSync_proofs` proves, for any number of requests, words, errors and crashes:

- `Invariance`: the invariants of the run are strengthened by `RequestOK(p)`, what each request relies on. In its transaction it
  has the row of its word, and the word is still absent (or present) as it found it; before COMMIT it has the version row, hence
  the next version; after COMMIT its version is made; what it read afterwards is a content newer than the one it changed.
  A step of one request must leave the others' `RequestOK` alone (`Combine`): the row locks are what guarantees it (`Taken`, `Released`,
  `Applied`: at most one transaction is about to commit, and none other is changing its word).
- `VersionNames`, `ChangesOnce`, `ListIsWhole`, `ActiveIsWhole`, `TypeCorrect`: its parts.
- `SyncedFirst` (`AcknowledgedIsActive`): only `Replace` ends a request in `"replace"`, and it hands over what the request read.
- `SyncedOneAtATime`: with one request at a time (`OneAtATime`) and no failing query, over crashes, the normalizer has the database's content whenever no request
  is under way. The two hypotheses are the ones `stoplist_race` and `service_stop_list` do without. `RoundOK` says that what the one
  request has read is what is committed; `SyncInv` adds that only between a change and its synchronisation may the normalizer be behind.

`Service_proofs` proves `TypeCorrect` and `CountedApart` (`CountedOnce`) for all events, words, requests and faults. The invariant says that a vote is
remembered (`Remembered`): store and cap hold what it needs, or it is old enough. They forget only what has expired (`ForgetsExpired`), so
that stays true while time passes (`StaysRemembered`), and what the handler lets through is apart from every vote it remembers.
That an admin changes the stop words changes which query a vote is for and nothing of this.

- `EveryMessageAccounted` (`Accounted`): the votes counted, the drops of each reason and the message in hand add up to the messages received.
  A sum over the reasons would need induction, so `Service` counts the drops as the cardinality of the set `Drops` of pairs of a reason
  and a number below its counter: one more drop is one more pair.
- `AtMostOneLate` (`AcknowledgedStops`): under `OneAtATime`, with any faults, once the addition of a stop word is acknowledged only the vote already
  past the normalizer is still counted for it. `InForce` says that such a word is committed, that the normalizer has it or, after a crash, will
  have it, and that no request is about to hand over a content without it; `StopOK` that the late vote is the one that was in hand.
- `ServiceSynced` (`SyncedWhenQuiet`): the argument of `SyncedOneAtATime`, cited through `INSTANCE`, under the composition's steps and without errors.

`AppLifecycle_proofs` proves `TypeCorrect`, `ShutdownIsSafe` and `CodeTells` for every set of environments, any number of requests and
faults. The invariant adds to them what each place of `main` implies (`Shape`): nothing started before `Run`, the store open from its
opening to the deferred close, a cancelled context after the select, and a failure behind every error sent.
`SettingsFit` (`SettingsUsable`) holds for every `Longest` and `MaxBuckets`: `Passed` says what each place of `main` has behind it (`Validate`, then
`NewEngine`, then `NewConsumer`), `ConstructedUsable` goes through what the constructors put right, and the back-off is the values
of a recursive function, of which `Least` (a set of naturals has a least element, from the library's well-foundedness of `<`) proves what an
induction would: that it exists (`DoublingsExist`), that it doubles without overflow until it reaches the maximum (`DelaysGrow`), and that one
attempt more repeats the delays before it (`SameDoublings`).

`AntiFraud_proofs` proves `VotesApart` (`OneVotePerWindow`) and `RateLimited` (`RateBounded`) for all events and limits. Every return of
`Evaluate` is first brought to one form, `Returned`: the log has one entry more, and a map entry is kept unless it has expired (`Kept`),
which is all the proof needs to know of the cleanup. The invariant then says what the memory knows of the log: the contribution of an
accepted vote and the block of an excess last as long as they must (`VotesRemembered`, `BlocksRemembered`); the counters count
what was accepted in their minute, and nothing was accepted in a later one (`CountsRemembered`), so a reset forgets only minutes that are over.

`AntiFraudPolicy_proofs` proves for the same module the rest of its run: `TypesKept`, `CountsAreListed` (`CountsMatchEvents`), `QueriesBounded`
(`EntropyBounded`) and the refinement, `PolicyImplemented` (`ImplementsPolicy`). The policy decides from the log alone, the code from maps it cleans
up. `ExactMemory` says that nothing the policy still asks for was forgotten: of the block ends the log implies the map
has the latest, unless it has passed (`Tracks`), a counter is the number of the minute's events, and a session's list is in the order
of time, holds only accepted events since the session's last block (`Current`) and all of those within the window (`Remembers`). From it each rule finds in the memory what the policy
finds in the log (`SameIPBlock` and its like), rule by rule in the order of `Evaluate`. The list is sorted by time, so that what `Pruned`
cuts off is exactly the old part (`PrunedRemembers`). The bound on distinct queries needs the assumption that a block outlasts the window.

`TopHandlers_proofs` proves `TypeCorrect`, `LagHonest` (`LagIsHonest`) and `ScrapesBalance` (`ScrapeBalances`) for any number of readers and calls.
The invariant adds that no time the engine has noted is later than the clock and a snapshot that is not dirty was built (`EngineOK`), and
that the sums of the collector are those of the calls (`Balance`: latencies add up to at most the answers times the time since the start).
`AnswersFromTheCall` (`AnswersWithinCall`) rests on what `WindowEngine_proofs` knows of a step of the engine, cited through `INSTANCE` (with
every number as a size: `parseTopN` limits it). `AnswerInv`: while a call waits for `Snapshot`, the totals are those of a moment of the call,
since every step that changes them is noted in `moments`; what `Snapshot` returns is the top of the totals then, and is kept from there on.

The assumptions are the named `ASSUME`s of the modules, and for the theorems on one request at a time `OneAtATime` and `MaxErrors = 0` as stated
in each. The run `service` satisfies these.

Only model-checked: liveness (`RequestsEnd`, `EveryMessageCommitted`, `RecoversToServing`), which is out of the
provers' reach, and what the runs of the findings refute.

## 5. Findings

1. *Late event* (`ring_buffer.go:72`): an event 300 s late takes the slot of a live second; its votes are lost, the expired one counts.
2. *Idle* (`ring_buffer.go:97`): only `Add` evicts, so without events the top does not age.
3. *Racing changes* (`commands.go:66`): the normalizer can be left with the older of two contents.
4. *Lost synchronisation* (`commands.go:36`): 503 after a commit leaves a stored word unfiltered, and the retry gets 409.
5. *Counted before* (`normalizer.go:58`): the votes counted before a word is stopped, and the one in hand then, are served until they leave
   the window, although `api.v1.openapi.yaml:24` says that queries of the stop-list do not reach the answer.
6. *Restart* (`consumer.go:112`): committed votes of the last five minutes are gone and are not read again.

Findings 4 and 5 are one run, `service_stop_list`, whose property is that line of the document. Its shortest trace has both: a vote is counted, the
addition of its word takes effect and ends with 503, and then the word is stored, the normalizer lacks it and the vote is in the window. With
`MaxErrors = 0` the trace is the second alone: the addition is acknowledged, the normalizer has the word, the vote stays. What the code does keep is
`AcknowledgedStops`: at most one more vote.

## 6. Not modelled, and the plan

Not modelled: logging, docs handlers, JSON and its schema, authorisation, SQL text, how a text falls into tokens, float
rounding beyond 2^53; a wall clock that goes back. Known and left without a property, with the reason in `PROJECT.json`: events stamped
far in the future, the clock set back, a library that returns `context.Canceled` of its own accord.

Two more things the code does otherwise than documented, known and without a run of their own. A stop word of several tokens is stored and matches
nothing, since `Normalize` compares tokens (`api.v1.openapi.yaml:24`; in the model a word that is no token of an event). And a repeat
delivered when the duplicate store has forgotten its id and the contribution cap its source is counted again, also under another query
when the stop words have changed in between (`README.md:142` of the repository says that a repeat by `event_id` does not affect the result; `NoDoubleVote`
and `CountedOnce` say how far that holds).

Worth knowing, and no finding, since we know of no document that says otherwise: an event rejected as `INVALID_QUERY` stays in the duplicate store, so
that its repeat is dropped although the stop word has gone; `generated_at_ms` may go back from one answer to the next; `trends_snapshot_age_ms`
is the age at the last read or health check; a failure may end with exit code 0 when a signal comes before the select; a start offset other than
0, -1, -2, or a window beyond memory, is accepted by `Validate` and ends every start with a panic; how large a fetch the brokers allow is not asked.

The order was: window (what the service is for), stop-list (the only truly concurrent writers), anti-fraud, consumer; then what
composes them: `Service`, `TopHandlers`, `AppLifecycle`. Next:

1. Proofs: what a race leaves of `SyncedWhenQuiet`: a quiet normalizer has the content that the request which replaced it last had read.
2. Proofs: the safety behind liveness, as that a waiting call finds the lock free or its holder enabled.
