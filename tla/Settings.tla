------------------------------ MODULE Settings ------------------------------
(* How the environment becomes the parameters of the components: FromEnv    *)
(* and Validate of internal/config, the defaults of the constructors, and   *)
(* the back-off of the consumer, for which they must be right.              *)
(*                                                                          *)
(* Durations are in units of 100 ms.  A string is a number that names it, 0 *)
(* the empty one; a list of brokers is their number.  A duration is a       *)
(* signed integer from -Longest - 1 to Longest, an int64 in the code.       *)
EXTENDS Integers

CONSTANTS
  Longest,    \* the longest duration
  MaxBuckets, \* the longest window whose buckets memory has room for
  Envs        \* the environments a process may be started in

(* A variable is blank, or not what its type asks for, or has a value.      *)
Keys == {"HTTP_ADMIN_TOKEN", "STORAGE_STOPLIST_POSTGRES_DSN",
         "KAFKA_ENABLED", "KAFKA_BROKERS", "KAFKA_TOPIC", "KAFKA_GROUP_ID",
         "KAFKA_MIN_BYTES", "KAFKA_MAX_BYTES", "KAFKA_MAX_WAIT",
         "KAFKA_START_OFFSET", "KAFKA_MAX_PROCESSING_RETRIES",
         "KAFKA_RETRY_BACKOFF", "KAFKA_RETRY_BACKOFF_MAX", "KAFKA_COMMIT_RETRIES",
         "KAFKA_COMMIT_RETRY_BACKOFF", "TOP_WINDOW_SECONDS", "INGEST_DEDUP_TTL",
         "ANTI_FRAUD_MAX_REQUESTS_PER_MINUTE_PER_IP",
         "ANTI_FRAUD_IP_BLOCK_DURATION", "ANTI_FRAUD_CONTRIBUTION_WINDOW",
         "ANTI_FRAUD_MAX_UNIQUE_QUERIES_PER_SESSION",
         "ANTI_FRAUD_SESSION_ENTROPY_WINDOW", "ANTI_FRAUD_SESSION_BLOCK_DURATION"}
Variable == [form : {"blank", "garbage", "value"}, value : Int]

ASSUME SettingsAssumption ==
  /\ {Longest, MaxBuckets} \subseteq Nat
  /\ Envs \subseteq [Keys -> Variable]

-----------------------------------------------------------------------------
(* getEnvInt, getEnvInt64 and getEnvDuration.                               *)
GetEnvNumber(raw, fallback) == IF raw.form = "value" THEN raw.value ELSE fallback

(* 1 is a text that ParseBool takes for true and 0 one it takes for false.  *)
GetEnvBool(raw, fallback) ==
  IF raw.form = "value" /\ raw.value \in {0, 1} THEN raw.value = 1 ELSE fallback

(* Whatever is not blank is a string.                                       *)
GetEnvString(raw, fallback) ==
  IF raw.form = "blank" \/ raw.value = 0 THEN fallback ELSE raw.value

(* A list of blanks is as good as none.                                     *)
GetEnvCSV(raw, fallback) ==
  IF raw.form = "blank" \/ raw.value <= 0 THEN fallback ELSE raw.value

FromEnv(env) ==
  LET Number(key, fallback) == GetEnvNumber(env[key], fallback)
      String(key, fallback) == GetEnvString(env[key], fallback)
  IN  [AdminToken |-> String("HTTP_ADMIN_TOKEN", 0),
       StopListPostgresDSN |-> String("STORAGE_STOPLIST_POSTGRES_DSN", 0),
       Enabled |-> GetEnvBool(env["KAFKA_ENABLED"], TRUE),
       Brokers |-> GetEnvCSV(env["KAFKA_BROKERS"], 1),
       Topic |-> String("KAFKA_TOPIC", 1), GroupID |-> String("KAFKA_GROUP_ID", 1),
       MinBytes |-> Number("KAFKA_MIN_BYTES", 2^10),
       MaxBytes |-> Number("KAFKA_MAX_BYTES", 10 * 2^20),
       MaxWait |-> Number("KAFKA_MAX_WAIT", 5),
       StartOffset |-> Number("KAFKA_START_OFFSET", -2),
       MaxProcessingRetries |-> Number("KAFKA_MAX_PROCESSING_RETRIES", 3),
       RetryBackoff |-> Number("KAFKA_RETRY_BACKOFF", 1),
       RetryBackoffMax |-> Number("KAFKA_RETRY_BACKOFF_MAX", 30),
       CommitRetries |-> Number("KAFKA_COMMIT_RETRIES", 3),
       CommitRetryBackoff |-> Number("KAFKA_COMMIT_RETRY_BACKOFF", 1),
       WindowSeconds |-> Number("TOP_WINDOW_SECONDS", 300),
       DedupTTL |-> Number("INGEST_DEDUP_TTL", 6000),
       MaxRequests |-> Number("ANTI_FRAUD_MAX_REQUESTS_PER_MINUTE_PER_IP", 1000),
       IPBlock |-> Number("ANTI_FRAUD_IP_BLOCK_DURATION", 36000),
       ContributionWindow |-> Number("ANTI_FRAUD_CONTRIBUTION_WINDOW", 36000),
       MaxUnique |-> Number("ANTI_FRAUD_MAX_UNIQUE_QUERIES_PER_SESSION", 100),
       EntropyWindow |-> Number("ANTI_FRAUD_SESSION_ENTROPY_WINDOW", 3000),
       SessionBlock |-> Number("ANTI_FRAUD_SESSION_BLOCK_DURATION", 36000)]

(* Validate asks for two strings and looks at no number.                    *)
Validates(cfg) == cfg.AdminToken # 0 /\ cfg.StopListPostgresDSN # 0

-----------------------------------------------------------------------------
(* The definitions called Bug... are mistakes the properties are meant to   *)
(* catch; nothing here uses them.                                           *)
BugPositive(v, default) == IF v < 0 THEN default ELSE v

(* What the constructors make of a value that makes no sense.               *)
Positive(v, default) == IF v <= 0 THEN default ELSE v
OrElse(v, default) == IF v = 0 THEN default ELSE v
NotNegative(v) == IF v < 0 THEN 0 ELSE v
AtMost(v, limit) == IF v > limit THEN limit ELSE v
AtLeast(v, limit) == IF v < limit THEN limit ELSE v

(* normalizeConfig of the consumer.                                         *)
Normalized(cfg) ==
  LET minBytes   == Positive(cfg.MinBytes, 2^10)
      backoffMax == Positive(cfg.RetryBackoffMax, 30)
  IN  [cfg EXCEPT
        !.Brokers = Positive(@, 1),
        !.Topic = OrElse(@, 1), !.GroupID = OrElse(@, 1),
        !.MinBytes = minBytes,
        !.MaxBytes = AtLeast(Positive(@, 10 * 2^20), minBytes),
        !.MaxWait = Positive(@, 5),
        !.StartOffset = OrElse(@, -2),
        !.MaxProcessingRetries = NotNegative(@),
        !.RetryBackoff = AtMost(Positive(@, 1), backoffMax),
        !.RetryBackoffMax = backoffMax,
        !.CommitRetries = NotNegative(@),
        !.CommitRetryBackoff = Positive(@, 1)]

(* What the components work with: the defaults of NewEngine, NewStore and   *)
(* NewFailClosedEvaluator after them.                                       *)
Constructed(cfg) ==
  [Normalized(cfg) EXCEPT
     !.WindowSeconds = Positive(@, 300),
     !.DedupTTL = Positive(@, 6000),
     !.MaxRequests = Positive(@, 1000),
     !.IPBlock = Positive(@, 36000),
     !.ContributionWindow = Positive(@, 36000),
     !.MaxUnique = Positive(@, 100),
     !.EntropyWindow = Positive(@, 3000),
     !.SessionBlock = Positive(@, 36000)]

(* Two constructors can still not do with what Validate has let pass, and   *)
(* panic.  NewEngine makes a bucket for each second of the window.          *)
EngineFits(cfg) == Constructed(cfg).WindowSeconds <= MaxBuckets

(* NewReader of the library takes no offset for a consumer group to start   *)
(* from but the first, -2, and the last, -1.                                *)
ReaderAccepts(cfg) == cfg.Enabled => Constructed(cfg).StartOffset \in {-2, -1}

Constructible(cfg) == EngineFits(cfg) /\ ReaderAccepts(cfg)

-----------------------------------------------------------------------------
(* Two's complement.                                                        *)
Wrap(v) == ((v + Longest + 1) % (2 * (Longest + 1))) - (Longest + 1)

(* The delays of the loop of backoff, as long as none ends it.              *)
Doublings(base, attempt) ==
  LET delay[i \in 0..attempt] == IF i = 0 THEN base ELSE Wrap(2 * delay[i - 1])
  IN  delay

(* backoff: the base is doubled attempt times, and the first double that    *)
(* reaches the maximum ends the loop with it.                               *)
Backoff(attempt, base, max) ==
  LET delay == Doublings(base, attempt)
  IN  IF base <= 0 THEN 0
      ELSE IF attempt <= 0 THEN (IF max > 0 THEN AtMost(base, max) ELSE base)
      ELSE IF max > 0 /\ \E i \in 1..attempt : delay[i] >= max THEN max
      ELSE delay[attempt]
=============================================================================
