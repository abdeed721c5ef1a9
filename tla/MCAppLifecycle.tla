--------------------------- MODULE MCAppLifecycle ---------------------------
(* Environments for TLC: a sane one, what becomes of it when one variable   *)
(* is anything else, pairs that only meet in normalizeConfig, windows about *)
(* the longest that fits in memory, and offsets with and without a reader.  *)
EXTENDS AppLifecycle

Blank == [form |-> "blank", value |-> 0]
Garbage == [form |-> "garbage", value |-> 7]
Value(v) == [form |-> "value", value |-> v]

Sane == [key \in Keys |->
           IF key \in {"HTTP_ADMIN_TOKEN", "STORAGE_STOPLIST_POSTGRES_DSN"}
             THEN Value(1) ELSE Blank]

OneOff == {[Sane EXCEPT ![key] = v] :
             key \in Keys, v \in {Blank, Garbage, Value(-1), Value(0), Value(1), Value(Longest)}}

Backoffs == {[Sane EXCEPT !["KAFKA_RETRY_BACKOFF"] = Value(base),
                          !["KAFKA_RETRY_BACKOFF_MAX"] = Value(max)] :
               base \in {-1, 0, 3, Longest}, max \in {0, 2, 50, Longest \div 2, Longest}}

Fetches == {[Sane EXCEPT !["KAFKA_MIN_BYTES"] = Value(min), !["KAFKA_MAX_BYTES"] = Value(max)] :
              min \in {0, 5, 2000}, max \in {0, 1, 2000}}

Windows == {[Sane EXCEPT !["TOP_WINDOW_SECONDS"] = Value(seconds)] :
              seconds \in (MaxBuckets - 1)..(MaxBuckets + 1)}

Offsets == {[Sane EXCEPT !["KAFKA_START_OFFSET"] = Value(offset), !["KAFKA_ENABLED"] = Value(on)] :
              offset \in {-3, -2, -1, 1}, on \in {0, 1}}

MCEnvs == OneOff \cup Backoffs \cup Fetches \cup Windows \cup Offsets
=============================================================================
