---------------------------- MODULE AppLifecycle ----------------------------
(* The life of the process: main of cmd/trends-service, Service.Run of      *)
(* internal/app with its two goroutines, and the container's restart policy *)
(* (unless-stopped), which starts it again whatever it ended with.          *)
(*                                                                          *)
(* main boots step by step; log.Fatal ends it with 1, and a constructor     *)
(* that panics on its settings ends it with 2, at every start again.  Run   *)
(* starts the HTTP server and the consumer, each of which sends the error   *)
(* it ends with to a channel, and selects on the channel and the root       *)
(* context.  What the consumer does meanwhile is KafkaIngest.               *)
EXTENDS Sequences, Settings

CONSTANTS
  MaxRequests,  \* bound: HTTP requests in progress
  MaxFaults,    \* bound: failures, kills and signals
  MaxAttempts   \* bound: attempts the back-off is checked for

ASSUME LifecycleAssumption == {MaxRequests, MaxFaults, MaxAttempts} \subseteq Nat

VARIABLES
  env,       \* the environment of the container, which never changes
  main,      \* what the main goroutine does next
  code,      \* what the process ended with
  ctxDone,   \* the root context is cancelled
  store,     \* the pool of database connections
  server,    \* the goroutine of the HTTP server
  consumer,  \* the goroutine of the consumer
  errCh,     \* who has sent an error
  inFlight,  \* HTTP requests in progress
  timedOut,  \* Shutdown gave up waiting for them
  failed,    \* history variable: something failed in this process
  faults     \* failures, kills and signals so far

goroutines == <<server, consumer, errCh>>
vars == <<env, main, code, ctxDone, store, server, consumer, errCh, inFlight,
          timedOut, failed, faults>>

-----------------------------------------------------------------------------
(* The definitions called Bug... are mistakes the properties are meant to   *)
(* catch; nothing here uses them.                                           *)
BugErrChCapacity == 1

(* The slots of errCh.                                                      *)
ErrChCapacity == 2

Booting == {"open", "engine", "list", "schema", "sync", "reader", "run"}
Codes == {"none", "0", "1", "2", "killed"}
Goroutine == {"off", "starting", "working", "sending", "done"}

Config == FromEnv(env)

Init ==
  /\ env \in Envs
  /\ main = "config" /\ code = "none" /\ ctxDone = FALSE /\ store = "none"
  /\ server = "off" /\ consumer = "off" /\ errCh = <<>>
  /\ inFlight = 0 /\ timedOut = FALSE /\ failed = FALSE
  /\ faults = 0

(* The process ends: its goroutines stay as they are and do no more, and no *)
(* deferred call runs.                                                      *)
Exits(status) ==
  /\ main' = "exited" /\ code' = status
  /\ UNCHANGED <<env, ctxDone, store, goroutines, inFlight, timedOut>>

(* A panic of main ends the process too, after the deferred close.          *)
Panics ==
  /\ main' = "exited" /\ code' = "2" /\ store' = "closed"
  /\ UNCHANGED <<env, ctxDone, goroutines, inFlight, timedOut>>
Alive == main # "exited"
Faulty == faults < MaxFaults /\ faults' = faults + 1

-----------------------------------------------------------------------------
Configure ==
  /\ main = "config" /\ Validates(Config)
  /\ main' = "open"
  /\ UNCHANGED <<env, code, ctxDone, store, goroutines, inFlight, timedOut, failed, faults>>

Misconfigured ==
  /\ main = "config" /\ ~Validates(Config)
  /\ Exits("1")
  /\ UNCHANGED <<failed, faults>>

(* One step of the boot; those that ask the database do it with rootCtx.    *)
Advance(from, to) ==
  /\ main = from /\ main' = to
  /\ UNCHANGED <<env, code, ctxDone, goroutines, inFlight, timedOut, failed, faults>>

OpenStore == Advance("open", "engine") /\ ~ctxDone /\ store' = "open"
MakeEngine == Advance("engine", "list") /\ EngineFits(Config) /\ UNCHANGED store
ListWords == Advance("list", "schema") /\ ~ctxDone /\ UNCHANGED store
LoadSchema == Advance("schema", "sync") /\ UNCHANGED store
Sync == Advance("sync", "reader") /\ ~ctxDone /\ UNCHANGED store
MakeConsumer == Advance("reader", "run") /\ ReaderAccepts(Config) /\ UNCHANGED store

(* No length of a slice, or no memory for its buckets: then the runtime     *)
(* ends the process, or the kernel does.                                    *)
EngineFails ==
  /\ main = "engine" /\ ~EngineFits(Config)
  /\ Panics \/ Exits("2") \/ Exits("killed")
  /\ UNCHANGED <<failed, faults>>

ReaderPanics ==
  /\ main = "reader" /\ ~ReaderAccepts(Config)
  /\ Panics
  /\ UNCHANGED <<failed, faults>>

BootFails ==
  /\ main \in {"open", "list", "schema", "sync"}
  /\ Exits("1")
  /\ failed' = TRUE /\ Faulty

BootCancelled ==
  /\ main \in {"open", "list", "sync"} /\ ctxDone
  /\ Exits("1")
  /\ UNCHANGED <<failed, faults>>

(* Run starts both goroutines.                                              *)
Run ==
  /\ main = "run" /\ main' = "select"
  /\ server' = "starting" /\ consumer' = "working"
  /\ UNCHANGED <<env, code, ctxDone, store, errCh, inFlight, timedOut, failed, faults>>

-----------------------------------------------------------------------------
(* The goroutine of the server.                                             *)
Listen ==
  /\ main = "select" /\ server = "starting"
  /\ server' = "working"
  /\ UNCHANGED <<env, main, code, ctxDone, store, consumer, errCh, inFlight, timedOut,
                 failed, faults>>

(* The address is taken, or accepting a connection fails for good.          *)
ServerFails ==
  /\ main = "select" /\ server \in {"starting", "working"}
  /\ server' = "sending" /\ failed' = TRUE /\ Faulty
  /\ UNCHANGED <<env, main, code, ctxDone, store, consumer, errCh, inFlight, timedOut>>

(* ListenAndServe returns ErrServerClosed once Shutdown is called.          *)
ServerCloses ==
  /\ main \in {"shutdown", "close", "return"} /\ server \in {"starting", "working"}
  /\ server' = "done"
  /\ UNCHANGED <<env, main, code, ctxDone, store, consumer, errCh, inFlight, timedOut,
                 failed, faults>>

ServerSends ==
  /\ Alive /\ server = "sending" /\ Len(errCh) < ErrChCapacity
  /\ server' = "done" /\ errCh' = Append(errCh, "server")
  /\ UNCHANGED <<env, main, code, ctxDone, store, consumer, inFlight, timedOut, failed, faults>>

(* The goroutine of the consumer; a disabled one only waits for the context.*)
BugConsumerFails ==
  /\ Alive /\ consumer = "working" /\ Config.Enabled
  /\ consumer' = "done" /\ failed' = TRUE /\ Faulty
  /\ UNCHANGED <<env, main, code, ctxDone, store, server, errCh, inFlight, timedOut>>

(* A fetch, a handler or a commit fails for good.                           *)
ConsumerFails ==
  /\ Alive /\ consumer = "working" /\ Config.Enabled
  /\ consumer' = "sending" /\ failed' = TRUE /\ Faulty
  /\ UNCHANGED <<env, main, code, ctxDone, store, server, errCh, inFlight, timedOut>>

(* It returns context.Canceled, which nobody is told.                       *)
ConsumerCancelled ==
  /\ Alive /\ consumer = "working" /\ ctxDone
  /\ consumer' = "done"
  /\ UNCHANGED <<env, main, code, ctxDone, store, server, errCh, inFlight, timedOut,
                 failed, faults>>

ConsumerSends ==
  /\ Alive /\ consumer = "sending" /\ Len(errCh) < ErrChCapacity
  /\ consumer' = "done" /\ errCh' = Append(errCh, "consumer")
  /\ UNCHANGED <<env, main, code, ctxDone, store, server, inFlight, timedOut, failed, faults>>

-----------------------------------------------------------------------------
(* The select of Run: of two ready cases either may be taken.               *)
BugSelectError ==
  /\ main = "select" /\ errCh # <<>>
  /\ Exits("0")
  /\ UNCHANGED <<failed, faults>>

SelectError ==
  /\ main = "select" /\ errCh # <<>>
  /\ Exits("1")
  /\ UNCHANGED <<failed, faults>>

SelectDone ==
  /\ main = "select" /\ ctxDone
  /\ main' = "shutdown"
  /\ UNCHANGED <<env, code, ctxDone, store, goroutines, inFlight, timedOut, failed, faults>>

BugShutdown ==
  /\ main = "shutdown" /\ main' = "close"
  /\ UNCHANGED <<env, code, ctxDone, store, goroutines, inFlight, timedOut, failed, faults>>

(* Shutdown takes no more requests and waits for those in progress.         *)
Shutdown ==
  /\ main = "shutdown" /\ inFlight = 0
  /\ main' = "close"
  /\ UNCHANGED <<env, code, ctxDone, store, goroutines, inFlight, timedOut, failed, faults>>

ShutdownTimesOut ==
  /\ main = "shutdown" /\ inFlight > 0
  /\ main' = "close" /\ timedOut' = TRUE
  /\ UNCHANGED <<env, code, ctxDone, store, goroutines, inFlight, failed, faults>>

(* main returns: its deferred call closes the store.                        *)
CloseStore ==
  /\ main = "close" /\ main' = "return"
  /\ store' = "closed"
  /\ UNCHANGED <<env, code, ctxDone, goroutines, inFlight, timedOut, failed, faults>>

Return ==
  /\ main = "return"
  /\ Exits("0")
  /\ UNCHANGED <<failed, faults>>

-----------------------------------------------------------------------------
BeginRequest ==
  /\ main = "select" /\ server = "working" /\ inFlight < MaxRequests
  /\ inFlight' = inFlight + 1
  /\ UNCHANGED <<env, main, code, ctxDone, store, goroutines, timedOut, failed, faults>>

EndRequest ==
  /\ Alive /\ inFlight > 0
  /\ inFlight' = inFlight - 1
  /\ UNCHANGED <<env, main, code, ctxDone, store, goroutines, timedOut, failed, faults>>

(* SIGINT or SIGTERM.  Before NotifyContext it kills; a second one does     *)
(* nothing.                                                                 *)
Signal ==
  /\ Alive /\ main # "config"
  /\ ctxDone' = TRUE /\ Faulty
  /\ UNCHANGED <<env, main, code, store, goroutines, inFlight, timedOut, failed>>

SignalUnheard ==
  /\ main = "config"
  /\ Exits("killed")
  /\ Faulty /\ UNCHANGED failed

(* SIGKILL, or a panic outside of the HTTP handlers.                        *)
Kill ==
  /\ Alive
  /\ Exits("killed")
  /\ failed' = TRUE /\ Faulty

Restart ==
  /\ ~Alive
  /\ main' = "config" /\ code' = "none" /\ ctxDone' = FALSE /\ store' = "none"
  /\ server' = "off" /\ consumer' = "off" /\ errCh' = <<>>
  /\ inFlight' = 0 /\ timedOut' = FALSE /\ failed' = FALSE
  /\ UNCHANGED <<env, faults>>

-----------------------------------------------------------------------------
(* The steps of each goroutine that it takes without being made to fail.    *)
MainStep ==
  \/ Configure \/ Misconfigured
  \/ OpenStore \/ MakeEngine \/ ListWords \/ LoadSchema \/ Sync \/ MakeConsumer
  \/ EngineFails \/ ReaderPanics \/ BootCancelled
  \/ Run \/ SelectError \/ SelectDone
  \/ Shutdown \/ ShutdownTimesOut \/ CloseStore \/ Return
ServerStep == Listen \/ ServerCloses \/ ServerSends
ConsumerStep == ConsumerCancelled \/ ConsumerSends

Next ==
  \/ MainStep \/ BootFails
  \/ ServerStep \/ ServerFails
  \/ ConsumerStep \/ ConsumerFails
  \/ BeginRequest \/ EndRequest
  \/ Signal \/ SignalUnheard \/ Kill
  \/ Restart

(* Each goroutine runs, and the container is restarted.  No request is      *)
(* assumed to end.                                                          *)
Fairness ==
  /\ WF_vars(MainStep) /\ WF_vars(ServerStep) /\ WF_vars(ConsumerStep)
  /\ WF_vars(Restart)

Spec == Init /\ [][Next]_vars /\ Fairness

-----------------------------------------------------------------------------
(* The slot of a goroutine that may yet fail or send.                       *)
Claim(g) == IF g \in {"starting", "working", "sending"} THEN 1 ELSE 0

(* Type correctness; and nobody ever waits for a slot of errCh, not even    *)
(* when both goroutines fail and Run has left its select: each goroutine    *)
(* that may still fail or send has a slot free.                             *)
TypeOK ==
  /\ env \in Envs
  /\ main \in Booting \cup {"config", "select", "shutdown", "close", "return", "exited"}
  /\ code \in Codes
  /\ ctxDone \in BOOLEAN /\ timedOut \in BOOLEAN /\ failed \in BOOLEAN
  /\ store \in {"none", "open", "closed"}
  /\ server \in Goroutine /\ consumer \in Goroutine \ {"starting"}
  /\ errCh \in Seq({"server", "consumer"})
  /\ Len(errCh) + Claim(server) + Claim(consumer) <= ErrChCapacity
  /\ inFlight \in 0..MaxRequests
  /\ faults \in 0..MaxFaults

(* Whatever stands in the environment, a process that comes to Run has a    *)
(* window that fits in memory, an offset its reader takes if it consumes,   *)
(* limits, retries and periods that make sense, and strings where one is    *)
(* needed: Validate looks at no number, so every constructor must replace   *)
(* the ones that make no sense, or not return.  The back-off of the         *)
(* consumer lasts at least one unit and at most its maximum, and does not   *)
(* shrink from one attempt to the next, as long as twice the maximum is a   *)
(* duration.  (How large a fetch the brokers allow, and whether an address  *)
(* or a path leads anywhere, is not asked: those are failures of the boot   *)
(* or of a goroutine.)                                                      *)
SettingsUsable ==
  LET c == Constructed(Config)
      Delay(attempt) == Backoff(attempt, c.RetryBackoff, c.RetryBackoffMax)
  IN  main \in {"run", "select"} =>
        /\ c.WindowSeconds <= MaxBuckets
        /\ c.Enabled => c.StartOffset \in {-2, -1}
        /\ \A n \in {c.MinBytes, c.MaxWait, c.WindowSeconds, c.DedupTTL, c.MaxRequests,
                     c.IPBlock, c.ContributionWindow, c.MaxUnique, c.EntropyWindow,
                     c.SessionBlock, c.CommitRetryBackoff} : n > 0
        /\ c.Brokers > 0 /\ c.Topic # 0 /\ c.GroupID # 0 /\ c.AdminToken # 0
        /\ c.MinBytes <= c.MaxBytes
        /\ c.MaxProcessingRetries >= 0 /\ c.CommitRetries >= 0
        /\ \A attempt \in 0..MaxAttempts :
             /\ Delay(attempt) <= c.RetryBackoffMax
             /\ 2 * c.RetryBackoffMax <= Longest =>
                  Delay(attempt) > 0 /\ Delay(attempt) <= Delay(attempt + 1)

(* A request in progress has the store it asks, unless Shutdown gave up on  *)
(* it, and an orderly exit cuts none short otherwise: main closes the store *)
(* after Run, and Run returns after Shutdown.                               *)
SafeShutdown ==
  /\ inFlight > 0 /\ store # "open" => timedOut
  /\ inFlight > 0 /\ code = "0" => timedOut

(* What the exit code tells: 0 that somebody asked the process to stop, 1   *)
(* that something failed, or that the environment was not valid, or that it *)
(* was asked to stop before it served, and 2 that a constructor cannot do   *)
(* with the environment, so that the next start ends the same.  (A failure  *)
(* may be told by 0, as the select may take the signal before the error.)   *)
ExitCodeTells ==
  /\ code = "0" => ctxDone
  /\ code = "1" => failed \/ ~Validates(Config) \/ (ctxDone /\ server = "off")
  /\ code = "2" => ~Constructible(Config)

(* With an environment that names what it must, and that the constructors   *)
(* can do with, the service comes back after whatever happened to it: it    *)
(* serves, and consumes unless it is told not to.  So no failure of a       *)
(* goroutine goes unnoticed, and a process asked to stop does, whatever its *)
(* requests do.                                                             *)
RecoversToServing ==
  Validates(Config) /\ Constructible(Config) =>
    <>[](main = "select" /\ server = "working" /\ consumer = "working")
=============================================================================
