------------------------- MODULE AppLifecycle_proofs -------------------------
(* The life of a process: type correctness and a free slot for every error, *)
(* the orderly shutdown, what the exit code tells, and that the settings    *)
(* are usable, for every set of environments, any number of requests and    *)
(* faults, and durations of any length.                                     *)
EXTENDS AppLifecycle, NaturalsInduction, WellFoundedInduction, TLAPS

-----------------------------------------------------------------------------
(* Before Run nothing is started and nobody is served.                      *)
NotStarted ==
  main \in Booting \cup {"config"} =>
    /\ server = "off" /\ consumer = "off" /\ errCh = <<>>
    /\ inFlight = 0 /\ timedOut = FALSE

(* The store is open from its opening to the deferred close.                *)
StoreOpen ==
  main \in {"engine", "list", "schema", "sync", "reader", "run", "select", "shutdown", "close"} =>
    store = "open"

(* After the select only a cancelled context, and requests cut short only   *)
(* by the timeout.                                                          *)
Stopping ==
  /\ main \in {"shutdown", "close", "return"} => ctxDone
  /\ main \in {"close", "return"} => inFlight = 0 \/ timedOut

(* Whoever sends an error or has sent one failed.                           *)
SentIsFailed == server = "sending" \/ consumer = "sending" \/ errCh # <<>> => failed

Living == Alive => code = "none"

Shape == NotStarted /\ StoreOpen /\ Stopping /\ SentIsFailed /\ Living
IInv == TypeOK /\ Shape /\ SafeShutdown /\ ExitCodeTells

-----------------------------------------------------------------------------
LEMMA InitHolds == Init => IInv
<1> SUFFICES ASSUME Init PROVE IInv
    OBVIOUS
<1>1. Len(errCh) = 0
  BY DEF Init
<1>2. TypeOK
  <2>1. errCh \in Seq({"server", "consumer"})
    BY DEF Init
  <2>2. inFlight \in 0..MaxRequests /\ faults \in 0..MaxFaults
    BY LifecycleAssumption DEF Init
  <2>3. Claim(server) = 0 /\ Claim(consumer) = 0
    BY DEF Init, Claim
  <2>4. Len(errCh) + Claim(server) + Claim(consumer) <= ErrChCapacity
    BY <1>1, <2>3 DEF ErrChCapacity
  <2> QED BY <2>1, <2>2, <2>4 DEF Init, TypeOK, Codes, Goroutine
<1>3. Shape
  BY DEF Init, Shape, NotStarted, StoreOpen, Stopping, SentIsFailed, Living, Booting, Alive
<1>4. SafeShutdown /\ ExitCodeTells
  BY DEF Init, SafeShutdown, ExitCodeTells
<1> QED BY <1>2, <1>3, <1>4 DEF IInv

(* What every step does to the claims on errCh: nobody takes a new slot but *)
(* the two goroutines when Run starts them.                                 *)
LEMMA ClaimsKept ==
  ASSUME TypeOK, Shape, Next
  PROVE  /\ errCh' \in Seq({"server", "consumer"})
         /\ Len(errCh') + Claim(server') + Claim(consumer') <= ErrChCapacity
<1> USE DEF ErrChCapacity
<1>0. /\ \A g : Claim(g) \in {0, 1}
      /\ Claim("off") = 0 /\ Claim("done") = 0
      /\ Claim("starting") = 1 /\ Claim("working") = 1 /\ Claim("sending") = 1
  BY DEF Claim
<1>1. /\ errCh \in Seq({"server", "consumer"}) /\ Len(errCh) \in Nat
      /\ Len(errCh) + Claim(server) + Claim(consumer) <= 2
  <2>1. errCh \in Seq({"server", "consumer"})
    BY DEF TypeOK
  <2>2. Len(errCh) \in Nat
    BY <2>1
  <2>3. Len(errCh) + Claim(server) + Claim(consumer) <= 2
    BY DEF TypeOK
  <2> QED BY <2>1, <2>2, <2>3
<1>2. CASE UNCHANGED goroutines
  BY <1>1, <1>2 DEF goroutines
<1>3. CASE Run
  <2>1. errCh = <<>> /\ errCh' = errCh /\ server' = "starting" /\ consumer' = "working"
    BY <1>3 DEF Run, Shape, NotStarted, Booting
  <2> QED BY <1>0, <1>1, <2>1
<1>4. CASE Listen \/ ServerFails \/ ServerCloses
  <2>1. errCh' = errCh /\ consumer' = consumer /\ server \in {"starting", "working"}
    BY <1>4 DEF Listen, ServerFails, ServerCloses
  <2> QED BY <1>0, <1>1, <2>1
<1>5. CASE ConsumerFails \/ ConsumerCancelled
  <2>1. errCh' = errCh /\ server' = server /\ consumer = "working"
    BY <1>5 DEF ConsumerFails, ConsumerCancelled
  <2> QED BY <1>0, <1>1, <2>1
<1>6. CASE ServerSends
  <2>1. /\ errCh' = Append(errCh, "server") /\ consumer' = consumer
        /\ server = "sending" /\ server' = "done"
    BY <1>6 DEF ServerSends
  <2>2. Len(errCh') = Len(errCh) + 1 /\ errCh' \in Seq({"server", "consumer"})
    BY <1>1, <2>1
  <2> QED BY <1>0, <1>1, <2>1, <2>2
<1>7. CASE ConsumerSends
  <2>1. /\ errCh' = Append(errCh, "consumer") /\ server' = server
        /\ consumer = "sending" /\ consumer' = "done"
    BY <1>7 DEF ConsumerSends
  <2>2. Len(errCh') = Len(errCh) + 1 /\ errCh' \in Seq({"server", "consumer"})
    BY <1>1, <2>1
  <2> QED BY <1>0, <1>1, <2>1, <2>2
<1>8. CASE Restart
  <2>1. errCh' = <<>> /\ server' = "off" /\ consumer' = "off"
    BY <1>8 DEF Restart
  <2>2. Len(errCh') = 0 /\ errCh' \in Seq({"server", "consumer"})
    BY <2>1
  <2> QED BY <1>0, <2>1, <2>2
<1>9. \/ UNCHANGED goroutines
      \/ Run
      \/ Listen \/ ServerFails \/ ServerCloses
      \/ ConsumerFails \/ ConsumerCancelled
      \/ ServerSends \/ ConsumerSends \/ Restart
  BY Zenon DEF Next, MainStep, ServerStep, ConsumerStep, Configure, Misconfigured, OpenStore,
     MakeEngine, ListWords, LoadSchema, Sync, MakeConsumer, Advance, EngineFails, ReaderPanics,
     Panics, BootFails, BootCancelled, SelectError, SelectDone,
     Shutdown, ShutdownTimesOut, CloseStore, Return, BeginRequest, EndRequest, Signal,
     SignalUnheard, Kill, Exits
<1> QED BY <1>2, <1>3, <1>4, <1>5, <1>6, <1>7, <1>8, <1>9

LEMMA CountersKept ==
  ASSUME TypeOK, Next
  PROVE  inFlight' \in 0..MaxRequests /\ faults' \in 0..MaxFaults
<1>1. inFlight \in 0..MaxRequests /\ faults \in 0..MaxFaults
  BY DEF TypeOK
<1>2. inFlight' = inFlight \/ inFlight' = 0 \/ BeginRequest \/ EndRequest
  BY Zenon DEF Next, MainStep, ServerStep, ConsumerStep, Configure, Misconfigured, OpenStore,
     MakeEngine, ListWords, LoadSchema, Sync, MakeConsumer, Advance, EngineFails, ReaderPanics,
     Panics, BootFails, BootCancelled, Run, SelectError,
     SelectDone, Shutdown, ShutdownTimesOut, CloseStore, Return, Listen, ServerFails,
     ServerCloses, ServerSends, ConsumerFails, ConsumerCancelled, ConsumerSends, Signal,
     SignalUnheard, Kill, Exits, Restart
<1>3. faults' = faults \/ Faulty
  BY Zenon DEF Next, MainStep, ServerStep, ConsumerStep, Configure, Misconfigured, OpenStore,
     MakeEngine, ListWords, LoadSchema, Sync, MakeConsumer, Advance, EngineFails, ReaderPanics,
     Panics, BootFails, BootCancelled, Run, SelectError,
     SelectDone, Shutdown, ShutdownTimesOut, CloseStore, Return, Listen, ServerFails,
     ServerCloses, ServerSends, ConsumerFails, ConsumerCancelled, ConsumerSends, Signal,
     SignalUnheard, Kill, Restart, BeginRequest, EndRequest
<1>4. inFlight' \in 0..MaxRequests
  BY <1>1, <1>2, LifecycleAssumption DEF BeginRequest, EndRequest
<1>5. faults' \in 0..MaxFaults
  BY <1>1, <1>3, LifecycleAssumption DEF Faulty
<1> QED BY <1>4, <1>5

LEMMA TypeKept ==
  ASSUME TypeOK, Shape, Next
  PROVE  TypeOK'
<1>1. env' = env
  BY Zenon DEF Next, MainStep, ServerStep, ConsumerStep, Configure, Misconfigured, OpenStore,
     MakeEngine, ListWords, LoadSchema, Sync, MakeConsumer, Advance, EngineFails, ReaderPanics,
     Panics, BootFails, BootCancelled, Run, SelectError,
     SelectDone, Shutdown, ShutdownTimesOut, CloseStore, Return, Listen, ServerFails,
     ServerCloses, ServerSends, ConsumerFails, ConsumerCancelled, ConsumerSends,
     BeginRequest, EndRequest, Signal, SignalUnheard, Kill, Exits, Restart
<1>2. /\ main' \in Booting \cup {"config", "select", "shutdown", "close", "return", "exited"}
      /\ code' \in Codes
  BY DEF TypeOK, Booting, Codes, Next, MainStep, ServerStep, ConsumerStep, Configure, Misconfigured, OpenStore,
     MakeEngine, ListWords, LoadSchema, Sync, MakeConsumer, Advance, EngineFails, ReaderPanics,
     Panics, BootFails, BootCancelled, Run, SelectError,
     SelectDone, Shutdown, ShutdownTimesOut, CloseStore, Return, Listen, ServerFails,
     ServerCloses, ServerSends, ConsumerFails, ConsumerCancelled, ConsumerSends,
     BeginRequest, EndRequest, Signal, SignalUnheard, Kill, Exits, Restart
<1>3. ctxDone' \in BOOLEAN /\ timedOut' \in BOOLEAN /\ failed' \in BOOLEAN
  BY DEF TypeOK, goroutines, Next, MainStep, ServerStep, ConsumerStep, Configure, Misconfigured, OpenStore,
     MakeEngine, ListWords, LoadSchema, Sync, MakeConsumer, Advance, EngineFails, ReaderPanics,
     Panics, BootFails, BootCancelled, Run, SelectError,
     SelectDone, Shutdown, ShutdownTimesOut, CloseStore, Return, Listen, ServerFails,
     ServerCloses, ServerSends, ConsumerFails, ConsumerCancelled, ConsumerSends,
     BeginRequest, EndRequest, Signal, SignalUnheard, Kill, Exits, Restart
<1>4. store' \in {"none", "open", "closed"}
  BY DEF TypeOK, Next, MainStep, ServerStep, ConsumerStep, Configure, Misconfigured, OpenStore,
     MakeEngine, ListWords, LoadSchema, Sync, MakeConsumer, Advance, EngineFails, ReaderPanics,
     Panics, BootFails, BootCancelled, Run, SelectError,
     SelectDone, Shutdown, ShutdownTimesOut, CloseStore, Return, Listen, ServerFails,
     ServerCloses, ServerSends, ConsumerFails, ConsumerCancelled, ConsumerSends,
     BeginRequest, EndRequest, Signal, SignalUnheard, Kill, Exits, Restart
<1>5. server' \in Goroutine /\ consumer' \in Goroutine \ {"starting"}
  BY DEF TypeOK, Goroutine, goroutines, Next, MainStep, ServerStep, ConsumerStep, Configure, Misconfigured, OpenStore,
     MakeEngine, ListWords, LoadSchema, Sync, MakeConsumer, Advance, EngineFails, ReaderPanics,
     Panics, BootFails, BootCancelled, Run, SelectError,
     SelectDone, Shutdown, ShutdownTimesOut, CloseStore, Return, Listen, ServerFails,
     ServerCloses, ServerSends, ConsumerFails, ConsumerCancelled, ConsumerSends,
     BeginRequest, EndRequest, Signal, SignalUnheard, Kill, Exits, Restart
<1> QED BY <1>1, <1>2, <1>3, <1>4, <1>5, ClaimsKept, CountersKept DEF TypeOK

LEMMA ShapeKept ==
  ASSUME TypeOK, Shape, Next
  PROVE  Shape'
<1> USE DEF Shape, Booting, Alive, goroutines
<1>1. NotStarted'
  BY DEF NotStarted, Next, MainStep, ServerStep, ConsumerStep, Configure, Misconfigured, OpenStore,
     MakeEngine, ListWords, LoadSchema, Sync, MakeConsumer, Advance, EngineFails, ReaderPanics,
     Panics, BootFails, BootCancelled, Run, SelectError,
     SelectDone, Shutdown, ShutdownTimesOut, CloseStore, Return, Listen, ServerFails,
     ServerCloses, ServerSends, ConsumerFails, ConsumerCancelled, ConsumerSends,
     BeginRequest, EndRequest, Signal, SignalUnheard, Kill, Exits, Restart
<1>2. StoreOpen'
  BY DEF StoreOpen, Next, MainStep, ServerStep, ConsumerStep, Configure, Misconfigured, OpenStore,
     MakeEngine, ListWords, LoadSchema, Sync, MakeConsumer, Advance, EngineFails, ReaderPanics,
     Panics, BootFails, BootCancelled, Run, SelectError,
     SelectDone, Shutdown, ShutdownTimesOut, CloseStore, Return, Listen, ServerFails,
     ServerCloses, ServerSends, ConsumerFails, ConsumerCancelled, ConsumerSends,
     BeginRequest, EndRequest, Signal, SignalUnheard, Kill, Exits, Restart
<1>3. Stopping'
  BY DEF TypeOK, Stopping, Next, MainStep, ServerStep, ConsumerStep, Configure, Misconfigured, OpenStore,
     MakeEngine, ListWords, LoadSchema, Sync, MakeConsumer, Advance, EngineFails, ReaderPanics,
     Panics, BootFails, BootCancelled, Run, SelectError,
     SelectDone, Shutdown, ShutdownTimesOut, CloseStore, Return, Listen, ServerFails,
     ServerCloses, ServerSends, ConsumerFails, ConsumerCancelled, ConsumerSends,
     BeginRequest, EndRequest, Signal, SignalUnheard, Kill, Exits, Restart
<1>4. SentIsFailed'
  BY DEF SentIsFailed, Next, MainStep, ServerStep, ConsumerStep, Configure, Misconfigured, OpenStore,
     MakeEngine, ListWords, LoadSchema, Sync, MakeConsumer, Advance, EngineFails, ReaderPanics,
     Panics, BootFails, BootCancelled, Run, SelectError,
     SelectDone, Shutdown, ShutdownTimesOut, CloseStore, Return, Listen, ServerFails,
     ServerCloses, ServerSends, ConsumerFails, ConsumerCancelled, ConsumerSends,
     BeginRequest, EndRequest, Signal, SignalUnheard, Kill, Exits, Restart
<1>5. Living'
  BY DEF Living, Next, MainStep, ServerStep, ConsumerStep, Configure, Misconfigured, OpenStore,
     MakeEngine, ListWords, LoadSchema, Sync, MakeConsumer, Advance, EngineFails, ReaderPanics,
     Panics, BootFails, BootCancelled, Run, SelectError,
     SelectDone, Shutdown, ShutdownTimesOut, CloseStore, Return, Listen, ServerFails,
     ServerCloses, ServerSends, ConsumerFails, ConsumerCancelled, ConsumerSends,
     BeginRequest, EndRequest, Signal, SignalUnheard, Kill, Exits, Restart
<1> QED BY <1>1, <1>2, <1>3, <1>4, <1>5

LEMMA ShutdownKept ==
  ASSUME IInv, Next
  PROVE  SafeShutdown'
BY DEF IInv, SafeShutdown, Shape, NotStarted, StoreOpen, Stopping, Living, TypeOK, Booting,
   Alive, goroutines, Next, MainStep, ServerStep, ConsumerStep, Configure, Misconfigured, OpenStore,
     MakeEngine, ListWords, LoadSchema, Sync, MakeConsumer, Advance, EngineFails, ReaderPanics,
     Panics, BootFails, BootCancelled, Run, SelectError,
     SelectDone, Shutdown, ShutdownTimesOut, CloseStore, Return, Listen, ServerFails,
     ServerCloses, ServerSends, ConsumerFails, ConsumerCancelled, ConsumerSends,
     BeginRequest, EndRequest, Signal, SignalUnheard, Kill, Exits, Restart

LEMMA CodeKept ==
  ASSUME IInv, Next
  PROVE  ExitCodeTells'
<1>1. /\ Validates(Config)' <=> Validates(Config)
      /\ Constructible(Config)' <=> Constructible(Config)
  <2>1. env' = env
    BY Zenon DEF Next, MainStep, ServerStep, ConsumerStep, Configure, Misconfigured, OpenStore,
     MakeEngine, ListWords, LoadSchema, Sync, MakeConsumer, Advance, EngineFails, ReaderPanics,
     Panics, BootFails, BootCancelled, Run, SelectError,
     SelectDone, Shutdown, ShutdownTimesOut, CloseStore, Return, Listen, ServerFails,
     ServerCloses, ServerSends, ConsumerFails, ConsumerCancelled, ConsumerSends, Signal,
     SignalUnheard, Kill, Exits, Restart, BeginRequest,
     EndRequest
  <2> QED BY <2>1 DEF Config
<1>2. /\ code' = "0" => ctxDone'
      /\ code' = "1" => failed' \/ ~Validates(Config) \/ (ctxDone' /\ server' = "off")
  BY DEF IInv, ExitCodeTells, Shape, NotStarted, StoreOpen, Stopping, SentIsFailed,
       Living, Booting, Alive, goroutines, Next, MainStep, ServerStep, ConsumerStep, Configure, Misconfigured, OpenStore,
     MakeEngine, ListWords, LoadSchema, Sync, MakeConsumer, Advance, EngineFails, ReaderPanics,
     Panics, BootFails, BootCancelled, Run, SelectError,
     SelectDone, Shutdown, ShutdownTimesOut, CloseStore, Return, Listen, ServerFails,
     ServerCloses, ServerSends, ConsumerFails, ConsumerCancelled, ConsumerSends,
     BeginRequest, EndRequest, Signal, SignalUnheard, Kill, Exits, Restart
<1>3. code' = "2" => ~Constructible(Config)
  <2>1. code' = code \/ code' # "2" \/ EngineFails \/ ReaderPanics
    BY DEF Next, MainStep, ServerStep, ConsumerStep, Configure, Misconfigured, OpenStore,
     MakeEngine, ListWords, LoadSchema, Sync, MakeConsumer, Advance, BootFails, BootCancelled,
     Run, SelectError, SelectDone, Shutdown, ShutdownTimesOut, CloseStore, Return, Listen,
     ServerFails, ServerCloses, ServerSends, ConsumerFails, ConsumerCancelled, ConsumerSends,
     BeginRequest, EndRequest, Signal, SignalUnheard, Kill, Exits, Restart
  <2>2. EngineFails \/ ReaderPanics => ~Constructible(Config)
    BY DEF EngineFails, ReaderPanics, Constructible
  <2>3. code = "2" => ~Constructible(Config)
    BY DEF IInv, ExitCodeTells
  <2> QED BY <2>1, <2>2, <2>3
<1> QED BY <1>1, <1>2, <1>3 DEF ExitCodeTells

LEMMA StepHolds == IInv /\ [Next]_vars => IInv'
<1> SUFFICES ASSUME IInv, [Next]_vars PROVE IInv'
    OBVIOUS
<1>1. CASE Next
  BY <1>1, TypeKept, ShapeKept, ShutdownKept, CodeKept DEF IInv
<1>2. CASE UNCHANGED vars
  BY <1>2 DEF IInv, TypeOK, Shape, NotStarted, StoreOpen, Stopping, SentIsFailed, Living,
     SafeShutdown, ExitCodeTells, Config, Alive, vars
<1> QED BY <1>1, <1>2

(* What follows holds in every reachable state.                             *)
THEOREM Invariance == Spec => []IInv
BY InitHolds, StepHolds, PTL DEF Spec

(* Type correctness: no goroutine ever waits for a slot of errCh.           *)
THEOREM TypeCorrect == Spec => []TypeOK
<1>1. IInv => TypeOK
  BY DEF IInv
<1> QED BY <1>1, Invariance, PTL

(* Requests keep the store they ask, and an orderly exit cuts none, but     *)
(* those that Shutdown gave up on.                                          *)
THEOREM ShutdownIsSafe == Spec => []SafeShutdown
<1>1. IInv => SafeShutdown
  BY DEF IInv
<1> QED BY <1>1, Invariance, PTL

(* The exit code tells whether the process was asked to stop, failed, or    *)
(* cannot do with its environment.                                          *)
THEOREM CodeTells == Spec => []ExitCodeTells
<1>1. IInv => ExitCodeTells
  BY DEF IInv
<1> QED BY <1>1, Invariance, PTL
-----------------------------------------------------------------------------
(* The back-off.                                                            *)
(* A set of natural numbers that is not empty has a least element.          *)
LEMMA Least ==
  ASSUME NEW S \in SUBSET Nat, S # {}
  PROVE  \E x \in S : \A y \in S : x <= y
<1>1. IsWellFoundedOn(OpToRel(<, Nat), Nat)
  BY NatLessThanWellFounded
<1>2. \E x \in S : \A y \in S : <<y, x>> \notin OpToRel(<, Nat)
  BY <1>1, WFMin
<1>3. \A x, y \in Nat : <<y, x>> \notin OpToRel(<, Nat) => ~(y < x)
  BY Zenon DEF OpToRel
<1>4. \A x, y \in Nat : ~(y < x) => x <= y
  BY SMT
<1> QED BY <1>2, <1>3, <1>4

(* The list of delays that Doublings defines.                               *)
IsDoublings(d, base, n) ==
  d = [i \in 0..n |-> IF i = 0 THEN base ELSE Wrap(2 * d[i - 1])]

(* There is one for every number of attempts: the first for which there     *)
(* were none would be one more than one for which there is.                 *)
LEMMA DoublingsExist ==
  ASSUME NEW base, NEW n \in Nat
  PROVE  \E d : IsDoublings(d, base, n)
<1> DEFINE S == {m \in Nat : ~\E d : IsDoublings(d, base, m)}
<1>1. SUFFICES ASSUME S # {} PROVE FALSE
  OBVIOUS
<1>2. PICK m \in S : \A y \in S : m <= y
  BY <1>1, Least
<1>3. m # 0
  <2>1. IsDoublings([i \in 0..0 |-> base], base, 0)
    BY DEF IsDoublings
  <2> QED BY <2>1
<1>4. m - 1 \in Nat /\ m - 1 \notin S
  BY <1>2, <1>3
<1>5. PICK d : IsDoublings(d, base, m - 1)
  BY <1>4
<1> DEFINE longer == [i \in 0..m |-> IF i = m THEN Wrap(2 * d[m - 1]) ELSE d[i]]
<1>6. IsDoublings(longer, base, m)
  <2>1. ASSUME NEW i \in 0..m
        PROVE  longer[i] = IF i = 0 THEN base ELSE Wrap(2 * longer[i - 1])
    <3>1. CASE i = m
      BY <1>3, <1>4, <3>1
    <3>2. CASE i # m
      <4>1. i \in 0..(m - 1) /\ longer[i] = d[i] /\ (i # 0 => i - 1 \in 0..m /\ i - 1 # m)
        BY <1>4, <3>2
      <4>2. d[i] = IF i = 0 THEN base ELSE Wrap(2 * d[i - 1])
        BY <1>5, <4>1 DEF IsDoublings
      <4>3. i # 0 => longer[i - 1] = d[i - 1]
        BY <4>1
      <4> QED BY <4>1, <4>2, <4>3
    <3> QED BY <3>1, <3>2
  <2> HIDE DEF longer
  <2>2. longer = [i \in 0..m |-> longer[i]]
    BY DEF longer
  <2> QED BY <2>1, <2>2 DEF IsDoublings
<1> QED BY <1>2, <1>6

LEMMA DoublingsSteps ==
  ASSUME NEW base, NEW n \in Nat
  PROVE  /\ Doublings(base, n)[0] = base
         /\ \A i \in 1..n : Doublings(base, n)[i] = Wrap(2 * Doublings(base, n)[i - 1])
<1>1. IsDoublings(Doublings(base, n), base, n)
  BY DoublingsExist DEF IsDoublings, Doublings
<1> HIDE DEF Doublings
<1> DEFINE d == Doublings(base, n)
<1>2. d = [i \in 0..n |-> IF i = 0 THEN base ELSE Wrap(2 * d[i - 1])]
  BY <1>1 DEF IsDoublings
<1>3. 0 \in 0..n /\ \A i \in 1..n : i \in 0..n /\ i # 0
  OBVIOUS
<1> HIDE DEF d
<1>4. \A i \in 0..n : d[i] = IF i = 0 THEN base ELSE Wrap(2 * d[i - 1])
  BY <1>2, Zenon
<1> QED BY <1>3, <1>4 DEF d

LEMMA DoublingsTyped ==
  ASSUME NEW base \in Int, NEW n \in Nat
  PROVE  \A i \in 0..n : Doublings(base, n)[i] \in Int
<1> DEFINE d == Doublings(base, n)
           S == {i \in 0..n : d[i] \notin Int}
<1>1. SUFFICES ASSUME S # {} PROVE FALSE
  OBVIOUS
<1>2. d[0] = base /\ \A i \in 1..n : d[i] = Wrap(2 * d[i - 1])
  BY DoublingsSteps
<1> HIDE DEF d
<1>3. PICK i \in S : \A j \in S : i <= j
  <2>1. S \in SUBSET Nat
    OBVIOUS
  <2> HIDE DEF S
  <2> QED BY <1>1, <2>1, Least
<1>4. i \in 1..n
  BY <1>2, <1>3
<1>5. d[i - 1] \in Int
  BY <1>3, <1>4
<1>6. \A v \in Int : Wrap(v) \in Int
  BY SettingsAssumption DEF Wrap
<1> QED BY <1>2, <1>3, <1>4, <1>5, <1>6

(* A double of what is at most half the longest duration does not overflow. *)
LEMMA NoOverflow ==
  ASSUME NEW v \in Nat, v <= Longest
  PROVE  Wrap(v) = v
<1>1. Longest \in Nat
  BY SettingsAssumption
<1> DEFINE m == 2 * (Longest + 1)
           x == v + Longest + 1
<1>2. m \in Nat \ {0} /\ x \in 0..(m - 1)
  BY <1>1
<1>3. \A a, b \in Int : a > 0 /\ b \in 0..(a - 1) => b % a = b
  BY SMT
<1>4. x % m = x
  BY <1>2, <1>3
<1> QED BY <1>1, <1>4 DEF Wrap

(* Until a delay reaches the maximum each is the double of the one before.  *)
LEMMA DelaysGrow ==
  ASSUME NEW base \in Nat, NEW max \in Nat, 1 <= base, base <= max, 2 * max <= Longest,
         NEW n \in Nat, \A i \in 1..n : ~(Doublings(base, n)[i] >= max)
  PROVE  \A i \in 0..n : Doublings(base, n)[i] \in 1..max
<1> DEFINE d == Doublings(base, n)
           S == {i \in 0..n : d[i] \notin 1..max}
<1>1. SUFFICES ASSUME S # {} PROVE FALSE
  OBVIOUS
<1>2. d[0] = base /\ \A i \in 1..n : d[i] = Wrap(2 * d[i - 1]) /\ ~(d[i] >= max)
  BY DoublingsSteps
<1> HIDE DEF d
<1>3. PICK i \in S : \A j \in S : i <= j
  <2>1. S \in SUBSET Nat
    OBVIOUS
  <2> HIDE DEF S
  <2> QED BY <1>1, <2>1, Least
<1>4. i \in 1..n
  BY <1>2, <1>3
<1>5. d[i - 1] \in 1..max
  BY <1>3, <1>4
<1>6. 2 * d[i - 1] \in Nat /\ 2 * d[i - 1] <= Longest
  BY <1>5, SettingsAssumption
<1>7. d[i] = 2 * d[i - 1]
  BY <1>2, <1>4, <1>6, NoOverflow
<1>8. d[i] \in 1..max
  BY <1>2, <1>4, <1>5, <1>7
<1> QED BY <1>3, <1>8

(* The list of delays for one attempt more begins with the list.            *)
LEMMA SameDoublings ==
  ASSUME NEW base, NEW n \in Nat
  PROVE  \A i \in 0..n : Doublings(base, n + 1)[i] = Doublings(base, n)[i]
<1> DEFINE d == Doublings(base, n)
           e == Doublings(base, n + 1)
           S == {i \in 0..n : e[i] # d[i]}
<1>1. SUFFICES ASSUME S # {} PROVE FALSE
  OBVIOUS
<1>2. /\ d[0] = base /\ \A i \in 1..n : d[i] = Wrap(2 * d[i - 1])
      /\ e[0] = base /\ \A i \in 1..n : e[i] = Wrap(2 * e[i - 1])
  <2>1. n + 1 \in Nat /\ \A i \in 1..n : i \in 1..(n + 1)
    OBVIOUS
  <2> QED BY <2>1, DoublingsSteps
<1> HIDE DEF d, e
<1>3. PICK i \in S : \A j \in S : i <= j
  <2>1. S \in SUBSET Nat
    OBVIOUS
  <2> HIDE DEF S
  <2> QED BY <1>1, <2>1, Least
<1>4. i \in 1..n
  BY <1>2, <1>3
<1>5. i - 1 \in 0..n /\ i - 1 \notin S
  BY <1>3, <1>4
<1> QED BY <1>2, <1>3, <1>4, <1>5

(* The back-off ends at its maximum, and, as long as twice the maximum is a *)
(* duration, lasts and does not shrink.                                     *)
LEMMA BackoffBounded ==
  ASSUME NEW base \in Nat, NEW max \in Nat, 1 <= base, base <= max, NEW n \in Nat
  PROVE  /\ Backoff(n, base, max) <= max
         /\ 2 * max <= Longest => /\ Backoff(n, base, max) > 0
                                  /\ Backoff(n, base, max) <= Backoff(n + 1, base, max)
<1> DEFINE Reaches(k) == \E i \in 1..k : Doublings(base, k)[i] >= max
<1>1. ASSUME NEW k \in Nat
      PROVE  Backoff(k, base, max) = IF k = 0 THEN base
                                     ELSE IF Reaches(k) THEN max ELSE Doublings(base, k)[k]
  BY <1>1 DEF Backoff, AtMost
<1>2. \A k \in Nat : \A i \in 0..k : Doublings(base, k)[i] \in Int
  BY DoublingsTyped
<1>3. Backoff(n, base, max) <= max
  BY <1>1, <1>2
<1>4. ASSUME 2 * max <= Longest
      PROVE  Backoff(n, base, max) > 0 /\ Backoff(n, base, max) <= Backoff(n + 1, base, max)
  <2> DEFINE d == Doublings(base, n)
             e == Doublings(base, n + 1)
  <2>1. /\ \A i \in 0..n : d[i] \in Int /\ e[i] = d[i]
        /\ e[n + 1] \in Int /\ e[n + 1] = Wrap(2 * e[n])
        /\ d[0] = base /\ n + 1 \in Nat /\ n + 1 # 0
    BY <1>2, SameDoublings, DoublingsSteps
  <2>2. Backoff(n + 1, base, max)
          = IF \E i \in 1..(n + 1) : e[i] >= max THEN max ELSE e[n + 1]
    BY <1>1, <2>1
  <2>3. Backoff(n, base, max)
          = IF n = 0 THEN base ELSE IF \E i \in 1..n : d[i] >= max THEN max ELSE d[n]
    BY <1>1
  <2>4. (\A i \in 1..n : ~(d[i] >= max)) => \A i \in 0..n : d[i] \in 1..max
    BY <1>4, DelaysGrow
  <2> HIDE DEF d, e
  <2>5. CASE \E i \in 1..n : d[i] >= max
    <3>1. n # 0 /\ \E i \in 1..(n + 1) : e[i] >= max
      BY <2>1, <2>5
    <3> QED BY <2>2, <2>3, <2>5, <3>1
  <2>6. CASE \A i \in 1..n : ~(d[i] >= max)
    <3>1. Backoff(n, base, max) = d[n] /\ d[n] \in 1..max
      BY <2>1, <2>3, <2>4, <2>6
    <3>2. e[n + 1] = 2 * d[n]
      <4>1. 2 * d[n] \in Nat /\ 2 * d[n] <= Longest
        BY <1>4, <3>1, SettingsAssumption
      <4> QED BY <2>1, <4>1, NoOverflow
    <3> QED BY <2>1, <2>2, <3>1, <3>2
  <2> QED BY <2>5, <2>6
<1> QED BY <1>3, <1>4

(* What the constructors make of an environment is usable, whatever stands  *)
(* in it, as long as Validate has looked at its two strings.                *)
LEMMA ConstructedUsable ==
  ASSUME env \in Envs, Validates(Config)
  PROVE  LET c == Constructed(Config)
         IN  /\ \A n \in {c.MinBytes, c.MaxWait, c.WindowSeconds, c.DedupTTL, c.MaxRequests,
                          c.IPBlock, c.ContributionWindow, c.MaxUnique, c.EntropyWindow,
                          c.SessionBlock, c.CommitRetryBackoff} : n > 0
             /\ c.Brokers > 0 /\ c.Topic # 0 /\ c.GroupID # 0 /\ c.AdminToken # 0
             /\ c.MinBytes <= c.MaxBytes /\ c.Enabled = Config.Enabled
             /\ c.MaxProcessingRetries >= 0 /\ c.CommitRetries >= 0
             /\ c.RetryBackoff \in Nat /\ c.RetryBackoffMax \in Nat
             /\ 1 <= c.RetryBackoff /\ c.RetryBackoff <= c.RetryBackoffMax
<1> DEFINE f == Config
           c == Constructed(f)
<1>1. \A key \in Keys : env[key].value \in Int
  BY SettingsAssumption DEF Variable
<1>2. \A key \in Keys, fallback \in Int : GetEnvNumber(env[key], fallback) \in Int
  BY <1>1 DEF GetEnvNumber
<1>3. 2^10 \in Int /\ 10 * 2^20 \in Int /\ 2^10 > 0 /\ 10 * 2^20 > 0
  BY SMT
<1>4. /\ f.MinBytes \in Int /\ f.MaxBytes \in Int /\ f.MaxWait \in Int
      /\ f.MaxProcessingRetries \in Int /\ f.CommitRetries \in Int
      /\ f.RetryBackoff \in Int /\ f.RetryBackoffMax \in Int /\ f.CommitRetryBackoff \in Int
      /\ f.WindowSeconds \in Int /\ f.DedupTTL \in Int /\ f.MaxRequests \in Int
      /\ f.IPBlock \in Int /\ f.ContributionWindow \in Int /\ f.MaxUnique \in Int
      /\ f.EntropyWindow \in Int /\ f.SessionBlock \in Int
  BY <1>2, <1>3 DEF Config, FromEnv, Keys
<1>5. f.Brokers \in Int /\ f.AdminToken # 0
  <2>1. GetEnvCSV(env["KAFKA_BROKERS"], 1) \in Int
    BY <1>1 DEF GetEnvCSV, Keys
  <2>2. f.Brokers = GetEnvCSV(env["KAFKA_BROKERS"], 1)
    BY DEF Config, FromEnv
  <2> QED BY <2>1, <2>2 DEF Validates
<1> DEFINE Fields == {"AdminToken", "StopListPostgresDSN", "Enabled", "Brokers", "Topic", "GroupID",
             "MinBytes", "MaxBytes", "MaxWait", "StartOffset", "MaxProcessingRetries",
             "RetryBackoff", "RetryBackoffMax", "CommitRetries", "CommitRetryBackoff",
             "WindowSeconds", "DedupTTL", "MaxRequests", "IPBlock", "ContributionWindow",
             "MaxUnique", "EntropyWindow", "SessionBlock"}
<1>6. DOMAIN f = Fields
  BY DEF Config, FromEnv
<1> HIDE DEF f
<1> DEFINE k == Normalized(f)
<1>7. /\ DOMAIN k = Fields
      /\ k.Brokers = Positive(f.Brokers, 1)
      /\ k.Topic = OrElse(f.Topic, 1) /\ k.GroupID = OrElse(f.GroupID, 1)
      /\ k.MinBytes = Positive(f.MinBytes, 2^10)
      /\ k.MaxBytes = AtLeast(Positive(f.MaxBytes, 10 * 2^20), k.MinBytes)
      /\ k.MaxWait = Positive(f.MaxWait, 5)
      /\ k.MaxProcessingRetries = NotNegative(f.MaxProcessingRetries)
      /\ k.RetryBackoffMax = Positive(f.RetryBackoffMax, 30)
      /\ k.RetryBackoff = AtMost(Positive(f.RetryBackoff, 1), k.RetryBackoffMax)
      /\ k.CommitRetries = NotNegative(f.CommitRetries)
      /\ k.CommitRetryBackoff = Positive(f.CommitRetryBackoff, 1)
      /\ \A x \in {"AdminToken", "Enabled", "WindowSeconds", "DedupTTL", "MaxRequests",
                   "IPBlock", "ContributionWindow", "MaxUnique", "EntropyWindow", "SessionBlock"} : k[x] = f[x]
  BY <1>6 DEF Normalized
<1> HIDE DEF k
<1>8. /\ c.WindowSeconds = Positive(k.WindowSeconds, 300)
       /\ c.DedupTTL = Positive(k.DedupTTL, 6000)
       /\ c.MaxRequests = Positive(k.MaxRequests, 1000)
       /\ c.IPBlock = Positive(k.IPBlock, 36000)
       /\ c.ContributionWindow = Positive(k.ContributionWindow, 36000)
       /\ c.MaxUnique = Positive(k.MaxUnique, 100)
       /\ c.EntropyWindow = Positive(k.EntropyWindow, 3000)
       /\ c.SessionBlock = Positive(k.SessionBlock, 36000)
       /\ \A x \in {"AdminToken", "Brokers", "Topic", "GroupID", "MinBytes", "MaxBytes", "MaxWait",
                    "MaxProcessingRetries", "RetryBackoff", "RetryBackoffMax", "Enabled",
                    "CommitRetries", "CommitRetryBackoff"} : c[x] = k[x]
  BY <1>7 DEF Constructed, k
<1>9. /\ c.MinBytes > 0 /\ c.MinBytes \in Int /\ c.MaxWait > 0 /\ c.CommitRetryBackoff > 0
       /\ c.WindowSeconds > 0 /\ c.DedupTTL > 0 /\ c.MaxRequests > 0 /\ c.IPBlock > 0
       /\ c.ContributionWindow > 0 /\ c.MaxUnique > 0 /\ c.EntropyWindow > 0
       /\ c.SessionBlock > 0 /\ c.Brokers > 0
  BY <1>3, <1>4, <1>5, <1>7, <1>8 DEF Positive
<1>10. c.Topic # 0 /\ c.GroupID # 0 /\ c.AdminToken # 0 /\ c.Enabled = f.Enabled
  BY <1>5, <1>7, <1>8 DEF OrElse
<1>11. /\ c.MinBytes <= c.MaxBytes
       /\ c.MaxProcessingRetries >= 0 /\ c.CommitRetries >= 0
  BY <1>3, <1>4, <1>7, <1>8 DEF Positive, AtLeast, NotNegative
<1>12. /\ c.RetryBackoff \in Nat /\ c.RetryBackoffMax \in Nat
       /\ 1 <= c.RetryBackoff /\ c.RetryBackoff <= c.RetryBackoffMax
  <2>1. c.RetryBackoffMax \in Int /\ c.RetryBackoffMax > 0
    BY <1>4, <1>7, <1>8 DEF Positive
  <2>2. Positive(f.RetryBackoff, 1) \in Int /\ Positive(f.RetryBackoff, 1) > 0
    BY <1>4 DEF Positive
  <2>3. c.RetryBackoff = AtMost(Positive(f.RetryBackoff, 1), c.RetryBackoffMax)
    BY <1>7, <1>8
  <2> QED BY <2>1, <2>2, <2>3 DEF AtMost
<1> QED BY <1>9, <1>10, <1>11, <1>12 DEF c, f

(* What the process has left behind on its way to Run, it has passed.       *)
Passed ==
  /\ main \in Booting \cup {"select"} => Validates(Config)
  /\ main \in {"list", "schema", "sync", "reader", "run", "select"} => EngineFits(Config)
  /\ main \in {"run", "select"} => ReaderAccepts(Config)

LEMMA PassedKept == Passed /\ [Next]_vars => Passed'
<1> SUFFICES ASSUME Passed, [Next]_vars PROVE Passed'
  OBVIOUS
<1> DEFINE Fits == {"list", "schema", "sync", "reader", "run", "select"}
           Takes == {"run", "select"}
<1>1. /\ env' = env
      /\ \/ main' \in Booting \cup {"select"} => main \in Booting \cup {"select"}
         \/ Configure
      /\ (main' \in Fits => main \in Fits) \/ MakeEngine
      /\ (main' \in Takes => main \in Takes) \/ MakeConsumer
  BY DEF Booting, goroutines, vars, Next, MainStep, ServerStep, ConsumerStep, Configure,
     Misconfigured, OpenStore, MakeEngine, ListWords, LoadSchema, Sync, MakeConsumer, Advance,
     EngineFails, ReaderPanics, Panics, BootFails, BootCancelled,
     Run, SelectError, SelectDone, Shutdown, ShutdownTimesOut, CloseStore, Return, Listen,
     ServerFails, ServerCloses, ServerSends, ConsumerFails, ConsumerCancelled, ConsumerSends,
     BeginRequest, EndRequest, Signal, SignalUnheard, Kill, Exits, Restart
<1>2. Config' = Config
  BY <1>1 DEF Config
<1>3. /\ Configure => Validates(Config)
      /\ MakeEngine => EngineFits(Config)
      /\ MakeConsumer => ReaderAccepts(Config)
  BY DEF Configure, MakeEngine, MakeConsumer
<1>4. /\ main \in Booting \cup {"select"} => Validates(Config)
      /\ main \in Fits => EngineFits(Config)
      /\ main \in Takes => ReaderAccepts(Config)
  BY DEF Passed
<1>5. /\ main' \in Booting \cup {"select"} => Validates(Config')
      /\ main' \in Fits => EngineFits(Config')
      /\ main' \in Takes => ReaderAccepts(Config')
  BY <1>1, <1>2, <1>3, <1>4, Zenon
<1> QED BY <1>5 DEF Passed, Booting, Validates, EngineFits, ReaderAccepts, Constructed, Normalized

(* Whatever stands in the environment, however long a duration may be and   *)
(* whatever memory has room for, a process that comes to Run has a window   *)
(* that fits, an offset its reader takes, and limits, periods and a back-   *)
(* off that make sense.                                                     *)
THEOREM SettingsFit == Spec => []SettingsUsable
<1>1. Init => Passed
  BY DEF Init, Passed, Booting
<1>2. Passed /\ IInv => SettingsUsable
  <2> SUFFICES ASSUME Passed, env \in Envs, main \in {"run", "select"}
               PROVE  SettingsUsable
    BY DEF IInv, TypeOK, SettingsUsable
  <2> DEFINE c == Constructed(Config)
  <2>1. /\ Validates(Config)
        /\ c.WindowSeconds <= MaxBuckets
        /\ c.Enabled => c.StartOffset \in {-2, -1}
    <3>1. Validates(Config) /\ EngineFits(Config) /\ ReaderAccepts(Config)
      BY DEF Passed, Booting
    <3>2. c.Enabled = Config.Enabled
      BY ConstructedUsable, <3>1
    <3> HIDE DEF c
    <3> QED BY <3>1, <3>2 DEF EngineFits, ReaderAccepts, c
  <2>2. ASSUME NEW attempt \in 0..MaxAttempts
        PROVE  LET Delay(n) == Backoff(n, c.RetryBackoff, c.RetryBackoffMax)
               IN  /\ Delay(attempt) <= c.RetryBackoffMax
                   /\ 2 * c.RetryBackoffMax <= Longest =>
                        Delay(attempt) > 0 /\ Delay(attempt) <= Delay(attempt + 1)
    <3>1. /\ c.RetryBackoff \in Nat /\ c.RetryBackoffMax \in Nat
          /\ 1 <= c.RetryBackoff /\ c.RetryBackoff <= c.RetryBackoffMax
      BY <2>1, ConstructedUsable
    <3>2. attempt \in Nat
      BY LifecycleAssumption
    <3> HIDE DEF c
    <3> QED BY <3>1, <3>2, BackoffBounded
  <2>3. SettingsUsable <=>
          /\ c.WindowSeconds <= MaxBuckets
          /\ c.Enabled => c.StartOffset \in {-2, -1}
          /\ \A n \in {c.MinBytes, c.MaxWait, c.WindowSeconds, c.DedupTTL, c.MaxRequests,
                       c.IPBlock, c.ContributionWindow, c.MaxUnique, c.EntropyWindow,
                       c.SessionBlock, c.CommitRetryBackoff} : n > 0
          /\ c.Brokers > 0 /\ c.Topic # 0 /\ c.GroupID # 0 /\ c.AdminToken # 0
          /\ c.MinBytes <= c.MaxBytes
          /\ c.MaxProcessingRetries >= 0 /\ c.CommitRetries >= 0
          /\ \A attempt \in 0..MaxAttempts :
               LET Delay(n) == Backoff(n, c.RetryBackoff, c.RetryBackoffMax)
               IN  /\ Delay(attempt) <= c.RetryBackoffMax
                   /\ 2 * c.RetryBackoffMax <= Longest =>
                        Delay(attempt) > 0 /\ Delay(attempt) <= Delay(attempt + 1)
    BY Zenon DEF SettingsUsable
  <2>4. env \in Envs /\ Validates(Config)
    BY <2>1
  <2> HIDE DEF c
  <2> QED BY <2>1, <2>2, <2>3, <2>4, ConstructedUsable DEF c
<1> QED BY <1>1, <1>2, PassedKept, Invariance, PTL DEF Spec
=============================================================================
