------------------------------ MODULE Service ------------------------------
(* The consumer's goroutine and the admin requests in one process: what the *)
(* handlers of internal/usecase/ingest do with a message while the stop     *)
(* words they filter with are changed, and the metrics they leave.          *)
(*                                                                          *)
(* The stop-list is StopListSync with its own steps.  Which message comes   *)
(* next is left open: any event, any number of times (KafkaIngest says in   *)
(* which order and how often).  So are the rules of AntiFraud but the       *)
(* contribution cap: they may refuse any event.  The window is the sequence *)
(* of the votes it was given (WindowEngine says what it answers).           *)
EXTENDS Integers, Sequences, FiniteSets, Functions, Collector

CONSTANTS
  Requests, Words, NoWord, Nobody, MaxVersion, MaxErrors, MaxCrashes,
  MaxFaults,          \* of StopListSync
  Events,             \* events by id: how the contract judges them, the
                      \* source they come from, their tokens and their stamp
  Short,              \* tokens of a single rune
  TTL,                \* INGEST_DEDUP_TTL, in ticks
  ContributionWindow, \* of the anti-fraud rules, in ticks
  MaxDeliveries,      \* bound: messages handled
  MaxClock            \* bound: last reading of the clock

Verdicts == {"event", "INVALID_JSON", "SCHEMA_VALIDATION_FAILED", "MAPPING_FAILED"}
Sources == {Events[e].source : e \in DOMAIN Events}
Tokens == UNION {Range(Events[e].tokens) : e \in DOMAIN Events}

ASSUME ServiceAssumption ==
  /\ Events \in [DOMAIN Events -> [contract : Verdicts, source : Sources,
                                   tokens : Seq(Tokens), stamp : Nat]]
  /\ TTL \in Nat \ {0} /\ ContributionWindow \in Nat \ {0}
  /\ MaxDeliveries \in Nat /\ MaxClock \in Nat
  /\ Nobody \notin Requests /\ NoWord \notin Words
  /\ {MaxVersion, MaxErrors, MaxCrashes, MaxFaults} \subseteq Nat

VARIABLES
  up, words, version, wordLock, versionLock, request, reply, active, history,
  activeAt, errors, crashes,    \* of StopListSync
  clock,
  seen,          \* dedup store: until when an id is a duplicate, 0 when unknown
  contributions, \* contributionSeen of the rules: source, query, until
  inHand,        \* the vote between the rules and the window, or none
  votes,         \* the votes the window was given, oldest first
  metrics,
  handled,       \* history variable: messages this process was given
  deliveries,    \* messages given to any process
  stopped        \* history variable: for a word whose addition was answered
                 \* and whose removal was not begun, the number of votes then

Stop == INSTANCE StopListSync

stoplist == <<up, words, version, wordLock, versionLock, request, reply, active,
              history, activeAt, errors, crashes>>
memory == <<seen, contributions, inHand, votes, metrics, handled>>
pipeline == <<memory, deliveries>>
vars == <<stoplist, clock, pipeline, stopped>>

-----------------------------------------------------------------------------
NotStopped == -1
NoVote == <<>>

Init ==
  /\ Stop!Init
  /\ clock = 1
  /\ seen = [e \in DOMAIN Events |-> 0] /\ contributions = {}
  /\ inHand = NoVote /\ votes = <<>>
  /\ metrics = NewCollector /\ handled = 0
  /\ deliveries = 0
  /\ stopped = [w \in Words |-> NotStopped]

(* A process that ends forgets all but the database.                        *)
Forget ==
  /\ seen' = [e \in DOMAIN Events |-> 0] /\ contributions' = {}
  /\ inHand' = NoVote /\ votes' = <<>>
  /\ metrics' = NewCollector /\ handled' = 0

-----------------------------------------------------------------------------
(* The definitions called Bug... are mistakes the properties are meant to   *)
(* catch; nothing here uses them.                                           *)
BugNormalize(e) == Events[e].tokens

(* Normalize: the tokens that are no stop words now.  ValidateAndMap gives  *)
(* QueryRaw as it came; its tokens are the maximal runs of letters and      *)
(* digits, lower case.  A stop word that is no such run matches nothing.    *)
(* Kept are the places of the tokens that stay; the k-th of them is the one *)
(* with k places up to it.                                                  *)
Kept(e) == {i \in DOMAIN Events[e].tokens : Events[e].tokens[i] \notin active}
Normalize(e) ==
  [k \in 1..Cardinality(Kept(e)) |->
     Events[e].tokens[CHOOSE i \in Kept(e) : Cardinality({j \in Kept(e) : j <= i}) = k]]

(* ErrInvalidQuery: fewer than two runes are left.                          *)
Usable(query) == query # <<>> /\ ~(Len(query) = 1 /\ Head(query) \in Short)

Duplicate(e) == seen[e] > clock

BugNoted(e) == [i \in DOMAIN Events |-> IF seen[i] > clock THEN seen[i] ELSE 0]

(* SeenOrAdd: expired ids go, a new one comes.                              *)
Noted(e) ==
  [i \in DOMAIN Events |->
     IF seen[i] > clock THEN seen[i] ELSE IF i = e THEN clock + TTL ELSE 0]

Live == {c \in contributions : c.until > clock}
HasVoted(e) ==
  \E c \in Live : c.source = Events[e].source /\ c.query = Normalize(e)

BugContribution(e) ==
  [source |-> Events[e].source, query |-> Normalize(e), until |-> clock]

Contribution(e) ==
  [source |-> Events[e].source, query |-> Normalize(e),
   until |-> clock + ContributionWindow]

(* HandleRaw begins with a message of event e.                              *)
Receive(e) ==
  /\ up /\ inHand = NoVote
  /\ deliveries < MaxDeliveries
  /\ deliveries' = deliveries + 1
  /\ handled' = handled + 1
  /\ UNCHANGED <<stoplist, clock, stopped>>

(* A rejection is reported, and counted under its reason, and is no error.  *)
Drop(reason) ==
  /\ metrics' = IncDropped(metrics, reason)
  /\ UNCHANGED <<inHand, votes>>

BreaksContract(e) ==
  /\ Receive(e)
  /\ Events[e].contract # "event"
  /\ Drop(Events[e].contract)
  /\ UNCHANGED <<seen, contributions>>

IsDuplicate(e) ==
  /\ Receive(e)
  /\ Events[e].contract = "event" /\ Duplicate(e)
  /\ seen' = Noted(e)
  /\ Drop("DUPLICATE_EVENT_ID")
  /\ UNCHANGED contributions

(* The duplicate check passes and the id is noted, also when the query or   *)
(* the rules reject the event below.                                        *)
IsNew(e) ==
  /\ Receive(e)
  /\ Events[e].contract = "event" /\ ~Duplicate(e)
  /\ seen' = Noted(e)

IsUnusable(e) ==
  /\ IsNew(e) /\ ~Usable(Normalize(e))
  /\ Drop("INVALID_QUERY")
  /\ UNCHANGED contributions

(* Refused before the contribution cap, or by it, or after it has been      *)
(* noted.                                                                   *)
IsRefused(e) ==
  /\ IsNew(e) /\ Usable(Normalize(e))
  /\ \/ Drop("ANTI_FRAUD") /\ contributions' = Live
     \/ HasVoted(e) /\ Drop("ANTI_FRAUD_CONTRIBUTION_CAP") /\ contributions' = Live
     \/ ~HasVoted(e) /\ Drop("ANTI_FRAUD") /\ contributions' = Live \cup {Contribution(e)}

BugIsAccepted(e) ==
  /\ IsNew(e) /\ ~HasVoted(e)
  /\ contributions' = Live \cup {Contribution(e)}
  /\ inHand' = <<[event |-> e, query |-> Normalize(e), at |-> clock]>>
  /\ UNCHANGED <<votes, metrics>>

IsAccepted(e) ==
  /\ IsNew(e) /\ Usable(Normalize(e)) /\ ~HasVoted(e)
  /\ contributions' = Live \cup {Contribution(e)}
  /\ inHand' = <<[event |-> e, query |-> Normalize(e), at |-> clock]>>
  /\ UNCHANGED <<votes, metrics>>

BugIngested(e) ==
  IF Events[e].stamp = 0 THEN metrics
  ELSE ObserveIngestLag(IncIngest(metrics), ClampNonNegative(clock - Events[e].stamp))

(* The metrics after a vote: the lag only when the producer gave a stamp.   *)
Ingested(e) ==
  IF Events[e].stamp = 0 THEN IncIngest(metrics)
  ELSE ObserveIngestLag(IncIngest(metrics), ClampNonNegative(clock - Events[e].stamp))

(* Aggregator.Add, and the rest of HandleRaw.                               *)
Add ==
  /\ up /\ inHand # NoVote
  /\ votes' = Append(votes, Head(inHand))
  /\ metrics' = Ingested(Head(inHand).event)
  /\ inHand' = NoVote
  /\ UNCHANGED <<stoplist, clock, seen, contributions, handled, deliveries, stopped>>

-----------------------------------------------------------------------------
(* A request adds word w and gets its answer in this step; begins to remove *)
(* it.                                                                      *)
Acknowledged(w) ==
  \E p \in Requests : /\ request[p].pc = "replace" /\ request'[p].pc = "idle"
                      /\ request[p].kind = "add" /\ request[p].word = w
BeginsRemoval(w) ==
  \E p \in Requests : /\ request[p].pc = "idle" /\ request'[p].pc = "write"
                      /\ request'[p].kind = "remove" /\ request'[p].word = w

(* A step of an admin request.                                              *)
Admin ==
  /\ Stop!Next /\ up' = up
  /\ stopped' = [w \in Words |-> IF Acknowledged(w) THEN Len(votes)
                                 ELSE IF BeginsRemoval(w) THEN NotStopped
                                 ELSE stopped[w]]
  /\ UNCHANGED <<clock, pipeline>>

Crash ==
  /\ Stop!Crash
  /\ Forget
  /\ stopped' = [w \in Words |-> IF stopped[w] = NotStopped THEN NotStopped ELSE 0]
  /\ UNCHANGED <<clock, deliveries>>

Boot == Stop!Boot /\ UNCHANGED <<clock, pipeline, stopped>>

Tick ==
  /\ clock < MaxClock
  /\ clock' = clock + 1
  /\ UNCHANGED <<stoplist, pipeline, stopped>>

Next ==
  \/ \E e \in DOMAIN Events : \/ BreaksContract(e) \/ IsDuplicate(e) \/ IsUnusable(e)
                              \/ IsRefused(e) \/ IsAccepted(e)
  \/ Add
  \/ Admin
  \/ Crash
  \/ Boot
  \/ Tick

Spec == Init /\ [][Next]_vars

-----------------------------------------------------------------------------
Vote == [event : DOMAIN Events, query : Seq(Tokens), at : Nat]

(* Every variable of the pipeline has its type, and every vote has a usable *)
(* query.                                                                   *)
TypeOK ==
  /\ clock \in Nat
  /\ seen \in [DOMAIN Events -> Nat]
  /\ contributions \subseteq [source : Sources, query : Seq(Tokens), until : Nat]
  /\ inHand \in Seq(Vote) /\ Len(inHand) <= 1
  /\ votes \in Seq(Vote)
  /\ \A i \in DOMAIN votes : Usable(votes[i].query)
  /\ metrics \in Collectors
  /\ handled \in Nat /\ deliveries \in 0..MaxDeliveries
  /\ stopped \in [Words -> Nat \cup {NotStopped}]

(* Once the addition of a stop word is acknowledged, at most one more vote  *)
(* is counted under a query that holds it: the one that had passed the      *)
(* normalizer.  Over a restart, and until somebody begins to remove the     *)
(* word.  Holds for one admin request at a time.  This is what the code     *)
(* keeps of the promise of api.v1.openapi.yaml:24, StoredNotServed below,   *)
(* which it breaks: that vote and those counted before are served.          *)
AcknowledgedStops ==
  \A w \in Words : stopped[w] # NotStopped =>
    Cardinality({i \in DOMAIN votes : i > stopped[w] /\ w \in Range(votes[i].query)}) <= 1

(* Whatever is delivered again, and however the stop words change between   *)
(* two deliveries: two votes of one event are TTL apart, and two votes of   *)
(* one source for one query are a contribution window apart.                *)
CountedOnce ==
  \A i, j \in DOMAIN votes : i < j =>
    /\ votes[i].event = votes[j].event => votes[j].at - votes[i].at >= TTL
    /\ (/\ Events[votes[i].event].source = Events[votes[j].event].source
        /\ votes[i].query = votes[j].query)
         => votes[j].at - votes[i].at >= ContributionWindow

(* One element for each message a collector counts as dropped.              *)
Drops(m) == UNION {{r} \X (1..m.dropped[r]) : r \in RejectReasons}

(* Between two messages, and while a vote is in hand, the metrics account   *)
(* for every message: each was ingested or dropped for one reason; what was *)
(* ingested is what the window was given, and the lag has an observation    *)
(* for each vote with a stamp.  (Add and the metrics it leaves are one step *)
(* here: a scrape in the middle of them is not looked at.)                  *)
Accounted ==
  /\ metrics.ingestTotal = Len(votes)
  /\ handled = metrics.ingestTotal + Cardinality(Drops(metrics)) + Len(inHand)
  /\ metrics.lagCount =
       Cardinality({i \in DOMAIN votes : Events[votes[i].event].stamp > 0})

(* StopListSync's, over the crashes: for one request at a time and no       *)
(* errors the normalizer has the words of the database when no request is   *)
(* in progress.                                                             *)
SyncedWhenQuiet == Stop!SyncedWhenQuiet

(* "Queries of the stop-list do not reach the answer": api.v1.openapi.yaml, *)
(* line 24.  When no request is in progress, the window has no vote under a *)
(* query that holds a stored word.  (The clock of an instance ends long     *)
(* before a vote leaves the window.)  It does not hold: nothing takes out   *)
(* what was counted before a change, and a change whose re-read failed is   *)
(* not filtered with at all.                                                *)
StoredNotServed ==
  up /\ (\A p \in Requests : request[p].pc = "idle") =>
    \A i \in DOMAIN votes : Range(votes[i].query) \cap words = {}
=============================================================================
