----------------------------- MODULE AntiFraud -----------------------------
(* The anti-fraud evaluator, internal/engine/antifraud/rules.go.            *)
(*                                                                          *)
(* Evaluate is one critical section and the consumer goroutine its only     *)
(* caller, so a call is one step.  A map without a key is a function that   *)
(* is 0 there: a time of 0 never lies after the clock.  The wall clock is   *)
(* not set back here.                                                       *)
EXTENDS Integers, Sequences, FiniteSets

CONSTANTS
  IPs, Sessions, Users, \* hashed identifiers
  NoId,                 \* a missing identifier
  Queries,              \* normalised queries
  Events,               \* the events evaluated
  Minute,               \* a minute in ticks; also cleanupInterval
  MaxRequests,          \* MaxRequestsPerMinutePerIP
  IPBlock,              \* IPBlockDuration
  ContributionWindow,
  MaxUnique,            \* MaxUniqueQueriesPerSession
  EntropyWindow,        \* SessionEntropyWindow
  SessionBlock,         \* SessionBlockDuration
  MaxClock,             \* bound: last reading of the clock
  MaxEvents             \* bound: events evaluated

Event == [ip : IPs \cup {NoId}, session : Sessions \cup {NoId},
          user : Users \cup {NoId}, query : Queries]

ASSUME AntiFraudAssumption ==
  /\ NoId \notin IPs \cup Sessions \cup Users
  /\ Events \subseteq Event
  /\ IsFiniteSet(Queries)
  /\ {Minute, MaxRequests, IPBlock, ContributionWindow, MaxUnique,
      EntropyWindow, SessionBlock} \subseteq Nat \ {0}
  /\ {MaxClock, MaxEvents} \subseteq Nat

VARIABLES
  clock,
  bucketMin,           \* the minute the counters are for
  counters,            \* requests of each address in that minute
  lastCleanupAt,
  ipBlockedUntil,
  sessionBlockedUntil,
  contributionSeen,    \* until when an identity may not vote for a query again
  sessionEntropy,      \* the recent events of each session
  log                  \* history variable: events, times and verdicts

rules == <<bucketMin, counters, lastCleanupAt, ipBlockedUntil,
           sessionBlockedUntil, contributionSeen, sessionEntropy>>
vars == <<clock, rules, log>>

-----------------------------------------------------------------------------
Identities == ({"ip"} \X IPs) \cup ({"session"} \X Sessions) \cup ({"user"} \X Users)
NoState == [events |-> <<>>, counts |-> [q \in Queries |-> 0], lastSeen |-> 0]

Init ==
  /\ clock = Minute
  /\ bucketMin = 0
  /\ counters = [ip \in IPs |-> 0]
  /\ lastCleanupAt = 0
  /\ ipBlockedUntil = [ip \in IPs |-> 0]
  /\ sessionBlockedUntil = [s \in Sessions |-> 0]
  /\ contributionSeen = [k \in Identities \X Queries |-> 0]
  /\ sessionEntropy = [s \in Sessions |-> NoState]
  /\ log = <<>>

(* The definitions called Bug... are mistakes the properties are meant to   *)
(* catch; nothing here uses them.                                           *)
BugIdentityKeys(e) == {<<"ip", e.ip>>, <<"session", e.session>>}
identityKeys(e) == {<<"ip", e.ip>>, <<"session", e.session>>}
                     \cup (IF e.user = NoId THEN {} ELSE {<<"user", e.user>>})

Less(count, removed) == IF count <= removed THEN 0 ELSE count - removed

BugCutIndex(events, cutoff) ==
  CHOOSE n \in 0..Len(events) :
    /\ \A i \in 1..n : events[i].at <= cutoff
    /\ n < Len(events) => events[n + 1].at > cutoff

(* How many events at the head of the list lie before the cutoff.           *)
CutIndex(events, cutoff) ==
  CHOOSE n \in 0..Len(events) :
    /\ \A i \in 1..n : events[i].at < cutoff
    /\ n < Len(events) => events[n + 1].at >= cutoff

BugPrune(state, cutoff) ==
  [state EXCEPT !.events = SubSeq(@, CutIndex(@, cutoff) + 1, Len(@))]

(* pruneSessionState: the events before the cutoff leave the list and the   *)
(* counts.                                                                  *)
Pruned(state, cutoff) ==
  LET n == CutIndex(state.events, cutoff)
  IN  [state EXCEPT
         !.events = SubSeq(@, n + 1, Len(@)),
         !.counts = [q \in Queries |->
           Less(@[q], Cardinality({i \in 1..n : state.events[i].query = q}))]]

Distinct(state) == {q \in Queries : state.counts[q] > 0}

BugUnexpired(until) == IF until >= clock + 2 THEN until ELSE 0
Unexpired(until) == IF until > clock THEN until ELSE 0

(* What cleanupLocked leaves of the four maps; it runs once in a minute.    *)
CleanupDue == lastCleanupAt = 0 \/ clock - lastCleanupAt >= Minute

CleanEntropy(state) ==
  LET pruned == Pruned(state, clock - EntropyWindow)
  IN  IF Distinct(pruned) = {} /\ clock - pruned.lastSeen > EntropyWindow
      THEN NoState ELSE pruned

(* The maps the rules look at: cleaned when the cleanup is due.             *)
IPBlocks == IF CleanupDue THEN [ip \in IPs |-> Unexpired(ipBlockedUntil[ip])]
                          ELSE ipBlockedUntil
SessionBlocks == IF CleanupDue THEN [s \in Sessions |-> Unexpired(sessionBlockedUntil[s])]
                               ELSE sessionBlockedUntil
Contributions == IF CleanupDue
                 THEN [k \in Identities \X Queries |-> Unexpired(contributionSeen[k])]
                 ELSE contributionSeen
Entropies == IF CleanupDue THEN [s \in Sessions |-> CleanEntropy(sessionEntropy[s])]
                           ELSE sessionEntropy
Cleanup == lastCleanupAt' = IF CleanupDue THEN clock ELSE lastCleanupAt

BugCounted(ip) == [counters EXCEPT ![ip] = @ + 1]
(* The counters with this request, reset when the minute has changed.       *)
Counted(ip) ==
  [(IF bucketMin = clock \div Minute THEN counters ELSE [i \in IPs |-> 0])
     EXCEPT ![ip] = @ + 1]

(* The vote is noted for every identity of the event.                      *)
Recorded(e) ==
  [k \in Identities \X Queries |->
     IF k[1] \in identityKeys(e) /\ k[2] = e.query
     THEN clock + ContributionWindow ELSE Contributions[k]]

(* The session's state with this event.                                     *)
Observed(e) ==
  LET state == Pruned([Entropies[e.session] EXCEPT !.lastSeen = clock],
                      clock - EntropyWindow)
  IN  [state EXCEPT !.events = Append(@, [at |-> clock, query |-> e.query]),
                    !.counts[e.query] = @ + 1]

(* A session that is blocked starts over: its state is deleted.             *)
BugBlockedEntropy(e) == [Entropies EXCEPT ![e.session] = Observed(e)]
BlockedEntropy(e) == [Entropies EXCEPT ![e.session] = NoState]

(* The verdict is returned, and logged.                                     *)
Return(e, verdict) ==
  /\ log' = Append(log, [event |-> e, at |-> clock, verdict |-> verdict])
  /\ UNCHANGED clock

-----------------------------------------------------------------------------
(* The return statements of Evaluate, in their order.                       *)
MissingIdentifiers(e) ==
  /\ e.ip = NoId \/ e.session = NoId
  /\ Return(e, "missing")
  /\ UNCHANGED rules

Identified(e) == e.ip # NoId /\ e.session # NoId

IPBlocked(e) ==
  /\ Identified(e)
  /\ IPBlocks[e.ip] > clock
  /\ Return(e, "ip_blocked")
  /\ Cleanup
  /\ ipBlockedUntil' = IPBlocks
  /\ sessionBlockedUntil' = SessionBlocks
  /\ contributionSeen' = Contributions
  /\ sessionEntropy' = Entropies
  /\ UNCHANGED <<bucketMin, counters>>

SessionBlocked(e) ==
  /\ Identified(e)
  /\ IPBlocks[e.ip] <= clock
  /\ SessionBlocks[e.session] > clock
  /\ Return(e, "session_blocked")
  /\ Cleanup
  /\ ipBlockedUntil' = IPBlocks
  /\ sessionBlockedUntil' = SessionBlocks
  /\ contributionSeen' = Contributions
  /\ sessionEntropy' = Entropies
  /\ UNCHANGED <<bucketMin, counters>>

(* Not blocked: the request is counted.                                     *)
Count(e) ==
  /\ Identified(e)
  /\ IPBlocks[e.ip] <= clock
  /\ SessionBlocks[e.session] <= clock
  /\ Cleanup
  /\ bucketMin' = clock \div Minute
  /\ counters' = Counted(e.ip)

OverRate(e) ==
  /\ Count(e)
  /\ Counted(e.ip)[e.ip] > MaxRequests
  /\ Return(e, "ip_rate")
  /\ ipBlockedUntil' = [IPBlocks EXCEPT ![e.ip] = clock + IPBlock]
  /\ sessionBlockedUntil' = SessionBlocks
  /\ contributionSeen' = Contributions
  /\ sessionEntropy' = Entropies

HasVoted(e) == \E key \in identityKeys(e) : Contributions[<<key, e.query>>] > clock

OverCap(e) ==
  /\ Count(e)
  /\ Counted(e.ip)[e.ip] <= MaxRequests
  /\ HasVoted(e)
  /\ Return(e, "cap")
  /\ ipBlockedUntil' = IPBlocks
  /\ sessionBlockedUntil' = SessionBlocks
  /\ contributionSeen' = Contributions
  /\ sessionEntropy' = Entropies

(* The vote is recorded before the entropy is looked at.                    *)
OverEntropy(e) ==
  /\ Count(e)
  /\ Counted(e.ip)[e.ip] <= MaxRequests
  /\ ~HasVoted(e)
  /\ Cardinality(Distinct(Observed(e))) > MaxUnique
  /\ Return(e, "entropy")
  /\ ipBlockedUntil' = IPBlocks
  /\ sessionBlockedUntil' = [SessionBlocks EXCEPT ![e.session] = clock + SessionBlock]
  /\ contributionSeen' = Recorded(e)
  /\ sessionEntropy' = BlockedEntropy(e)

Accept(e) ==
  /\ Count(e)
  /\ Counted(e.ip)[e.ip] <= MaxRequests
  /\ ~HasVoted(e)
  /\ Cardinality(Distinct(Observed(e))) <= MaxUnique
  /\ Return(e, "ok")
  /\ ipBlockedUntil' = IPBlocks
  /\ sessionBlockedUntil' = SessionBlocks
  /\ contributionSeen' = Recorded(e)
  /\ sessionEntropy' = [Entropies EXCEPT ![e.session] = Observed(e)]

Evaluate(e) ==
  \/ MissingIdentifiers(e) \/ IPBlocked(e) \/ SessionBlocked(e) \/ OverRate(e)
  \/ OverCap(e) \/ OverEntropy(e) \/ Accept(e)

Tick == clock < MaxClock /\ clock' = clock + 1 /\ UNCHANGED <<rules, log>>

BoundsReached == clock = MaxClock /\ Len(log) = MaxEvents /\ UNCHANGED vars

Next ==
  \/ Len(log) < MaxEvents /\ \E e \in Events : Evaluate(e)
  \/ Tick
  \/ BoundsReached

Spec == Init /\ [][Next]_vars

-----------------------------------------------------------------------------
Verdicts == {"ok", "missing", "ip_blocked", "session_blocked", "ip_rate", "cap", "entropy"}

(* Every variable has its type; a session's state never holds more than     *)
(* MaxUnique different queries.                                             *)
TypeOK ==
  /\ clock \in Nat
  /\ bucketMin \in Nat /\ lastCleanupAt \in Nat
  /\ counters \in [IPs -> Nat]
  /\ ipBlockedUntil \in [IPs -> Nat]
  /\ sessionBlockedUntil \in [Sessions -> Nat]
  /\ contributionSeen \in [Identities \X Queries -> Nat]
  /\ sessionEntropy \in [Sessions -> [events : Seq([at : Nat, query : Queries]),
                                      counts : [Queries -> Nat], lastSeen : Nat]]
  /\ \A s \in Sessions : Cardinality(Distinct(sessionEntropy[s])) <= MaxUnique
  /\ log \in Seq([event : Event, at : Nat, verdict : Verdicts])

(* The counts of a session are the multiset of its listed events: adding,   *)
(* pruning and cleaning up never let the two drift apart.                   *)
CountsMatchEvents ==
  \A s \in Sessions, q \in Queries :
    sessionEntropy[s].counts[q]
      = Cardinality({i \in DOMAIN sessionEntropy[s].events :
                       sessionEntropy[s].events[i].query = q})

Accepted == {i \in DOMAIN log : log[i].verdict = "ok"}

(* One vote per identity and query in a contribution window: two accepted   *)
(* events with the same query that share an address, a session or a user    *)
(* are a whole window apart, and no cleanup in between forgets the first.   *)
OneVotePerWindow ==
  \A i, j \in Accepted :
    (/\ i < j
     /\ log[i].event.query = log[j].event.query
     /\ \/ log[i].event.ip = log[j].event.ip
        \/ log[i].event.session = log[j].event.session
        \/ log[i].event.user = log[j].event.user /\ log[i].event.user # NoId)
       => log[j].at >= log[i].at + ContributionWindow

(* No more than MaxUnique different queries of a session are accepted in    *)
(* any trailing entropy window.  Needs a block longer than the window,      *)
(* since a block forgets the session's events.                              *)
EntropyBounded ==
  \A i \in Accepted :
    Cardinality({log[j].event.query : j \in
       {k \in Accepted : /\ k <= i
                         /\ log[k].event.session = log[i].event.session
                         /\ log[k].at >= log[i].at - EntropyWindow}}) <= MaxUnique

(* An address is accepted at most MaxRequests times in a minute, and not at *)
(* all while the block of an earlier excess lasts.                          *)
RateBounded ==
  /\ \A i \in Accepted :
       Cardinality({j \in Accepted :
                      /\ log[j].event.ip = log[i].event.ip
                      /\ log[j].at \div Minute = log[i].at \div Minute}) <= MaxRequests
  /\ \A i \in DOMAIN log, j \in Accepted :
       (i < j /\ log[i].verdict = "ip_rate" /\ log[i].event.ip = log[j].event.ip)
         => log[j].at >= log[i].at + IPBlock

Abs == INSTANCE AntiFraudPolicy

(* The evaluator with its counters, maps, lists and cleanups implements the *)
(* policy over the whole log.                                               *)
ImplementsPolicy == Abs!Spec
=============================================================================
