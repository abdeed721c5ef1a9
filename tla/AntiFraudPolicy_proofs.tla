----------------------- MODULE AntiFraudPolicy_proofs -----------------------
(* The evaluator implements the policy: its counters, maps and lists stand  *)
(* for exactly what the log of everything it was asked says.                *)
EXTENDS AntiFraud_proofs, WellFoundedInduction

-----------------------------------------------------------------------------
(* A remembered time v stands for the set U of the times a log asks for: it *)
(* is one of them, or 0, and none lies both after it and after now.         *)
Tracks(v, U, now) ==
  /\ v = 0 \/ v \in U
  /\ \A u \in U : u <= v \/ u <= now

(* The ends of the blocks of an address, of the blocks of a session, and of *)
(* the votes of an identity for a query.                                    *)
IPBlockEnds(ip) ==
  {log[i].at + IPBlock :
     i \in {j \in DOMAIN log : log[j].verdict = "ip_rate" /\ log[j].event.ip = ip}}
SessionBlockEnds(s) ==
  {log[i].at + SessionBlock :
     i \in {j \in DOMAIN log : log[j].verdict = "entropy" /\ log[j].event.session = s}}
VoteEnds(k) ==
  {log[i].at + ContributionWindow :
     i \in {j \in DOMAIN log : /\ log[j].verdict \in {"ok", "entropy"}
                               /\ k[1] \in identityKeys(log[j].event)
                               /\ log[j].event.query = k[2]}}

IPsTracked == \A ip \in IPs : Tracks(ipBlockedUntil[ip], IPBlockEnds(ip), clock)
SessionsTracked ==
  \A s \in Sessions : Tracks(sessionBlockedUntil[s], SessionBlockEnds(s), clock)
VotesTracked ==
  \A k \in Identities \X Queries : Tracks(contributionSeen[k], VoteEnds(k), clock)

(* The requests of an address in a minute; the counters hold their number.  *)
RequestsIn(ip, minute) ==
  {j \in DOMAIN log : /\ log[j].verdict \in {"ok", "cap", "entropy", "ip_rate"}
                      /\ log[j].event.ip = ip
                      /\ log[j].at \div Minute = minute}
CountersExact ==
  /\ \A ip \in IPs : counters[ip] = Cardinality(RequestsIn(ip, bucketMin))
  /\ \A j \in DOMAIN log :
       log[j].verdict \in {"ok", "cap", "entropy", "ip_rate"}
         => log[j].at \div Minute <= bucketMin

(* The accepted events of a session since its last block.                   *)
Current(s) ==
  {j \in DOMAIN log :
     /\ log[j].verdict = "ok" /\ log[j].event.session = s
     /\ ~\E k \in DOMAIN log : /\ log[k].verdict = "entropy" /\ k > j
                               /\ log[k].event.session = s}

Observation == [at : Nat, query : Queries]
SessionState == [events : Seq(Observation), counts : [Queries -> Nat], lastSeen : Nat]

Listed(state) == {state.events[i] : i \in DOMAIN state.events}
Logged(s) == {[at |-> log[j].at, query |-> log[j].event.query] : j \in Current(s)}

(* A session's state is well formed: the list in the order of time, the     *)
(* counts those of the list.                                                *)
WellFormed(state) ==
  /\ state \in SessionState
  /\ \A i, j \in DOMAIN state.events : i <= j => state.events[i].at <= state.events[j].at
  /\ \A q \in Queries :
       state.counts[q] = Cardinality({i \in DOMAIN state.events : state.events[i].query = q})

(* What is listed was logged, and what was logged within the window is      *)
(* listed.                                                                  *)
Remembers(state, s) ==
  /\ Listed(state) \subseteq Logged(s)
  /\ \A x \in Logged(s) : x.at >= clock - EntropyWindow => x \in Listed(state)

SessionsExact ==
  /\ sessionEntropy \in [Sessions -> SessionState]
  /\ \A s \in Sessions : /\ WellFormed(sessionEntropy[s]) /\ Remembers(sessionEntropy[s], s)
                         /\ Cardinality(Distinct(sessionEntropy[s])) <= MaxUnique

LogOrdered ==
  /\ \A i, j \in DOMAIN log : i <= j => log[i].at <= log[j].at
  /\ \A i \in DOMAIN log : log[i].verdict # "missing" => Identified(log[i].event)

Exact ==
  /\ lastCleanupAt \in Nat
  /\ sessionBlockedUntil \in [Sessions -> Nat]
  /\ LogOrdered
  /\ IPsTracked /\ SessionsTracked /\ VotesTracked
  /\ CountersExact /\ SessionsExact
-----------------------------------------------------------------------------
(* Remembered times.                                                        *)
LEMMA TracksExactly ==
  ASSUME NEW v \in Nat, NEW U \in SUBSET Nat, NEW now \in Nat, Tracks(v, U, now)
  PROVE  v > now <=> \E u \in U : u > now
BY DEF Tracks

LEMMA TracksLater ==
  ASSUME NEW v \in Nat, NEW U \in SUBSET Nat, NEW now \in Nat, NEW later \in Nat,
         Tracks(v, U, now), now <= later
  PROVE  Tracks(v, U, later)
BY DEF Tracks

LEMMA TracksForgotten ==
  ASSUME NEW v \in Nat, NEW U \in SUBSET Nat, NEW now \in Nat, Tracks(v, U, now),
         v <= now
  PROVE  Tracks(0, U, now)
BY DEF Tracks

LEMMA TracksNew ==
  ASSUME NEW v \in Nat, NEW U \in SUBSET Nat, NEW now \in Nat, NEW end \in Nat,
         Tracks(v, U, now), v <= now, now <= end
  PROVE  Tracks(end, U \cup {end}, now)
BY DEF Tracks

-----------------------------------------------------------------------------
(* A session's list: the cut, the pruning, the event added.                 *)
LEMMA CutIndexCuts ==
  ASSUME NEW events \in Seq(Observation), NEW cutoff \in Int
  PROVE  LET n == CutIndex(events, cutoff)
         IN  /\ n \in 0..Len(events)
             /\ \A i \in 1..n : events[i].at < cutoff
             /\ n < Len(events) => events[n + 1].at >= cutoff
<1> DEFINE Stops == {m \in Nat : m <= Len(events)
                                   /\ (m < Len(events) => events[m + 1].at >= cutoff)}
           Cuts(m) == /\ \A i \in 1..m : events[i].at < cutoff
                      /\ m < Len(events) => events[m + 1].at >= cutoff
<1>1. Len(events) \in Nat /\ \A i \in 1..Len(events) : events[i].at \in Nat
  <2>1. \A i \in 1..Len(events) : events[i] \in Observation
    OBVIOUS
  <2> QED BY <2>1 DEF Observation
<1>2. Stops \subseteq Nat /\ Stops # {}
  <2>1. Len(events) \in Stops
    BY <1>1
  <2> QED BY <2>1
<1> HIDE DEF Stops
<1>3. PICK m \in Stops : \A k \in Stops : <<k, m>> \notin OpToRel(<, Nat)
  BY <1>2, NatLessThanWellFounded, WFMin
<1>4. \A k \in Nat : k < m => k \notin Stops
  BY <1>2, <1>3 DEF OpToRel
<1>5. m \in 0..Len(events) /\ Cuts(m)
  <2>1. m \in Nat /\ m <= Len(events) /\ (m < Len(events) => events[m + 1].at >= cutoff)
    BY DEF Stops
  <2>2. ASSUME NEW i \in 1..m PROVE events[i].at < cutoff
    <3>1. i - 1 \in Nat /\ i - 1 < m /\ i - 1 < Len(events)
      BY <1>1, <2>1
    <3>2. ~(events[i - 1 + 1].at >= cutoff)
      BY <1>4, <3>1 DEF Stops
    <3> QED BY <1>1, <2>1, <3>1, <3>2
  <2> QED BY <1>1, <2>1, <2>2
<1>6. CutIndex(events, cutoff) = CHOOSE n \in 0..Len(events) : Cuts(n)
  BY DEF CutIndex
<1> HIDE DEF Cuts
<1>7. CutIndex(events, cutoff) \in 0..Len(events) /\ Cuts(CutIndex(events, cutoff))
  BY <1>5, <1>6
<1> QED BY <1>7 DEF Cuts

(* The places, counted from n on, of the events with a query.               *)
Having(events, q, n, m) == {i \in 1..(m - n) : events[n + i].query = q}

(* The positions with a query are those of the head and those of the tail.  *)
LEMMA SplitCount ==
  ASSUME NEW events \in Seq(Observation), NEW n \in 0..Len(events), NEW q
  PROVE  /\ Cardinality(Having(events, q, 0, Len(events)))
              = Cardinality(Having(events, q, 0, n)) + Cardinality(Having(events, q, n, Len(events)))
         /\ Cardinality(Having(events, q, 0, n)) \in Nat
         /\ Cardinality(Having(events, q, n, Len(events))) \in Nat
<1> DEFINE len == Len(events)
           All == {i \in 1..len : events[i].query = q}
           Cut == {i \in 1..n : events[i].query = q}
           Left == {i \in 1..(len - n) : events[n + i].query = q}
           Upper == {i \in (n + 1)..len : events[i].query = q}
           f == [i \in Left |-> n + i]
<1>1. len \in Nat /\ n \in Nat /\ n <= len
  OBVIOUS
<1> HIDE DEF len
<1>2. IsFiniteSet(Cut) /\ IsFiniteSet(Left)
  <2>1. IsFiniteSet(1..n) /\ IsFiniteSet(1..(len - n))
    BY <1>1, FS_Interval
  <2> QED BY <2>1, FS_Subset
<1>3. f \in Bijection(Left, Upper)
  <2>1. f \in [Left -> Upper]
    BY <1>1
  <2>2. \A i, j \in Left : f[i] = f[j] => i = j
    BY <1>1
  <2>3. ASSUME NEW t \in Upper PROVE \E i \in Left : f[i] = t
    <3>1. t - n \in 1..(len - n) /\ n + (t - n) = t
      BY <1>1
    <3>2. t - n \in Left
      BY <3>1
    <3> QED BY <3>1, <3>2
  <2> QED BY <2>1, <2>2, <2>3 DEF Bijection, Injection, Surjection, IsInjective
<1>4. IsFiniteSet(Upper) /\ Cardinality(Upper) = Cardinality(Left)
  BY <1>2, <1>3, FS_Bijection DEF ExistsBijection
<1>5. All = Cut \cup Upper /\ Cut \cap Upper = {}
  BY <1>1
<1>10. /\ All = Having(events, q, 0, len) /\ Cut = Having(events, q, 0, n)
       /\ Left = Having(events, q, n, len)
  BY <1>1 DEF Having
<1> HIDE DEF All, Cut, Left, Upper
<1>6. Cardinality(Cut) \in Nat /\ Cardinality(Left) \in Nat
  BY <1>2, FS_CardinalityType
<1>7. Cardinality(All) = Cardinality(Cut) + Cardinality(Upper) - Cardinality(Cut \cap Upper)
  BY <1>2, <1>4, <1>5, FS_Union
<1>8. Cardinality(Cut \cap Upper) = 0
  BY <1>5, FS_EmptySet
<1>9. Cardinality(All) = Cardinality(Cut) + Cardinality(Left)
  BY <1>4, <1>6, <1>7, <1>8
<1> QED BY <1>6, <1>9, <1>10 DEF len
LEMMA StateParts ==
  ASSUME NEW state, WellFormed(state)
  PROVE  /\ state.events \in Seq(Observation) /\ Len(state.events) \in Nat
         /\ DOMAIN state.events = 1..Len(state.events)
         /\ \A i \in DOMAIN state.events : /\ state.events[i] \in Observation
                                           /\ state.events[i].at \in Nat
                                           /\ state.events[i].query \in Queries
         /\ state.counts \in [Queries -> Nat] /\ state.lastSeen \in Nat
         /\ state = [events |-> state.events, counts |-> state.counts,
                     lastSeen |-> state.lastSeen]
<1>1. state \in SessionState
  BY DEF WellFormed
<1>2. state.events \in Seq(Observation)
  BY <1>1 DEF SessionState
<1>3. \A i \in 1..Len(state.events) : state.events[i] \in Observation
  BY <1>2
<1> QED BY <1>1, <1>2, <1>3 DEF SessionState, Observation

LEMMA StateExcept ==
  ASSUME NEW events, NEW counts, NEW lastSeen, NEW moreEvents, NEW moreCounts
  PROVE  [[events |-> events, counts |-> counts, lastSeen |-> lastSeen]
            EXCEPT !.events = moreEvents, !.counts = moreCounts]
           = [events |-> moreEvents, counts |-> moreCounts, lastSeen |-> lastSeen]
<1> DEFINE old == [events |-> events, counts |-> counts, lastSeen |-> lastSeen]
           half == [old EXCEPT !.events = moreEvents]
<1>1. half = [events |-> moreEvents, counts |-> counts, lastSeen |-> lastSeen]
  OBVIOUS
<1>2. [old EXCEPT !.events = moreEvents, !.counts = moreCounts]
        = [half EXCEPT !.counts = moreCounts]
  OBVIOUS
<1> HIDE DEF half
<1> QED BY <1>1, <1>2

LEMMA ObserveExcept ==
  ASSUME NEW events, NEW counts, NEW lastSeen, NEW new, NEW q
  PROVE  [[events |-> events, counts |-> counts, lastSeen |-> lastSeen]
            EXCEPT !.events = Append(@, new), !.counts[q] = @ + 1]
           = [events |-> Append(events, new), counts |-> [counts EXCEPT ![q] = @ + 1],
              lastSeen |-> lastSeen]
<1> DEFINE old == [events |-> events, counts |-> counts, lastSeen |-> lastSeen]
           more == [counts EXCEPT ![q] = @ + 1]
           longer == Append(events, new)
<1>1. [old EXCEPT !.events = Append(@, new), !.counts[q] = @ + 1]
        = [old EXCEPT !.events = Append(old.events, new), !.counts = [old.counts EXCEPT ![q] = @ + 1]]
  OBVIOUS
<1>2. old.events = events /\ old.counts = counts
  OBVIOUS
<1> HIDE DEF more, longer
<1>3. [old EXCEPT !.events = longer, !.counts = more]
        = [events |-> longer, counts |-> more, lastSeen |-> lastSeen]
  <2> DEFINE half == [old EXCEPT !.events = longer]
  <2>1. half = [events |-> longer, counts |-> counts, lastSeen |-> lastSeen]
    OBVIOUS
  <2>2. [old EXCEPT !.events = longer, !.counts = more] = [half EXCEPT !.counts = more]
    OBVIOUS
  <2> HIDE DEF half
  <2> QED BY <2>1, <2>2
<1> QED BY <1>1, <1>2, <1>3 DEF more, longer

(* The queries of a session's state are those of its list.                  *)
LEMMA DistinctListed ==
  ASSUME NEW state, WellFormed(state)
  PROVE  /\ Distinct(state) = {x.query : x \in Listed(state)}
         /\ IsFiniteSet(Distinct(state)) /\ Cardinality(Distinct(state)) \in Nat
<1>1. /\ DOMAIN state.events = 1..Len(state.events) /\ Len(state.events) \in Nat
      /\ \A i \in DOMAIN state.events : state.events[i].query \in Queries
  BY StateParts
<1>2. ASSUME NEW q \in Queries
      PROVE  state.counts[q] > 0 <=> \E i \in DOMAIN state.events : state.events[i].query = q
  <2> DEFINE P == {i \in DOMAIN state.events : state.events[i].query = q}
  <2>1. state.counts[q] = Cardinality(P)
    BY DEF WellFormed
  <2>2. IsFiniteSet(P)
    <3>1. P \in SUBSET (1..Len(state.events)) /\ IsFiniteSet(1..Len(state.events))
      BY <1>1, FS_Interval
    <3> QED BY <3>1, FS_Subset
  <2>3. P = {} <=> ~\E i \in DOMAIN state.events : state.events[i].query = q
    OBVIOUS
  <2> HIDE DEF P
  <2>4. Cardinality(P) \in Nat /\ (Cardinality(P) = 0 <=> P = {})
    BY <2>2, FS_CardinalityType, FS_EmptySet
  <2> QED BY <2>1, <2>3, <2>4
<1>3. Distinct(state) = {x.query : x \in Listed(state)}
  <2>1. \A q \in Queries : q \in Distinct(state)
                             <=> \E i \in DOMAIN state.events : state.events[i].query = q
    BY <1>2 DEF Distinct
  <2>2. Distinct(state) \subseteq Queries
    BY DEF Distinct
  <2>3. \A q : q \in {x.query : x \in Listed(state)}
                 <=> \E i \in DOMAIN state.events : state.events[i].query = q
    BY DEF Listed
  <2> QED BY <1>1, <2>1, <2>2, <2>3
<1>4. IsFiniteSet(Distinct(state))
  BY AntiFraudAssumption, FS_Subset DEF Distinct
<1> QED BY <1>3, <1>4, FS_CardinalityType

LEMMA PrunedState ==
  ASSUME NEW state, WellFormed(state), NEW cutoff \in Int
  PROVE  /\ WellFormed(Pruned(state, cutoff))
         /\ Listed(Pruned(state, cutoff)) = {x \in Listed(state) : x.at >= cutoff}
         /\ Pruned(state, cutoff).lastSeen = state.lastSeen
<1> DEFINE ev == state.events
           n == CutIndex(ev, cutoff)
           kept == SubSeq(ev, n + 1, Len(ev))
           counts == [q \in Queries |->
                        Less(state.counts[q], Cardinality({i \in 1..n : ev[i].query = q}))]
<1>1. /\ ev \in Seq(Observation) /\ Len(ev) \in Nat /\ DOMAIN ev = 1..Len(ev)
      /\ \A i \in 1..Len(ev) : ev[i] \in Observation /\ ev[i].at \in Nat
      /\ state.counts \in [Queries -> Nat] /\ state.lastSeen \in Nat
      /\ state = [events |-> ev, counts |-> state.counts, lastSeen |-> state.lastSeen]
  BY StateParts
<1>2. Pruned(state, cutoff) = [events |-> kept, counts |-> counts, lastSeen |-> state.lastSeen]
  <2>1. Pruned(state, cutoff) = [state EXCEPT !.events = kept, !.counts = counts]
    BY Zenon DEF Pruned
  <2> HIDE DEF kept, counts, ev
  <2> QED BY <1>1, <2>1, StateExcept
<1>3. /\ n \in 0..Len(ev)
      /\ \A i \in 1..n : ev[i].at < cutoff
      /\ n < Len(ev) => ev[n + 1].at >= cutoff
  BY <1>1, CutIndexCuts
<1>4. \A i, j \in 1..Len(ev) : i <= j => ev[i].at <= ev[j].at
  BY <1>1 DEF WellFormed
<1>5. \A q \in Queries : state.counts[q] = Cardinality({i \in 1..Len(ev) : ev[i].query = q})
  BY <1>1 DEF WellFormed
<1>6. \A q \in Queries :
        /\ Cardinality(Having(ev, q, 0, Len(ev)))
             = Cardinality(Having(ev, q, 0, n)) + Cardinality(Having(ev, q, n, Len(ev)))
        /\ Cardinality(Having(ev, q, 0, n)) \in Nat
        /\ Cardinality(Having(ev, q, n, Len(ev))) \in Nat
  <2>1. ev \in Seq(Observation) /\ n \in 0..Len(ev)
    BY <1>1, <1>3
  <2> HIDE DEF n, ev
  <2> QED BY <2>1, SplitCount
<1> HIDE DEF n
<1>7. /\ kept \in Seq(Observation) /\ Len(kept) = Len(ev) - n
      /\ \A i \in 1..(Len(ev) - n) : kept[i] = ev[n + i]
  <2>1. \A i \in (n + 1)..Len(ev) : ev[i] \in Observation
    BY <1>1, <1>3
  <2>2. n + 1 \in Int /\ Len(ev) \in Int
    BY <1>1, <1>3
  <2>3. /\ kept \in Seq(Observation)
        /\ Len(kept) = IF n + 1 <= Len(ev) THEN Len(ev) - (n + 1) + 1 ELSE 0
        /\ \A i \in 1..(Len(ev) - (n + 1) + 1) : kept[i] = ev[(n + 1) + i - 1]
    BY <2>1, <2>2, SubSeqProperties
  <2> QED BY <1>1, <1>3, <2>3
<1>8. DOMAIN kept = 1..(Len(ev) - n)
  BY <1>1, <1>3, <1>7
<1> HIDE DEF kept, ev
<1>15. \A q : /\ Having(ev, q, 0, Len(ev)) = {i \in 1..Len(ev) : ev[i].query = q}
              /\ Having(ev, q, 0, n) = {i \in 1..n : ev[i].query = q}
              /\ Having(ev, q, n, Len(ev)) = {i \in 1..(Len(ev) - n) : ev[n + i].query = q}
  BY <1>1, <1>3 DEF Having
<1>9. \A q \in Queries : counts[q] = Cardinality({i \in DOMAIN kept : kept[i].query = q})
  <2> SUFFICES ASSUME NEW q \in Queries
               PROVE  counts[q] = Cardinality({i \in DOMAIN kept : kept[i].query = q})
    OBVIOUS
  <2> DEFINE Left == {i \in 1..(Len(ev) - n) : ev[n + i].query = q}
             cut == Cardinality({i \in 1..n : ev[i].query = q})
  <2>1. {i \in DOMAIN kept : kept[i].query = q} = Left
    BY <1>7, <1>8
  <2>2. counts[q] = Less(state.counts[q], cut)
    OBVIOUS
  <2>3. state.counts[q] = cut + Cardinality(Left) /\ cut \in Nat /\ Cardinality(Left) \in Nat
    BY <1>5, <1>6, <1>15
  <2> HIDE DEF Left, cut, counts
  <2>4. Less(state.counts[q], cut) = Cardinality(Left)
    BY <2>3 DEF Less
  <2> QED BY <2>1, <2>2, <2>4
<1>10. counts \in [Queries -> Nat]
  <2>1. \A q \in Queries : counts[q] \in Nat
    <3> SUFFICES ASSUME NEW q \in Queries PROVE counts[q] \in Nat
      OBVIOUS
    <3> DEFINE cut == Cardinality({i \in 1..n : ev[i].query = q})
    <3>1. cut \in Nat /\ state.counts[q] \in Nat
      BY <1>1, <1>6, <1>15
    <3>2. counts[q] = Less(state.counts[q], cut)
      OBVIOUS
    <3> HIDE DEF cut, counts
    <3> QED BY <3>1, <3>2 DEF Less
  <2> QED BY <2>1
<1> HIDE DEF counts
<1>11. /\ Pruned(state, cutoff).events = kept /\ Pruned(state, cutoff).counts = counts
       /\ Pruned(state, cutoff).lastSeen = state.lastSeen
       /\ Pruned(state, cutoff) \in SessionState
  BY <1>1, <1>2, <1>7, <1>10 DEF SessionState
<1>12. \A i, j \in DOMAIN kept : i <= j => kept[i].at <= kept[j].at
  <2> SUFFICES ASSUME NEW i \in DOMAIN kept, NEW j \in DOMAIN kept, i <= j
               PROVE  kept[i].at <= kept[j].at
    OBVIOUS
  <2>1. n + i \in 1..Len(ev) /\ n + j \in 1..Len(ev) /\ n + i <= n + j
    BY <1>1, <1>3, <1>8
  <2>2. ev[n + i].at <= ev[n + j].at
    BY <1>4, <2>1
  <2> QED BY <1>7, <1>8, <2>2
<1>13. WellFormed(Pruned(state, cutoff))
  BY <1>9, <1>11, <1>12 DEF WellFormed
<1>14. ASSUME NEW x
       PROVE  x \in Listed(Pruned(state, cutoff)) <=> x \in Listed(state) /\ x.at >= cutoff
  <2>1. x \in Listed(Pruned(state, cutoff)) <=> \E i \in 1..(Len(ev) - n) : ev[n + i] = x
    BY <1>7, <1>8, <1>11 DEF Listed
  <2>2. x \in Listed(state) <=> \E i \in 1..Len(ev) : ev[i] = x
    BY <1>1 DEF Listed, ev
  <2>3. ASSUME NEW i \in 1..(Len(ev) - n)
        PROVE  n + i \in 1..Len(ev) /\ ev[n + i].at >= cutoff
    <3>1. n + i \in 1..Len(ev) /\ n + 1 \in 1..Len(ev) /\ n + 1 <= n + i /\ n < Len(ev)
      BY <1>1, <1>3
    <3>2. ev[n + 1].at <= ev[n + i].at /\ ev[n + 1].at >= cutoff
          /\ ev[n + 1].at \in Nat /\ ev[n + i].at \in Nat
      BY <1>1, <1>3, <1>4, <3>1
    <3> QED BY <3>1, <3>2
  <2>4. ASSUME NEW i \in 1..Len(ev), ev[i].at >= cutoff
        PROVE  i - n \in 1..(Len(ev) - n) /\ n + (i - n) = i
    <3>1. ~(i \in 1..n)
      BY <1>1, <1>3, <2>4
    <3> QED BY <1>1, <1>3, <3>1
  <2> QED BY <2>1, <2>2, <2>3, <2>4
<1> QED BY <1>11, <1>13, <1>14

(* The session state with the query observed now, as Observed builds it.    *)
Adding(state, now, q) ==
  [state EXCEPT !.events = Append(@, [at |-> now, query |-> q]), !.counts[q] = @ + 1]

(* An event observed now comes at the end of the list.                      *)
LEMMA AddedState ==
  ASSUME NEW state, WellFormed(state), NEW now \in Nat, NEW q \in Queries,
         \A x \in Listed(state) : x.at <= now
  PROVE  /\ WellFormed(Adding(state, now, q))
         /\ Listed(Adding(state, now, q)) = Listed(state) \cup {[at |-> now, query |-> q]}
<1> DEFINE ev == state.events
           new == [at |-> now, query |-> q]
           after == [state EXCEPT !.events = Append(@, new), !.counts[q] = @ + 1]
           longer == Append(ev, new)
           counts == [state.counts EXCEPT ![q] = @ + 1]
           n == Len(ev) + 1
<1>1. /\ ev \in Seq(Observation) /\ Len(ev) \in Nat /\ DOMAIN ev = 1..Len(ev)
      /\ \A i \in 1..Len(ev) : ev[i] \in Observation /\ ev[i].at \in Nat
      /\ state.counts \in [Queries -> Nat] /\ state.lastSeen \in Nat
      /\ state = [events |-> ev, counts |-> state.counts, lastSeen |-> state.lastSeen]
  BY StateParts
<1>2. after = [events |-> longer, counts |-> counts, lastSeen |-> state.lastSeen]
  <2>1. after = [[events |-> ev, counts |-> state.counts, lastSeen |-> state.lastSeen]
                   EXCEPT !.events = Append(@, new), !.counts[q] = @ + 1]
    BY <1>1, Zenon
  <2> HIDE DEF new, ev, after
  <2> QED BY <2>1, ObserveExcept
<1>3. new \in Observation
  BY DEF Observation
<1>4. new.at = now /\ new.query = q
  OBVIOUS
<1> HIDE DEF new
<1>5. /\ longer \in Seq(Observation) /\ Len(longer) = n
      /\ \A i \in 1..Len(ev) : longer[i] = ev[i]
      /\ longer[n] = new
  BY <1>1, <1>3, AppendProperties
<1>6. DOMAIN longer = 1..n /\ DOMAIN longer = DOMAIN ev \cup {n} /\ n \notin DOMAIN ev
  BY <1>1, <1>5
<1>7. \A i, j \in DOMAIN ev : i <= j => ev[i].at <= ev[j].at
  BY DEF WellFormed
<1>8. \A i \in DOMAIN ev : ev[i].at <= now /\ ev[i].at \in Nat
  BY <1>1 DEF Listed
<1>9. \A i, j \in DOMAIN longer : i <= j => longer[i].at <= longer[j].at
  BY <1>1, <1>4, <1>5, <1>6, <1>7, <1>8
<1>10. counts \in [Queries -> Nat]
  BY <1>1
<1>11. ASSUME NEW p \in Queries
       PROVE  counts[p] = Cardinality({i \in DOMAIN longer : longer[i].query = p})
  <2> DEFINE P == {i \in DOMAIN ev : ev[i].query = p}
  <2>1. state.counts[p] = Cardinality(P)
    BY DEF WellFormed
  <2>2. IsFiniteSet(P) /\ n \notin P
    <3>1. P \in SUBSET (1..Len(ev)) /\ n \notin P
      BY <1>1
    <3>2. 1 \in Int /\ Len(ev) \in Int
      BY <1>1
    <3>3. IsFiniteSet(1..Len(ev))
      BY <3>2, FS_Interval
    <3> QED BY <3>1, <3>3, FS_Subset
  <2>3. {i \in DOMAIN longer : longer[i].query = p} = IF p = q THEN P \cup {n} ELSE P
    BY <1>1, <1>4, <1>5, <1>6
  <2> HIDE DEF P
  <2>4. Cardinality(P \cup {n}) = Cardinality(P) + 1
    BY <2>2, FS_AddElement
  <2>5. counts[p] = IF p = q THEN state.counts[p] + 1 ELSE state.counts[p]
    BY <1>1
  <2> QED BY <2>1, <2>3, <2>4, <2>5
<1> HIDE DEF longer, counts, ev
<1>12. after.events = longer /\ after.counts = counts /\ after \in SessionState
  BY <1>1, <1>2, <1>5, <1>10 DEF SessionState
<1>13. WellFormed(after)
  BY <1>9, <1>11, <1>12 DEF WellFormed
<1>14. Listed(after) = Listed(state) \cup {new}
  <2>1. Listed(after) = {longer[i] : i \in DOMAIN longer}
    BY <1>12 DEF Listed
  <2>2. Listed(state) = {ev[i] : i \in DOMAIN ev}
    BY DEF Listed, ev
  <2>3. \A i \in DOMAIN longer :
          (i \in DOMAIN ev /\ longer[i] = ev[i]) \/ (i = n /\ longer[i] = new)
    BY <1>1, <1>5, <1>6
  <2>4. /\ \A i \in DOMAIN ev : i \in DOMAIN longer /\ longer[i] = ev[i]
        /\ n \in DOMAIN longer /\ longer[n] = new
    BY <1>1, <1>5, <1>6
  <2> HIDE DEF n, after
  <2> QED BY <2>1, <2>2, <2>3, <2>4
<1>15. after = Adding(state, now, q) /\ new = [at |-> now, query |-> q]
  BY DEF Adding, new
<1> HIDE DEF after
<1> QED BY <1>13, <1>14, <1>15, Zenon

LEMMA NoStateWellFormed ==
  WellFormed(NoState) /\ Listed(NoState) = {} /\ Distinct(NoState) = {}
<1>1. NoState.events = <<>> /\ NoState.counts = [q \in Queries |-> 0]
      /\ NoState \in SessionState
  BY DEF NoState, SessionState
<1>2. DOMAIN NoState.events = {}
  BY <1>1
<1>3. Cardinality({}) = 0
  BY FS_EmptySet
<1>4. Listed(NoState) = {}
  BY <1>2 DEF Listed
<1>5. Distinct(NoState) = {}
  BY <1>1 DEF Distinct
<1>6. \A q \in Queries : {i \in DOMAIN NoState.events : NoState.events[i].query = q} = {}
  BY <1>2
<1> QED BY <1>1, <1>2, <1>3, <1>4, <1>5, <1>6 DEF WellFormed

(* When it was last seen does not matter to the list.                       *)
LEMMA SeenState ==
  ASSUME NEW state, WellFormed(state), NEW t \in Nat
  PROVE  LET seen == [state EXCEPT !.lastSeen = t]
         IN  WellFormed(seen) /\ Listed(seen) = Listed(state)
<1> DEFINE seen == [state EXCEPT !.lastSeen = t]
<1>1. seen \in SessionState /\ seen.events = state.events /\ seen.counts = state.counts
  BY DEF WellFormed, SessionState
<1> HIDE DEF seen
<1> QED BY <1>1 DEF WellFormed, Listed, seen
-----------------------------------------------------------------------------
(* The memory as the cleanup leaves it stands for the same log.             *)
LEMMA LimitsNat ==
  /\ {IPBlock, ContributionWindow, SessionBlock, EntropyWindow, MaxUnique} \subseteq Nat
  /\ IPBlock \in Nat /\ ContributionWindow \in Nat /\ SessionBlock \in Nat
  /\ EntropyWindow \in Nat /\ MaxUnique \in Nat
BY AntiFraudAssumption

LEMMA LogFacts ==
  ASSUME IInv
  PROVE  /\ clock \in Nat
         /\ \A i \in DOMAIN log : /\ log[i].at \in Nat /\ log[i].at <= clock
                                  /\ log[i].event \in Event /\ log[i].event.query \in Queries
<1>1. \A i \in DOMAIN log : log[i].at \in Nat /\ log[i].event \in Event
  BY EntriesTyped DEF IInv
<1> QED BY <1>1 DEF IInv, MemoryOK, LogOK, Event

LEMMA EndsAreTimes ==
  ASSUME IInv
  PROVE  \A x : /\ IPBlockEnds(x) \in SUBSET Nat /\ SessionBlockEnds(x) \in SUBSET Nat
                /\ VoteEnds(x) \in SUBSET Nat
BY LogFacts, LimitsNat DEF IPBlockEnds, SessionBlockEnds, VoteEnds

LEMMA UnexpiredTracks ==
  ASSUME NEW v \in Nat, NEW U \in SUBSET Nat, clock \in Nat, Tracks(v, U, clock)
  PROVE  Unexpired(v) \in Nat /\ Tracks(Unexpired(v), U, clock)
<1>1. CASE v > clock
  BY <1>1 DEF Unexpired
<1>2. CASE ~(v > clock)
  BY <1>2, TracksForgotten DEF Unexpired
<1> QED BY <1>1, <1>2

LEMMA CleanedTracks ==
  ASSUME IInv, Exact
  PROVE  /\ IPBlocks \in [IPs -> Nat]
         /\ \A ip \in IPs : Tracks(IPBlocks[ip], IPBlockEnds(ip), clock)
         /\ SessionBlocks \in [Sessions -> Nat]
         /\ \A s \in Sessions : Tracks(SessionBlocks[s], SessionBlockEnds(s), clock)
         /\ Contributions \in [Identities \X Queries -> Nat]
         /\ \A k \in Identities \X Queries : Tracks(Contributions[k], VoteEnds(k), clock)
<1>1. clock \in Nat
  BY LogFacts
<1>2. /\ IPBlocks \in [IPs -> Nat]
      /\ \A ip \in IPs : Tracks(IPBlocks[ip], IPBlockEnds(ip), clock)
  <2>1. /\ ipBlockedUntil \in [IPs -> Nat]
        /\ \A ip \in IPs : Tracks(ipBlockedUntil[ip], IPBlockEnds(ip), clock)
    BY DEF IInv, MemoryOK, Exact, IPsTracked
  <2>2. \A ip \in IPs : LET v == Unexpired(ipBlockedUntil[ip])
                        IN  v \in Nat /\ Tracks(v, IPBlockEnds(ip), clock)
    BY <1>1, <2>1, EndsAreTimes, UnexpiredTracks
  <2> QED BY <2>1, <2>2 DEF IPBlocks
<1>3. /\ SessionBlocks \in [Sessions -> Nat]
      /\ \A s \in Sessions : Tracks(SessionBlocks[s], SessionBlockEnds(s), clock)
  <2>1. /\ sessionBlockedUntil \in [Sessions -> Nat]
        /\ \A s \in Sessions : Tracks(sessionBlockedUntil[s], SessionBlockEnds(s), clock)
    BY DEF Exact, SessionsTracked
  <2>2. \A s \in Sessions : LET v == Unexpired(sessionBlockedUntil[s])
                            IN  v \in Nat /\ Tracks(v, SessionBlockEnds(s), clock)
    BY <1>1, <2>1, EndsAreTimes, UnexpiredTracks
  <2> QED BY <2>1, <2>2 DEF SessionBlocks
<1>4. /\ Contributions \in [Identities \X Queries -> Nat]
      /\ \A k \in Identities \X Queries : Tracks(Contributions[k], VoteEnds(k), clock)
  <2> DEFINE D == Identities \X Queries
  <2>1. /\ contributionSeen \in [D -> Nat]
        /\ \A k \in D : Tracks(contributionSeen[k], VoteEnds(k), clock)
    BY DEF IInv, MemoryOK, Exact, VotesTracked
  <2>2. Contributions = contributionSeen
          \/ Contributions = [k \in D |-> Unexpired(contributionSeen[k])]
    BY DEF Contributions
  <2> HIDE DEF D
  <2>3. \A k \in D : LET v == Unexpired(contributionSeen[k])
                     IN  v \in Nat /\ Tracks(v, VoteEnds(k), clock)
    BY <1>1, <2>1, EndsAreTimes, UnexpiredTracks
  <2>4. /\ Contributions \in [D -> Nat]
        /\ \A k \in D : Tracks(Contributions[k], VoteEnds(k), clock)
    BY <2>1, <2>2, <2>3
  <2> QED BY <2>4 DEF D
<1> QED BY <1>2, <1>3, <1>4

(* Pruning and cleaning up forget nothing of the window.                    *)
LEMMA PrunedRemembers ==
  ASSUME IInv, NEW s, NEW state, WellFormed(state), Remembers(state, s)
  PROVE  /\ WellFormed(Pruned(state, clock - EntropyWindow))
         /\ Remembers(Pruned(state, clock - EntropyWindow), s)
         /\ Listed(Pruned(state, clock - EntropyWindow))
              = {x \in Logged(s) : x.at >= clock - EntropyWindow}
         /\ Distinct(Pruned(state, clock - EntropyWindow)) \subseteq Distinct(state)
<1> DEFINE cutoff == clock - EntropyWindow
           left == Pruned(state, cutoff)
<1>1. cutoff \in Int
  BY LogFacts, LimitsNat
<1> HIDE DEF cutoff
<1>2. WellFormed(left) /\ Listed(left) = {x \in Listed(state) : x.at >= cutoff}
  BY <1>1, PrunedState
<1> HIDE DEF left
<1>3. Listed(left) = {x \in Logged(s) : x.at >= cutoff}
  BY <1>2 DEF Remembers, cutoff
<1>4. Distinct(left) \subseteq Distinct(state)
  BY <1>2, DistinctListed
<1>5. Remembers(left, s)
  BY <1>3 DEF Remembers, cutoff
<1> QED BY <1>2, <1>3, <1>4, <1>5 DEF left, cutoff

LEMMA CleanedSession ==
  ASSUME IInv, NEW s, NEW state, WellFormed(state), Remembers(state, s),
         Cardinality(Distinct(state)) <= MaxUnique
  PROVE  /\ WellFormed(CleanEntropy(state)) /\ Remembers(CleanEntropy(state), s)
         /\ Cardinality(Distinct(CleanEntropy(state))) <= MaxUnique
<1> DEFINE left == Pruned(state, clock - EntropyWindow)
<1>1. /\ WellFormed(left) /\ Remembers(left, s)
      /\ Listed(left) = {x \in Logged(s) : x.at >= clock - EntropyWindow}
      /\ Distinct(left) \subseteq Distinct(state)
  BY PrunedRemembers
<1>2. CleanEntropy(state) = left
        \/ (Distinct(left) = {} /\ CleanEntropy(state) = NoState)
  BY DEF CleanEntropy
<1> HIDE DEF left
<1>3. Cardinality(Distinct(left)) <= MaxUnique
  <2>1. IsFiniteSet(Distinct(state)) /\ Cardinality(Distinct(state)) \in Nat
        /\ Cardinality(Distinct(left)) \in Nat
    BY <1>1, DistinctListed
  <2>2. Cardinality(Distinct(left)) <= Cardinality(Distinct(state))
    BY <1>1, <2>1, FS_Subset
  <2> QED BY <2>1, <2>2, LimitsNat
<1>4. CASE CleanEntropy(state) = left
  BY <1>1, <1>3, <1>4
<1>5. CASE Distinct(left) = {} /\ CleanEntropy(state) = NoState
  <2>1. Listed(left) = {}
    BY <1>1, <1>5, DistinctListed
  <2>2. Remembers(NoState, s)
    BY <1>1, <2>1, NoStateWellFormed DEF Remembers
  <2>3. Cardinality(Distinct(NoState)) <= MaxUnique
    BY NoStateWellFormed, FS_EmptySet, LimitsNat
  <2> QED BY <1>5, <2>2, <2>3, NoStateWellFormed
<1> QED BY <1>2, <1>4, <1>5

LEMMA CleanedSessions ==
  ASSUME IInv, Exact
  PROVE  /\ Entropies \in [Sessions -> SessionState]
         /\ \A s \in Sessions : /\ WellFormed(Entropies[s]) /\ Remembers(Entropies[s], s)
                                /\ Cardinality(Distinct(Entropies[s])) <= MaxUnique
<1>1. /\ sessionEntropy \in [Sessions -> SessionState]
      /\ \A s \in Sessions : /\ WellFormed(sessionEntropy[s]) /\ Remembers(sessionEntropy[s], s)
                             /\ Cardinality(Distinct(sessionEntropy[s])) <= MaxUnique
  BY DEF Exact, SessionsExact
<1>2. ASSUME NEW s \in Sessions
      PROVE  LET state == CleanEntropy(sessionEntropy[s])
             IN  /\ WellFormed(state) /\ Remembers(state, s) /\ state \in SessionState
                 /\ Cardinality(Distinct(state)) <= MaxUnique
  <2> DEFINE old == sessionEntropy[s]
  <2>1. WellFormed(old) /\ Remembers(old, s) /\ Cardinality(Distinct(old)) <= MaxUnique
    BY <1>1
  <2> HIDE DEF old
  <2>2. /\ WellFormed(CleanEntropy(old)) /\ Remembers(CleanEntropy(old), s)
        /\ Cardinality(Distinct(CleanEntropy(old))) <= MaxUnique
    BY <2>1, CleanedSession
  <2>3. CleanEntropy(old) \in SessionState
    BY <2>2 DEF WellFormed
  <2> QED BY <2>2, <2>3 DEF old
<1>3. Entropies = sessionEntropy
        \/ Entropies = [s \in Sessions |-> CleanEntropy(sessionEntropy[s])]
  BY DEF Entropies
<1> QED BY <1>1, <1>2, <1>3

(* The session's list with this event: what the policy looks at.            *)
LEMMA ObservedSession ==
  ASSUME IInv, Exact, NEW e \in Event, Identified(e)
  PROVE  /\ WellFormed(Observed(e))
         /\ Listed(Observed(e))
              = {x \in Logged(e.session) : x.at >= clock - EntropyWindow}
                  \cup {[at |-> clock, query |-> e.query]}
<1> DEFINE s == e.session
           seen == [Entropies[s] EXCEPT !.lastSeen = clock]
           left == Pruned(seen, clock - EntropyWindow)
           new == [at |-> clock, query |-> e.query]
<1>1. s \in Sessions /\ e.query \in Queries /\ clock \in Nat
  BY LogFacts DEF Event, Identified
<1>2. WellFormed(Entropies[s]) /\ Remembers(Entropies[s], s)
  BY <1>1, CleanedSessions
<1>3. WellFormed(seen) /\ Listed(seen) = Listed(Entropies[s])
  BY <1>1, <1>2, SeenState
<1>4. Observed(e) = Adding(left, clock, e.query)
  BY DEF Observed, Adding
<1> HIDE DEF seen, s
<1>5. Remembers(seen, s)
  BY <1>2, <1>3 DEF Remembers
<1>6. /\ WellFormed(left)
      /\ Listed(left) = {x \in Logged(s) : x.at >= clock - EntropyWindow}
  BY <1>3, <1>5, PrunedRemembers
<1>7. \A x \in Listed(left) : x.at <= clock
  BY <1>6, LogFacts DEF Logged, Current
<1> HIDE DEF left
<1>8. /\ WellFormed(Adding(left, clock, e.query))
      /\ Listed(Adding(left, clock, e.query)) = Listed(left) \cup {new}
  BY <1>1, <1>6, <1>7, AddedState, Zenon
<1> QED BY <1>4, <1>6, <1>8 DEF s
-----------------------------------------------------------------------------
(* What the rules find in the memory is what the policy finds in the log.   *)
LEMMA SameCardinality == \A S : Abs!Cardinality(S) = Cardinality(S)
BY DEF Abs!Cardinality, Cardinality, Abs!IsFiniteSet, IsFiniteSet

LEMMA SameIPBlock ==
  ASSUME IInv, Exact, NEW e \in Event, Identified(e)
  PROVE  Abs!IPIsBlocked(e) <=> IPBlocks[e.ip] > clock
<1>1. e.ip \in IPs /\ clock \in Nat
  BY LogFacts DEF Event, Identified
<1>2. IPBlocks[e.ip] > clock <=> \E u \in IPBlockEnds(e.ip) : u > clock
  BY <1>1, CleanedTracks, EndsAreTimes, TracksExactly
<1> QED BY <1>2 DEF IPBlockEnds, Abs!IPIsBlocked, Abs!With

LEMMA SameSessionBlock ==
  ASSUME IInv, Exact, NEW e \in Event, Identified(e)
  PROVE  Abs!SessionIsBlocked(e) <=> SessionBlocks[e.session] > clock
<1>1. e.session \in Sessions /\ clock \in Nat
  BY LogFacts DEF Event, Identified
<1>2. SessionBlocks[e.session] > clock <=> \E u \in SessionBlockEnds(e.session) : u > clock
  BY <1>1, CleanedTracks, EndsAreTimes, TracksExactly
<1> QED BY <1>2 DEF SessionBlockEnds, Abs!SessionIsBlocked, Abs!With

LEMMA SameVotes ==
  ASSUME IInv, Exact, NEW e \in Event, Identified(e)
  PROVE  Abs!Contributed(e) <=> HasVoted(e)
<1> DEFINE k(key) == <<key, e.query>>
<1>1. \A key \in identityKeys(e) : k(key) \in Identities \X Queries
  BY KeysAreIdentities
<1>2. \A key \in identityKeys(e) :
        Contributions[k(key)] > clock <=> \E u \in VoteEnds(k(key)) : u > clock
  <2> SUFFICES ASSUME NEW key \in identityKeys(e)
               PROVE  Contributions[k(key)] > clock <=> \E u \in VoteEnds(k(key)) : u > clock
    OBVIOUS
  <2> DEFINE kk == k(key)
             D == Identities \X Queries
  <2>1. kk \in D /\ clock \in Nat
    BY <1>1, LogFacts
  <2>2. Contributions \in [D -> Nat] /\ Tracks(Contributions[kk], VoteEnds(kk), clock)
    BY <2>1, CleanedTracks
  <2> HIDE DEF kk, D
  <2>3. Contributions[kk] \in Nat /\ VoteEnds(kk) \in SUBSET Nat
    BY <2>1, <2>2, EndsAreTimes
  <2>4. Contributions[kk] > clock <=> \E u \in VoteEnds(kk) : u > clock
    BY <2>1, <2>2, <2>3, TracksExactly
  <2> QED BY <2>4 DEF kk
<1>3. \A key : (\E u \in VoteEnds(k(key)) : u > clock)
        <=> \E i \in DOMAIN log : /\ log[i].verdict \in {"ok", "entropy"}
                                  /\ key \in identityKeys(log[i].event)
                                  /\ log[i].event.query = e.query
                                  /\ log[i].at + ContributionWindow > clock
  BY DEF VoteEnds
<1>4. \A f : Abs!Ids(f) = identityKeys(f)
  BY DEF Abs!Ids, identityKeys
<1>5. Abs!Contributed(e)
        <=> \E key \in identityKeys(e) :
              \E i \in DOMAIN log : /\ log[i].verdict \in {"ok", "entropy"}
                                    /\ key \in identityKeys(log[i].event)
                                    /\ log[i].event.query = e.query
                                    /\ log[i].at + ContributionWindow > clock
  BY <1>4 DEF Abs!Contributed, Abs!With
<1> QED BY <1>2, <1>3, <1>5 DEF HasVoted

LEMMA RequestsFinite ==
  ASSUME IInv
  PROVE  \A ip, minute : /\ IsFiniteSet(RequestsIn(ip, minute))
                         /\ Cardinality(RequestsIn(ip, minute)) \in Nat
<1> SUFFICES ASSUME NEW ip, NEW minute
             PROVE  /\ IsFiniteSet(RequestsIn(ip, minute))
                    /\ Cardinality(RequestsIn(ip, minute)) \in Nat
  OBVIOUS
<1>1. Len(log) \in Nat /\ DOMAIN log = 1..Len(log)
  BY DEF IInv, LogOK
<1>2. RequestsIn(ip, minute) \in SUBSET (1..Len(log)) /\ IsFiniteSet(1..Len(log))
  BY <1>1, FS_Interval DEF RequestsIn
<1> QED BY <1>2, FS_Subset, FS_CardinalityType

(* The counters, set back when the minute has changed, count this minute.   *)
LEMMA CountersNow ==
  ASSUME IInv, Exact, NEW ip \in IPs
  PROVE  (IF bucketMin = clock \div Minute THEN counters[ip] ELSE 0)
           = Cardinality(RequestsIn(ip, clock \div Minute))
<1>1. PICK now \in Nat : now = clock \div Minute
  BY DivMonotone, LogFacts
<1>2. bucketMin \in Nat /\ bucketMin <= now
  BY <1>1 DEF IInv, MemoryOK
<1>3. CASE bucketMin = now
  BY <1>1, <1>3 DEF Exact, CountersExact
<1>4. CASE bucketMin # now
  <2>1. RequestsIn(ip, now) = {}
    <3> SUFFICES ASSUME NEW j \in RequestsIn(ip, now) PROVE FALSE
      OBVIOUS
    <3>1. log[j].at \div Minute = now /\ log[j].at \div Minute <= bucketMin
      BY DEF RequestsIn, Exact, CountersExact
    <3> QED BY <1>2, <1>4, <3>1
  <2> QED BY <1>1, <1>4, <2>1, FS_EmptySet
<1> QED BY <1>3, <1>4

LEMMA SameRequests ==
  ASSUME IInv, Exact, NEW e \in Event, Identified(e)
  PROVE  Abs!Requests(e) = Counted(e.ip)[e.ip]
<1>1. e.ip \in IPs
  BY KeysAreIdentities
<1>2. Counted(e.ip)[e.ip] = Cardinality(RequestsIn(e.ip, clock \div Minute)) + 1
  BY <1>1, CountersNow, CountedTyped DEF IInv
<1>3. Abs!Requests(e) = 1 + Cardinality(RequestsIn(e.ip, clock \div Minute))
  <2>1. {i \in Abs!With({"ok", "cap", "entropy", "ip_rate"}) :
           /\ log[i].event.ip = e.ip
           /\ log[i].at \div Minute = clock \div Minute}
          = RequestsIn(e.ip, clock \div Minute)
    BY DEF Abs!With, RequestsIn
  <2> QED BY <2>1, SameCardinality, Zenon DEF Abs!Requests
<1>4. Cardinality(RequestsIn(e.ip, clock \div Minute)) \in Nat
  BY RequestsFinite
<1> QED BY <1>2, <1>3, <1>4

LEMMA SameQueries ==
  ASSUME IInv, Exact, NEW e \in Event, Identified(e)
  PROVE  Abs!SessionQueries(e) = Distinct(Observed(e))
<1> DEFINE new == [at |-> clock, query |-> e.query]
           Recent == {x \in Logged(e.session) : x.at >= clock - EntropyWindow}
<1>1. WellFormed(Observed(e)) /\ Listed(Observed(e)) = Recent \cup {new}
  BY ObservedSession
<1>2. Distinct(Observed(e)) = {x.query : x \in Listed(Observed(e))}
  BY <1>1, DistinctListed
<1>3. Abs!SessionQueries(e)
        = {e.query} \cup {log[i].event.query :
                            i \in {j \in Current(e.session) : log[j].at >= clock - EntropyWindow}}
  <2>1. {j \in Abs!With({"ok"}) :
           /\ log[j].event.session = e.session
           /\ log[j].at >= clock - EntropyWindow
           /\ ~\E k \in Abs!With({"entropy"}) : k > j /\ log[k].event.session = e.session}
          = {j \in Current(e.session) : log[j].at >= clock - EntropyWindow}
    BY DEF Current, Abs!With
  <2> QED BY <2>1 DEF Abs!SessionQueries
<1>4. \A q : q \in {x.query : x \in Recent}
        <=> \E j \in Current(e.session) : log[j].at >= clock - EntropyWindow
                                            /\ log[j].event.query = q
  <2> DEFINE entry(j) == [at |-> log[j].at, query |-> log[j].event.query]
  <2>1. \A j : entry(j).at = log[j].at /\ entry(j).query = log[j].event.query
    OBVIOUS
  <2>2. \A x : x \in Recent <=> \E j \in Current(e.session) :
                                 x = entry(j) /\ x.at >= clock - EntropyWindow
    BY DEF Logged
  <2> HIDE DEF entry, Recent
  <2> QED BY <2>1, <2>2
<1>5. new.query = e.query
  OBVIOUS
<1> HIDE DEF new, Recent
<1>6. {x.query : x \in Recent \cup {new}} = {x.query : x \in Recent} \cup {e.query}
  BY <1>5
<1> QED BY <1>1, <1>2, <1>3, <1>4, <1>6
-----------------------------------------------------------------------------
(* What every return after the check of the identifiers has done.           *)
Answered(e, v) ==
  /\ Identified(e)
  /\ log' = Append(log, [event |-> e, at |-> clock, verdict |-> v])
  /\ clock' = clock /\ lastCleanupAt' \in {lastCleanupAt, clock}
  /\ v \notin {"ip_blocked"} => IPBlocks[e.ip] <= clock
  /\ v \notin {"ip_blocked", "session_blocked"} => SessionBlocks[e.session] <= clock
  /\ v \in {"ok", "entropy"} => ~HasVoted(e)
  /\ v = "ok" => Cardinality(Distinct(Observed(e))) <= MaxUnique
  /\ ipBlockedUntil' = IF v = "ip_rate" THEN [IPBlocks EXCEPT ![e.ip] = clock + IPBlock]
                                        ELSE IPBlocks
  /\ sessionBlockedUntil' =
       IF v = "entropy" THEN [SessionBlocks EXCEPT ![e.session] = clock + SessionBlock]
                        ELSE SessionBlocks
  /\ contributionSeen' = IF v \in {"ok", "entropy"} THEN Recorded(e) ELSE Contributions
  /\ sessionEntropy' = IF v = "ok" THEN [Entropies EXCEPT ![e.session] = Observed(e)]
                       ELSE IF v = "entropy" THEN BlockedEntropy(e) ELSE Entropies
  /\ IF v \in {"ok", "cap", "entropy", "ip_rate"}
     THEN bucketMin' = clock \div Minute /\ counters' = Counted(e.ip)
     ELSE UNCHANGED <<bucketMin, counters>>

LEMMA CleanupTime == Cleanup => lastCleanupAt' \in {lastCleanupAt, clock}
BY DEF Cleanup

(* Every return but the first, with the verdict the policy gives.           *)
LEMMA EvaluateAnswers ==
  ASSUME IInv, Exact, NEW e \in Event, Evaluate(e)
  PROVE  \/ MissingIdentifiers(e) /\ Abs!Verdict(e) = "missing"
         \/ \E v \in Verdicts \ {"missing"} : Answered(e, v) /\ Abs!Verdict(e) = v
<1>1. CASE MissingIdentifiers(e)
  BY <1>1 DEF MissingIdentifiers, Abs!Verdict
<1>2. ASSUME Identified(e)
      PROVE  Abs!Verdict(e) =
               IF IPBlocks[e.ip] > clock THEN "ip_blocked"
               ELSE IF SessionBlocks[e.session] > clock THEN "session_blocked"
               ELSE IF Counted(e.ip)[e.ip] > MaxRequests THEN "ip_rate"
               ELSE IF HasVoted(e) THEN "cap"
               ELSE IF Cardinality(Distinct(Observed(e))) > MaxUnique THEN "entropy"
               ELSE "ok"
  <2>1. ~(e.ip = NoId \/ e.session = NoId)
    BY <1>2 DEF Identified
  <2>2. Abs!Verdict(e) =
          IF Abs!IPIsBlocked(e) THEN "ip_blocked"
          ELSE IF Abs!SessionIsBlocked(e) THEN "session_blocked"
          ELSE IF Abs!Requests(e) > MaxRequests THEN "ip_rate"
          ELSE IF Abs!Contributed(e) THEN "cap"
          ELSE IF Cardinality(Abs!SessionQueries(e)) > MaxUnique THEN "entropy"
          ELSE "ok"
    BY <2>1, SameCardinality, Zenon DEF Abs!Verdict
  <2>3. /\ Abs!IPIsBlocked(e) <=> IPBlocks[e.ip] > clock
        /\ Abs!SessionIsBlocked(e) <=> SessionBlocks[e.session] > clock
        /\ Abs!Requests(e) = Counted(e.ip)[e.ip]
        /\ Abs!Contributed(e) <=> HasVoted(e)
        /\ Abs!SessionQueries(e) = Distinct(Observed(e))
    BY <1>2, SameIPBlock, SameSessionBlock, SameRequests, SameVotes, SameQueries
  <2> QED BY <2>2, <2>3, Zenon
<1>3. ASSUME Identified(e)
      PROVE  /\ ~(IPBlocks[e.ip] <= clock /\ IPBlocks[e.ip] > clock)
             /\ ~(SessionBlocks[e.session] <= clock /\ SessionBlocks[e.session] > clock)
             /\ ~(Counted(e.ip)[e.ip] <= MaxRequests /\ Counted(e.ip)[e.ip] > MaxRequests)
             /\ LET n == Cardinality(Distinct(Observed(e)))
                IN  ~(n <= MaxUnique /\ n > MaxUnique)
  <2>1. e.ip \in IPs /\ e.session \in Sessions /\ clock \in Nat
        /\ MaxRequests \in Nat /\ MaxUnique \in Nat
    BY <1>3, LogFacts, AntiFraudAssumption DEF Event, Identified
  <2>2. IPBlocks[e.ip] \in Nat /\ SessionBlocks[e.session] \in Nat
    BY <2>1, CleanedTracks
  <2>3. Counted(e.ip)[e.ip] \in Nat
    BY <2>1, CountedTyped DEF IInv
  <2>4. Cardinality(Distinct(Observed(e))) \in Nat
    BY <1>3, ObservedSession, DistinctListed
  <2> QED BY <2>1, <2>2, <2>3, <2>4
<1>4. CASE IPBlocked(e)
  <2>1. Answered(e, "ip_blocked")
    BY <1>4, CleanupTime DEF IPBlocked, Answered, Return
  <2> QED BY <1>2, <1>4, <2>1 DEF IPBlocked, Verdicts
<1>5. CASE SessionBlocked(e)
  <2>1. Answered(e, "session_blocked")
    BY <1>5, CleanupTime DEF SessionBlocked, Answered, Return
  <2> QED BY <1>2, <1>3, <1>5, <2>1 DEF SessionBlocked, Verdicts
<1>6. CASE OverRate(e)
  <2>1. Answered(e, "ip_rate")
    BY <1>6, CleanupTime DEF OverRate, Count, Answered, Return
  <2> QED BY <1>2, <1>3, <1>6, <2>1 DEF OverRate, Count, Verdicts
<1>7. CASE OverCap(e)
  <2>1. Answered(e, "cap")
    BY <1>7, CleanupTime DEF OverCap, Count, Answered, Return
  <2> QED BY <1>2, <1>3, <1>7, <2>1 DEF OverCap, Count, Verdicts
<1>8. CASE OverEntropy(e)
  <2>1. Answered(e, "entropy")
    BY <1>8, CleanupTime DEF OverEntropy, Count, Answered, Return
  <2> QED BY <1>2, <1>3, <1>8, <2>1 DEF OverEntropy, Count, Verdicts
<1>9. CASE Accept(e)
  <2>1. Answered(e, "ok")
    BY <1>9, CleanupTime DEF Accept, Count, Answered, Return
  <2> QED BY <1>2, <1>3, <1>9, <2>1 DEF Accept, Count, Verdicts
<1> QED BY <1>1, <1>4, <1>5, <1>6, <1>7, <1>8, <1>9 DEF Evaluate
-----------------------------------------------------------------------------
(* The log grows by one entry, and with it what the memory stands for.      *)
LEMMA EntryAdded ==
  ASSUME IInv, NEW e \in Event, NEW v \in Verdicts,
         log' = Append(log, [event |-> e, at |-> clock, verdict |-> v])
  PROVE  \E n \in Nat : Grown(e, v, n)
<1> DEFINE new == [event |-> e, at |-> clock, verdict |-> v]
           n == Len(log) + 1
<1>1. log \in Seq(Entry) /\ new \in Entry /\ log' = Append(log, new)
  BY DEF IInv, LogOK, MemoryOK, Entry
<1>2. new.at = clock /\ new.verdict = v /\ new.event = e
  OBVIOUS
<1>3. Len(log) \in Nat /\ DOMAIN log = 1..Len(log)
  BY <1>1
<1> HIDE DEF new
<1>4. /\ log' \in Seq(Entry) /\ Len(log') = n
      /\ \A i \in 1..Len(log) : log'[i] = log[i]
      /\ log'[n] = new
  BY <1>1, AppendProperties
<1>5. DOMAIN log' = 1..n
  BY <1>4
<1>6. n \in Nat /\ Grown(e, v, n)
  BY <1>2, <1>3, <1>4, <1>5 DEF Grown
<1> QED BY <1>6

LEMMA EndsGrow ==
  ASSUME NEW e, NEW v, NEW n, Grown(e, v, n), NEW x
  PROVE  /\ IPBlockEnds(x)' = IF v = "ip_rate" /\ e.ip = x
                              THEN IPBlockEnds(x) \cup {clock + IPBlock} ELSE IPBlockEnds(x)
         /\ SessionBlockEnds(x)' = IF v = "entropy" /\ e.session = x
                                   THEN SessionBlockEnds(x) \cup {clock + SessionBlock}
                                   ELSE SessionBlockEnds(x)
         /\ VoteEnds(x)' = IF v \in {"ok", "entropy"} /\ x[1] \in identityKeys(e) /\ e.query = x[2]
                           THEN VoteEnds(x) \cup {clock + ContributionWindow} ELSE VoteEnds(x)
<1>1. /\ DOMAIN log' = DOMAIN log \cup {n} /\ n \notin DOMAIN log
      /\ \A i \in DOMAIN log : log'[i] = log[i]
      /\ log'[n].event = e /\ log'[n].at = clock /\ log'[n].verdict = v
  BY DEF Grown
<1>2. IPBlockEnds(x)' = IF v = "ip_rate" /\ e.ip = x
                        THEN IPBlockEnds(x) \cup {clock + IPBlock} ELSE IPBlockEnds(x)
  BY <1>1 DEF IPBlockEnds
<1>3. SessionBlockEnds(x)' = IF v = "entropy" /\ e.session = x
                             THEN SessionBlockEnds(x) \cup {clock + SessionBlock}
                             ELSE SessionBlockEnds(x)
  BY <1>1 DEF SessionBlockEnds
<1>4. VoteEnds(x)' = IF v \in {"ok", "entropy"} /\ x[1] \in identityKeys(e) /\ e.query = x[2]
                     THEN VoteEnds(x) \cup {clock + ContributionWindow} ELSE VoteEnds(x)
  BY <1>1 DEF VoteEnds, identityKeys
<1> QED BY <1>2, <1>3, <1>4

LEMMA RequestsGrow ==
  ASSUME NEW e, NEW v, NEW n, Grown(e, v, n), NEW ip, NEW minute
  PROVE  /\ n \notin RequestsIn(ip, minute)
         /\ RequestsIn(ip, minute)' =
              IF v \in {"ok", "cap", "entropy", "ip_rate"} /\ e.ip = ip /\ clock \div Minute = minute
              THEN RequestsIn(ip, minute) \cup {n} ELSE RequestsIn(ip, minute)
BY DEF Grown, RequestsIn

LEMMA LoggedGrows ==
  ASSUME NEW e, NEW v \in Verdicts, NEW n \in Nat, Grown(e, v, n), NEW s
  PROVE  Logged(s)' =
           IF v = "ok" /\ e.session = s
           THEN Logged(s) \cup {[at |-> clock, query |-> e.query]}
           ELSE IF v = "entropy" /\ e.session = s THEN {} ELSE Logged(s)
<1>1. /\ DOMAIN log' = DOMAIN log \cup {n} /\ n \notin DOMAIN log
      /\ \A i \in DOMAIN log : i \in Nat /\ n > i /\ ~(i > n) /\ log'[i] = log[i]
      /\ log'[n].event = e /\ log'[n].at = clock /\ log'[n].verdict = v /\ ~(n > n)
  BY DEF Grown
<1>2. Current(s)' = IF v = "ok" /\ e.session = s THEN Current(s) \cup {n}
                    ELSE IF v = "entropy" /\ e.session = s THEN {} ELSE Current(s)
  <2>1. CASE v = "entropy" /\ e.session = s
    BY <1>1, <2>1 DEF Current
  <2>2. CASE ~(v = "entropy" /\ e.session = s)
    <3>1. ASSUME NEW j \in DOMAIN log
          PROVE  j \in Current(s)' <=> j \in Current(s)
      BY <1>1, <2>2 DEF Current
    <3>2. n \in Current(s)' <=> v = "ok" /\ e.session = s
      BY <1>1, <2>2 DEF Current
    <3>3. Current(s)' \subseteq DOMAIN log \cup {n} /\ Current(s) \subseteq DOMAIN log
      BY <1>1 DEF Current
    <3> QED BY <1>1, <2>2, <3>1, <3>2, <3>3
  <2> QED BY <2>1, <2>2
<1>3. Current(s) \subseteq DOMAIN log
  BY DEF Current
<1>4. Logged(s)' = {[at |-> log'[j].at, query |-> log'[j].event.query] : j \in Current(s)'}
  BY DEF Logged
<1>5. \A j \in Current(s) : [at |-> log'[j].at, query |-> log'[j].event.query]
                              = [at |-> log[j].at, query |-> log[j].event.query]
  BY <1>1, <1>3
<1>6. [at |-> log'[n].at, query |-> log'[n].event.query] = [at |-> clock, query |-> e.query]
  BY <1>1
<1>7. CASE v = "ok" /\ e.session = s
  <2>1. Current(s)' = Current(s) \cup {n}
    BY <1>2, <1>7
  <2> DEFINE old(j) == [at |-> log[j].at, query |-> log[j].event.query]
             now(j) == [at |-> log'[j].at, query |-> log'[j].event.query]
             new == [at |-> clock, query |-> e.query]
  <2>2. Logged(s)' = {now(j) : j \in Current(s)'} /\ Logged(s) = {old(j) : j \in Current(s)}
    BY DEF Logged
  <2>3. now(n) = new /\ \A j \in Current(s) : now(j) = old(j)
    BY <1>5, <1>6
  <2> HIDE DEF old, now, new
  <2>4. Logged(s)' = Logged(s) \cup {new}
    BY <2>1, <2>2, <2>3
  <2> QED BY <1>7, <2>4 DEF new
<1>8. CASE v = "entropy" /\ e.session = s
  <2>1. Current(s)' = {}
    BY <1>2, <1>8
  <2> QED BY <1>4, <1>8, <2>1
<1>9. CASE ~(v = "ok" /\ e.session = s) /\ ~(v = "entropy" /\ e.session = s)
  <2>1. Current(s)' = Current(s)
    BY <1>2, <1>9
  <2>2. Logged(s)' = Logged(s)
    BY <1>4, <1>5, <2>1 DEF Logged
  <2> QED BY <1>9, <2>2
<1> QED BY <1>7, <1>8, <1>9

LEMMA OrderGrows ==
  ASSUME IInv, LogOrdered, NEW e \in Event, NEW v, NEW n \in Nat, Grown(e, v, n),
         v # "missing" => Identified(e)
  PROVE  LogOrdered'
<1>1. /\ DOMAIN log' = DOMAIN log \cup {n}
      /\ \A i \in DOMAIN log : i \in Nat /\ ~(n <= i) /\ log'[i] = log[i]
      /\ log'[n].event = e /\ log'[n].at = clock /\ log'[n].verdict = v
  BY DEF Grown
<1>2. clock \in Nat /\ \A i \in DOMAIN log : log[i].at <= clock
  BY LogFacts
<1>3. \A i, j \in DOMAIN log' : i <= j => log'[i].at <= log'[j].at
  BY <1>1, <1>2 DEF LogOrdered
<1>4. \A i \in DOMAIN log' : log'[i].verdict # "missing" => Identified(log'[i].event)
  BY <1>1 DEF LogOrdered
<1> QED BY <1>3, <1>4 DEF LogOrdered, Identified
-----------------------------------------------------------------------------
(* The exact memory is kept.                                                *)
LEMMA ExactInit == Init => Exact
<1> SUFFICES ASSUME Init PROVE Exact
  OBVIOUS
<1>1. DOMAIN log = {}
  BY DEF Init
<1>2. \A x : /\ IPBlockEnds(x) = {} /\ SessionBlockEnds(x) = {} /\ VoteEnds(x) = {}
             /\ Logged(x) = {}
  BY <1>1 DEF IPBlockEnds, SessionBlockEnds, VoteEnds, Logged, Current
<1>3. IPsTracked /\ SessionsTracked /\ VotesTracked
  <2>1. \A k \in Identities \X Queries : contributionSeen[k] = 0
    BY DEF Init
  <2> QED BY <1>2, <2>1 DEF Init, IPsTracked, SessionsTracked, VotesTracked, Tracks
<1>4. CountersExact
  <2>1. \A ip, minute : RequestsIn(ip, minute) = {}
    BY <1>1 DEF RequestsIn
  <2> QED BY <1>1, <2>1, FS_EmptySet DEF Init, CountersExact
<1>5. SessionsExact
  <2>1. \A s : Remembers(NoState, s)
    BY <1>2, NoStateWellFormed DEF Remembers
  <2>2. Cardinality(Distinct(NoState)) <= MaxUnique
    BY NoStateWellFormed, FS_EmptySet, LimitsNat
  <2> QED BY <2>1, <2>2, NoStateWellFormed DEF Init, SessionsExact, WellFormed
<1>6. LogOrdered
  BY <1>1 DEF LogOrdered
<1>7. lastCleanupAt \in Nat /\ sessionBlockedUntil \in [Sessions -> Nat]
  BY DEF Init
<1> QED BY <1>3, <1>4, <1>5, <1>6, <1>7 DEF Exact

(* Time passes: what has ended may be forgotten, and less is in the window. *)
LEMMA ExactTick ==
  ASSUME IInv, Exact, clock' \in Nat, clock <= clock', UNCHANGED <<rules, log>>
  PROVE  Exact'
<1>1. clock \in Nat /\ log' = log /\ bucketMin' = bucketMin /\ counters' = counters
      /\ lastCleanupAt' = lastCleanupAt /\ ipBlockedUntil' = ipBlockedUntil
      /\ sessionBlockedUntil' = sessionBlockedUntil /\ contributionSeen' = contributionSeen
      /\ sessionEntropy' = sessionEntropy
  BY LogFacts DEF rules
<1>2. \A x : /\ IPBlockEnds(x)' = IPBlockEnds(x) /\ SessionBlockEnds(x)' = SessionBlockEnds(x)
             /\ VoteEnds(x)' = VoteEnds(x) /\ Logged(x)' = Logged(x)
  BY <1>1 DEF IPBlockEnds, SessionBlockEnds, VoteEnds, Logged, Current, identityKeys
<1>3. IPsTracked'
  <2> SUFFICES ASSUME NEW ip \in IPs
               PROVE  Tracks(ipBlockedUntil[ip], IPBlockEnds(ip), clock')
    BY <1>1, <1>2 DEF IPsTracked
  <2>1. ipBlockedUntil[ip] \in Nat /\ Tracks(ipBlockedUntil[ip], IPBlockEnds(ip), clock)
    BY DEF Exact, IPsTracked, IInv, MemoryOK
  <2> QED BY <1>1, <2>1, EndsAreTimes, TracksLater
<1>4. SessionsTracked'
  <2> SUFFICES ASSUME NEW s \in Sessions
               PROVE  Tracks(sessionBlockedUntil[s], SessionBlockEnds(s), clock')
    BY <1>1, <1>2 DEF SessionsTracked
  <2>1. sessionBlockedUntil[s] \in Nat
        /\ Tracks(sessionBlockedUntil[s], SessionBlockEnds(s), clock)
    BY DEF Exact, SessionsTracked
  <2> QED BY <1>1, <2>1, EndsAreTimes, TracksLater
<1>5. VotesTracked'
  <2> SUFFICES ASSUME NEW k \in Identities \X Queries
               PROVE  Tracks(contributionSeen[k], VoteEnds(k), clock')
    BY <1>1, <1>2 DEF VotesTracked
  <2> DEFINE D == Identities \X Queries
  <2>1. k \in D /\ contributionSeen \in [D -> Nat]
        /\ Tracks(contributionSeen[k], VoteEnds(k), clock)
    BY DEF Exact, VotesTracked, IInv, MemoryOK
  <2> HIDE DEF D
  <2>2. contributionSeen[k] \in Nat
    BY <2>1
  <2> QED BY <1>1, <2>1, <2>2, EndsAreTimes, TracksLater
<1>6. CountersExact'
  BY <1>1 DEF Exact, CountersExact, RequestsIn
<1>7. SessionsExact'
  <2>1. ASSUME NEW s \in Sessions
        PROVE  Remembers(sessionEntropy[s], s)'
    <3>1. Remembers(sessionEntropy[s], s)
      BY DEF Exact, SessionsExact
    <3>2. \A x \in Logged(s) : x.at \in Nat
      BY LogFacts DEF Logged, Current
    <3>3. \A x \in Logged(s) : x.at >= clock' - EntropyWindow => x.at >= clock - EntropyWindow
      BY <1>1, <3>2, LimitsNat
    <3> QED BY <1>1, <1>2, <3>1, <3>3 DEF Remembers, Listed
  <2> QED BY <1>1, <2>1 DEF Exact, SessionsExact, WellFormed, Distinct
<1>8. LogOrdered'
  BY <1>1 DEF Exact, LogOrdered, Identified
<1> QED BY <1>1, <1>3, <1>4, <1>5, <1>6, <1>7, <1>8 DEF Exact
LEMMA MissingExact ==
  ASSUME IInv, Exact, NEW e \in Event, MissingIdentifiers(e)
  PROVE  Exact'
<1>1. /\ log' = Append(log, [event |-> e, at |-> clock, verdict |-> "missing"])
      /\ clock' = clock /\ UNCHANGED rules
  BY DEF MissingIdentifiers, Return
<1>2. PICK n \in Nat : Grown(e, "missing", n)
  BY <1>1, EntryAdded DEF Verdicts
<1>3. \A x : /\ IPBlockEnds(x)' = IPBlockEnds(x) /\ SessionBlockEnds(x)' = SessionBlockEnds(x)
             /\ VoteEnds(x)' = VoteEnds(x)
  BY <1>2, EndsGrow
<1>4. \A s : Logged(s)' = Logged(s)
  BY <1>2, LoggedGrows DEF Verdicts
<1>5. \A ip, minute : RequestsIn(ip, minute)' = RequestsIn(ip, minute)
  BY <1>2, RequestsGrow
<1>6. IPsTracked' /\ SessionsTracked' /\ VotesTracked'
  BY <1>1, <1>3 DEF Exact, IPsTracked, SessionsTracked, VotesTracked, rules
<1>7. CountersExact'
  <2>1. PICK minute \in Nat : minute = bucketMin
    BY DEF IInv, MemoryOK
  <2>2. bucketMin' = minute /\ counters' = counters
    BY <1>1, <2>1 DEF rules
  <2>3. ASSUME NEW ip \in IPs
        PROVE  counters'[ip] = Cardinality(RequestsIn(ip, bucketMin)')
    <3>1. counters[ip] = Cardinality(RequestsIn(ip, minute))
      BY <2>1 DEF Exact, CountersExact
    <3>2. RequestsIn(ip, bucketMin)' = RequestsIn(ip, minute)'
      BY <2>2 DEF RequestsIn
    <3> QED BY <1>5, <2>2, <3>1, <3>2
  <2>4. \A j \in DOMAIN log' :
          log'[j].verdict \in {"ok", "cap", "entropy", "ip_rate"}
            => log'[j].at \div Minute <= bucketMin'
    BY <1>2, <2>1, <2>2 DEF Exact, CountersExact, Grown
  <2> QED BY <2>3, <2>4 DEF CountersExact
<1>8. SessionsExact'
  <2>1. sessionEntropy' = sessionEntropy /\ clock' = clock
    BY <1>1 DEF rules
  <2>2. ASSUME NEW s \in Sessions
        PROVE  Remembers(sessionEntropy[s], s)'
    BY <1>4, <2>1 DEF Exact, SessionsExact, Remembers, Listed
  <2> QED BY <2>1, <2>2 DEF Exact, SessionsExact, WellFormed, Distinct
<1>9. LogOrdered'
  BY <1>2, OrderGrows DEF Exact
<1> QED BY <1>1, <1>6, <1>7, <1>8, <1>9 DEF Exact, rules

LEMMA IPsKept ==
  ASSUME IInv, Exact, NEW e \in Event, NEW v \in Verdicts, Answered(e, v)
  PROVE  IPsTracked'
<1>1. PICK n \in Nat : Grown(e, v, n)
  BY EntryAdded DEF Answered
<1>2. SUFFICES ASSUME NEW ip \in IPs
               PROVE  Tracks(ipBlockedUntil'[ip], IPBlockEnds(ip)', clock')
  BY DEF IPsTracked
<1>3. /\ IPBlocks \in [IPs -> Nat] /\ Tracks(IPBlocks[ip], IPBlockEnds(ip), clock)
      /\ IPBlockEnds(ip) \in SUBSET Nat /\ clock' = clock /\ clock \in Nat
      /\ clock + IPBlock \in Nat /\ clock <= clock + IPBlock
  BY CleanedTracks, EndsAreTimes, LogFacts, LimitsNat DEF Answered
<1>4. IPBlockEnds(ip)' = IF v = "ip_rate" /\ e.ip = ip
                         THEN IPBlockEnds(ip) \cup {clock + IPBlock} ELSE IPBlockEnds(ip)
  BY <1>1, EndsGrow
<1>5. CASE v = "ip_rate" /\ e.ip = ip
  <2>1. ipBlockedUntil'[ip] = clock + IPBlock /\ IPBlocks[ip] <= clock
    BY <1>3, <1>5 DEF Answered
  <2>2. Tracks(clock + IPBlock, IPBlockEnds(ip) \cup {clock + IPBlock}, clock)
    BY <1>3, <2>1, TracksNew
  <2> QED BY <1>3, <1>4, <1>5, <2>1, <2>2
<1>6. CASE ~(v = "ip_rate" /\ e.ip = ip)
  <2>1. ipBlockedUntil'[ip] = IPBlocks[ip]
    BY <1>3, <1>6 DEF Answered
  <2> QED BY <1>3, <1>4, <1>6, <2>1
<1> QED BY <1>5, <1>6

LEMMA SessionsKept ==
  ASSUME IInv, Exact, NEW e \in Event, NEW v \in Verdicts, Answered(e, v)
  PROVE  SessionsTracked' /\ sessionBlockedUntil' \in [Sessions -> Nat]
<1>1. PICK n \in Nat : Grown(e, v, n)
  BY EntryAdded DEF Answered
<1>2. /\ SessionBlocks \in [Sessions -> Nat] /\ clock' = clock /\ clock \in Nat
      /\ \A s \in Sessions : Tracks(SessionBlocks[s], SessionBlockEnds(s), clock)
      /\ clock + SessionBlock \in Nat /\ clock <= clock + SessionBlock
      /\ e.session \in Sessions
  BY CleanedTracks, LogFacts, LimitsNat DEF Answered, Identified, Event
<1>3. sessionBlockedUntil' \in [Sessions -> Nat]
  BY <1>2 DEF Answered
<1>4. ASSUME NEW s \in Sessions
      PROVE  Tracks(sessionBlockedUntil'[s], SessionBlockEnds(s)', clock')
  <2>1. SessionBlockEnds(s)' = IF v = "entropy" /\ e.session = s
                               THEN SessionBlockEnds(s) \cup {clock + SessionBlock}
                               ELSE SessionBlockEnds(s)
    BY <1>1, EndsGrow
  <2>2. SessionBlockEnds(s) \in SUBSET Nat
    BY EndsAreTimes
  <2>3. CASE v = "entropy" /\ e.session = s
    <3>1. sessionBlockedUntil'[s] = clock + SessionBlock /\ SessionBlocks[s] <= clock
      BY <1>2, <2>3 DEF Answered
    <3>2. Tracks(clock + SessionBlock, SessionBlockEnds(s) \cup {clock + SessionBlock}, clock)
      BY <1>2, <2>2, <3>1, TracksNew
    <3> QED BY <1>2, <2>1, <2>3, <3>1, <3>2
  <2>4. CASE ~(v = "entropy" /\ e.session = s)
    <3>1. sessionBlockedUntil'[s] = SessionBlocks[s]
      BY <1>2, <2>4 DEF Answered
    <3> QED BY <1>2, <2>1, <2>4, <3>1
  <2> QED BY <2>3, <2>4
<1> QED BY <1>3, <1>4 DEF SessionsTracked

LEMMA VotesKept ==
  ASSUME IInv, Exact, NEW e \in Event, NEW v \in Verdicts, Answered(e, v)
  PROVE  VotesTracked'
<1> DEFINE D == Identities \X Queries
           end == clock + ContributionWindow
<1>1. PICK n \in Nat : Grown(e, v, n)
  BY EntryAdded DEF Answered
<1>2. SUFFICES ASSUME NEW k \in D
               PROVE  Tracks(contributionSeen'[k], VoteEnds(k)', clock')
  BY DEF VotesTracked
<1>3. Contributions \in [D -> Nat] /\ Tracks(Contributions[k], VoteEnds(k), clock)
  BY CleanedTracks
<1>4. /\ VoteEnds(k) \in SUBSET Nat /\ clock' = clock /\ clock \in Nat
      /\ end \in Nat /\ clock <= end
  BY EndsAreTimes, LogFacts, LimitsNat DEF Answered
<1>5. VoteEnds(k)' = IF v \in {"ok", "entropy"} /\ k[1] \in identityKeys(e) /\ e.query = k[2]
                     THEN VoteEnds(k) \cup {end} ELSE VoteEnds(k)
  BY <1>1, EndsGrow
<1>6. k = <<k[1], k[2]>>
  OBVIOUS
<1>7. Recorded(e) = [l \in D |-> IF l[1] \in identityKeys(e) /\ l[2] = e.query
                                 THEN end ELSE Contributions[l]]
  BY DEF Recorded
<1>8. contributionSeen' = IF v \in {"ok", "entropy"} THEN Recorded(e) ELSE Contributions
  BY DEF Answered
<1>9. v \in {"ok", "entropy"} =>
        \A key \in identityKeys(e) : ~(Contributions[<<key, e.query>>] > clock)
  BY DEF Answered, HasVoted
<1> HIDE DEF D, end
<1>10. Contributions[k] \in Nat
  BY <1>3
<1>11. CASE v \in {"ok", "entropy"} /\ k[1] \in identityKeys(e) /\ e.query = k[2]
  <2>1. contributionSeen'[k] = end
    BY <1>7, <1>8, <1>11
  <2>2. Contributions[k] <= clock
    BY <1>4, <1>6, <1>9, <1>10, <1>11
  <2>3. Tracks(end, VoteEnds(k) \cup {end}, clock)
    BY <1>3, <1>4, <1>10, <2>2, TracksNew
  <2> QED BY <1>4, <1>5, <1>11, <2>1, <2>3
<1>12. CASE ~(v \in {"ok", "entropy"} /\ k[1] \in identityKeys(e) /\ e.query = k[2])
  <2>1. contributionSeen'[k] = Contributions[k]
    BY <1>7, <1>8, <1>12
  <2> QED BY <1>3, <1>4, <1>5, <1>12, <2>1
<1> QED BY <1>11, <1>12
LEMMA CountersKept ==
  ASSUME IInv, Exact, NEW e \in Event, NEW v \in Verdicts, Answered(e, v)
  PROVE  CountersExact'
<1> DEFINE Counts(w) == w \in {"ok", "cap", "entropy", "ip_rate"}
<1>1. PICK n \in Nat : Grown(e, v, n)
  BY EntryAdded DEF Answered
<1>2. PICK now \in Nat, old \in Nat : now = clock \div Minute /\ old = bucketMin
  BY DivMonotone, LogFacts DEF IInv, MemoryOK
<1>3. old <= now
  BY <1>2 DEF IInv, MemoryOK
<1>4. e.ip \in IPs
  BY KeysAreIdentities DEF Answered
<1>5. \A ip, minute :
        /\ n \notin RequestsIn(ip, minute)
        /\ RequestsIn(ip, minute)' = IF Counts(v) /\ e.ip = ip /\ clock \div Minute = minute
                                     THEN RequestsIn(ip, minute) \cup {n}
                                     ELSE RequestsIn(ip, minute)
  BY <1>1, RequestsGrow
<1>6. CASE Counts(v)
  <2>1. bucketMin' = now /\ counters' = Counted(e.ip)
    BY <1>2, <1>6 DEF Answered
  <2>2. ASSUME NEW ip \in IPs
        PROVE  counters'[ip] = Cardinality(RequestsIn(ip, bucketMin)')
    <3> DEFINE S == RequestsIn(ip, now)
    <3>1. (IF bucketMin = clock \div Minute THEN counters[ip] ELSE 0) = Cardinality(S)
      BY <1>2, CountersNow
    <3>2. counters'[ip] = IF ip = e.ip THEN Cardinality(S) + 1 ELSE Cardinality(S)
      BY <1>4, <2>1, <3>1, CountedTyped DEF IInv
    <3>3. RequestsIn(ip, bucketMin)' = RequestsIn(ip, now)'
      BY <2>1 DEF RequestsIn
    <3>4. RequestsIn(ip, now)' = IF e.ip = ip THEN S \cup {n} ELSE S
      BY <1>2, <1>5, <1>6
    <3>5. IsFiniteSet(S) /\ n \notin S
      BY <1>5, RequestsFinite
    <3> HIDE DEF S
    <3>6. Cardinality(S \cup {n}) = Cardinality(S) + 1
      BY <3>5, FS_AddElement
    <3> QED BY <3>2, <3>3, <3>4, <3>6
  <2>3. ASSUME NEW j \in DOMAIN log', Counts(log'[j].verdict)
        PROVE  log'[j].at \div Minute <= bucketMin'
    <3>1. CASE j = n
      BY <1>1, <1>2, <2>1, <3>1 DEF Grown
    <3>2. CASE j \in DOMAIN log
      <4>1. log'[j] = log[j]
        BY <1>1, <3>2 DEF Grown
      <4>2. log[j].at \div Minute <= old /\ log[j].at \in Nat
        BY <1>2, <2>3, <3>2, <4>1, LogFacts DEF Exact, CountersExact
      <4>3. log[j].at \div Minute \in Nat
        BY <4>2, DivMonotone
      <4> QED BY <1>3, <2>1, <4>1, <4>2, <4>3
    <3> QED BY <1>1, <3>1, <3>2 DEF Grown
  <2> QED BY <2>2, <2>3 DEF CountersExact
<1>7. CASE ~Counts(v)
  <2>1. bucketMin' = old /\ counters' = counters
    BY <1>2, <1>7 DEF Answered
  <2>2. ASSUME NEW ip \in IPs
        PROVE  counters'[ip] = Cardinality(RequestsIn(ip, bucketMin)')
    <3>1. counters[ip] = Cardinality(RequestsIn(ip, old))
      BY <1>2 DEF Exact, CountersExact
    <3>2. RequestsIn(ip, bucketMin)' = RequestsIn(ip, old)'
      BY <2>1 DEF RequestsIn
    <3>3. RequestsIn(ip, old)' = RequestsIn(ip, old)
      BY <1>5, <1>7
    <3> QED BY <2>1, <3>1, <3>2, <3>3
  <2>3. ASSUME NEW j \in DOMAIN log', Counts(log'[j].verdict)
        PROVE  log'[j].at \div Minute <= bucketMin'
    BY <1>1, <1>2, <1>7, <2>1, <2>3 DEF Grown, Exact, CountersExact
  <2> QED BY <2>2, <2>3 DEF CountersExact
<1> QED BY <1>6, <1>7

LEMMA ListsKept ==
  ASSUME IInv, Exact, NEW e \in Event, NEW v \in Verdicts, Answered(e, v)
  PROVE  SessionsExact'
<1> DEFINE new == [at |-> clock, query |-> e.query]
<1>1. PICK n \in Nat : Grown(e, v, n)
  BY EntryAdded DEF Answered
<1>2. /\ Entropies \in [Sessions -> SessionState]
      /\ \A s \in Sessions : /\ WellFormed(Entropies[s]) /\ Remembers(Entropies[s], s)
                             /\ Cardinality(Distinct(Entropies[s])) <= MaxUnique
  BY CleanedSessions
<1>3. e.session \in Sessions /\ Identified(e) /\ clock' = clock /\ clock \in Nat
  BY LogFacts DEF Answered, Identified, Event
<1>4. /\ WellFormed(Observed(e))
      /\ Listed(Observed(e)) = {x \in Logged(e.session) : x.at >= clock - EntropyWindow}
                                 \cup {new}
  BY <1>3, ObservedSession
<1>5. ASSUME NEW s \in Sessions
      PROVE  Logged(s)' = IF v = "ok" /\ e.session = s THEN Logged(s) \cup {new}
                          ELSE IF v = "entropy" /\ e.session = s THEN {} ELSE Logged(s)
  BY <1>1, LoggedGrows
<1> HIDE DEF new
<1>6. ASSUME NEW s \in Sessions
      PROVE  \E state \in SessionState :
               /\ sessionEntropy'[s] = state
               /\ WellFormed(state)
               /\ Listed(state) \subseteq Logged(s)'
               /\ \A x \in Logged(s)' : x.at >= clock - EntropyWindow => x \in Listed(state)
               /\ Cardinality(Distinct(state)) <= MaxUnique
  <2>1. CASE v = "ok" /\ e.session = s
    <3>1. sessionEntropy'[s] = Observed(e) /\ Cardinality(Distinct(Observed(e))) <= MaxUnique
      BY <1>2, <2>1 DEF Answered
    <3>2. Logged(s)' = Logged(s) \cup {new}
      BY <1>5, <2>1
    <3>3. Observed(e) \in SessionState
      BY <1>4 DEF WellFormed
    <3> QED BY <1>4, <2>1, <3>1, <3>2, <3>3
  <2>2. CASE v = "entropy" /\ e.session = s
    <3>1. sessionEntropy'[s] = NoState
      BY <1>2, <2>2 DEF Answered, BlockedEntropy
    <3>2. Logged(s)' = {}
      BY <1>5, <2>2
    <3>3. Cardinality(Distinct(NoState)) <= MaxUnique /\ NoState \in SessionState
      BY NoStateWellFormed, FS_EmptySet, LimitsNat DEF WellFormed
    <3> QED BY <3>1, <3>2, <3>3, NoStateWellFormed
  <2>3. CASE ~(v = "ok" /\ e.session = s) /\ ~(v = "entropy" /\ e.session = s)
    <3>1. sessionEntropy'[s] = Entropies[s]
      BY <1>2, <1>3, <2>3 DEF Answered, BlockedEntropy
    <3>2. Logged(s)' = Logged(s)
      BY <1>5, <2>3
    <3> QED BY <1>2, <3>1, <3>2 DEF Remembers
  <2> QED BY <2>1, <2>2, <2>3
<1>7. sessionEntropy' \in [Sessions -> SessionState]
  <2>1. Observed(e) \in SessionState /\ NoState \in SessionState
    BY <1>4, NoStateWellFormed DEF WellFormed
  <2> QED BY <1>2, <2>1 DEF Answered, BlockedEntropy
<1>8. ASSUME NEW s \in Sessions
      PROVE  /\ WellFormed(sessionEntropy[s])' /\ Remembers(sessionEntropy[s], s)'
             /\ (Cardinality(Distinct(sessionEntropy[s])) <= MaxUnique)'
  <2>1. PICK state \in SessionState :
               /\ sessionEntropy'[s] = state
               /\ WellFormed(state)
               /\ Listed(state) \subseteq Logged(s)'
               /\ \A x \in Logged(s)' : x.at >= clock - EntropyWindow => x \in Listed(state)
               /\ Cardinality(Distinct(state)) <= MaxUnique
    BY <1>6
  <2>2. WellFormed(sessionEntropy[s])'
    BY <2>1 DEF WellFormed
  <2>3. Remembers(sessionEntropy[s], s)'
    BY <1>3, <2>1 DEF Remembers, Listed
  <2>4. (Cardinality(Distinct(sessionEntropy[s])) <= MaxUnique)'
    BY <2>1 DEF Distinct
  <2> QED BY <2>2, <2>3, <2>4
<1> QED BY <1>7, <1>8 DEF SessionsExact

LEMMA ExactStep == IInv /\ Exact /\ [Next]_vars => Exact'
<1> SUFFICES ASSUME IInv, Exact, [Next]_vars PROVE Exact'
  OBVIOUS
<1>1. clock \in Nat
  BY LogFacts
<1>2. CASE UNCHANGED vars \/ BoundsReached
  <2>1. clock' = clock /\ UNCHANGED <<rules, log>>
    BY <1>2 DEF vars, BoundsReached
  <2> QED BY <1>1, <2>1, ExactTick
<1>3. CASE Tick
  <2>1. clock' = clock + 1 /\ UNCHANGED <<rules, log>>
    BY <1>3 DEF Tick
  <2> QED BY <1>1, <2>1, ExactTick
<1>4. CASE \E e \in Events : Evaluate(e)
  <2>1. PICK e \in Event : Evaluate(e)
    BY <1>4, AntiFraudAssumption
  <2>2. CASE MissingIdentifiers(e)
    BY <2>2, MissingExact
  <2>3. ASSUME NEW v \in Verdicts \ {"missing"}, Answered(e, v)
        PROVE  Exact'
    <3>1. PICK n \in Nat : Grown(e, v, n)
      BY <2>3, EntryAdded DEF Answered
    <3>2. LogOrdered'
      BY <2>3, <3>1, OrderGrows DEF Exact, Answered
    <3>3. lastCleanupAt' \in Nat
      BY <1>1, <2>3 DEF Exact, Answered
    <3> QED BY <2>3, <3>2, <3>3, IPsKept, SessionsKept, VotesKept, CountersKept, ListsKept
            DEF Exact
  <2> QED BY <2>1, <2>2, <2>3, EvaluateAnswers
<1> QED BY <1>2, <1>3, <1>4 DEF Next
-----------------------------------------------------------------------------
(* The blocked times, counters, votes and lists of rules.go stand for       *)
(* exactly what the log says, in every reachable state: for all events and  *)
(* limits, whenever the cleanup runs.                                       *)
THEOREM ExactMemory == Spec => [](IInv /\ Exact)
<1>1. Init => Exact
  BY ExactInit
<1>2. IInv /\ Exact /\ [Next]_vars => Exact'
  BY ExactStep
<1> QED BY <1>1, <1>2, Invariance, PTL DEF Spec

(* Every variable keeps its type, and no session's state holds more than    *)
(* MaxUnique different queries.                                             *)
THEOREM TypesKept == Spec => []TypeOK
<1>1. IInv /\ Exact => TypeOK
  BY DEF IInv, MemoryOK, LogOK, Entry, Exact, SessionsExact, SessionState, Observation, TypeOK
<1> QED BY <1>1, ExactMemory, PTL

(* Adding, pruning and cleaning up keep the counts of a session the         *)
(* multiset of its list.                                                    *)
THEOREM CountsAreListed == Spec => []CountsMatchEvents
<1>1. IInv /\ Exact => CountsMatchEvents
  BY DEF Exact, SessionsExact, WellFormed, CountsMatchEvents
<1> QED BY <1>1, ExactMemory, PTL

(* The evaluator implements the policy: its verdict is in every state the   *)
(* one the whole log asks for.                                              *)
THEOREM PolicyImplemented == Spec => ImplementsPolicy
<1>1. Init => Abs!Init
  BY DEF Init, Abs!Init
<1>2. IInv /\ Exact /\ [Next]_vars => [Abs!Next]_(Abs!vars)
  <2> SUFFICES ASSUME IInv, Exact, [Next]_vars PROVE [Abs!Next]_(Abs!vars)
    OBVIOUS
  <2>1. CASE UNCHANGED vars \/ BoundsReached
    BY <2>1 DEF vars, BoundsReached, Abs!vars
  <2>2. CASE Tick
    BY <2>2 DEF Tick, Abs!Next
  <2>3. CASE \E e \in Events : Evaluate(e)
    <3>1. PICK e \in Events : Evaluate(e)
      BY <2>3
    <3>2. e \in Event
      BY AntiFraudAssumption
    <3>3. PICK v \in Verdicts : /\ Abs!Verdict(e) = v
                                /\ log' = Append(log, [event |-> e, at |-> clock, verdict |-> v])
                                /\ clock' = clock
      <4>1. CASE MissingIdentifiers(e) /\ Abs!Verdict(e) = "missing"
        BY <4>1 DEF MissingIdentifiers, Return, Verdicts
      <4>2. CASE \E v \in Verdicts \ {"missing"} : Answered(e, v) /\ Abs!Verdict(e) = v
        BY <4>2 DEF Answered
      <4> QED BY <3>1, <3>2, <4>1, <4>2, EvaluateAnswers
    <3>4. Abs!Evaluate(e)
      BY <3>3 DEF Abs!Evaluate
    <3> QED BY <3>4 DEF Abs!Next
  <2> QED BY <2>1, <2>2, <2>3 DEF Next
<1> QED BY <1>1, <1>2, ExactMemory, PTL DEF Spec, ImplementsPolicy, Abs!Spec

-----------------------------------------------------------------------------
(* An accepted event within the window of now has no block of its session   *)
(* after it: a block lasts longer than the window.                          *)
LEMMA RecentIsCurrent ==
  ASSUME IInv, Exact, SessionBlock > EntropyWindow, NEW s \in Sessions,
         SessionBlocks[s] <= clock,
         NEW j \in Accepted, log[j].event.session = s, log[j].at >= clock - EntropyWindow
  PROVE  j \in Current(s)
<1>1. j \in DOMAIN log /\ log[j].verdict = "ok" /\ DOMAIN log \subseteq Nat
  BY DEF Accepted, IInv, LogOK
<1>2. SUFFICES ASSUME NEW k \in DOMAIN log, log[k].verdict = "entropy", k > j,
                      log[k].event.session = s
               PROVE  FALSE
  BY <1>1 DEF Current
<1>3. /\ log[j].at <= log[k].at
      /\ log[j].at \in Nat /\ log[k].at \in Nat /\ clock \in Nat
  BY <1>1, <1>2, LogFacts DEF Exact, LogOrdered
<1>4. log[k].at + SessionBlock \in SessionBlockEnds(s)
  BY <1>2 DEF SessionBlockEnds
<1>5. SessionBlocks[s] \in Nat /\ Tracks(SessionBlocks[s], SessionBlockEnds(s), clock)
  BY CleanedTracks
<1>6. ~(SessionBlocks[s] > clock)
  BY <1>3, <1>5
<1>7. ~(log[k].at + SessionBlock > clock)
  BY <1>3, <1>4, <1>5, <1>6, EndsAreTimes, TracksExactly
<1> QED BY <1>3, <1>7, LimitsNat

LEMMA QueriesStep ==
  ASSUME SessionBlock > EntropyWindow
  PROVE  EntropyBounded /\ IInv /\ Exact /\ [Next]_vars => EntropyBounded'
<1> SUFFICES ASSUME EntropyBounded, IInv, Exact, [Next]_vars PROVE EntropyBounded'
  OBVIOUS
<1>1. CASE log' = log
  BY <1>1 DEF EntropyBounded, Accepted
<1>2. CASE \E e \in Events : Evaluate(e)
  <2>1. PICK e \in Event : Evaluate(e)
    BY <1>2, AntiFraudAssumption
  <2>2. PICK v \in Verdicts : /\ log' = Append(log, [event |-> e, at |-> clock, verdict |-> v])
                              /\ v = "ok" => Answered(e, v)
    <3>1. CASE MissingIdentifiers(e)
      BY <3>1 DEF MissingIdentifiers, Return, Verdicts
    <3>2. CASE \E v \in Verdicts \ {"missing"} : Answered(e, v)
      BY <3>2 DEF Answered
    <3> QED BY <2>1, <3>1, <3>2, EvaluateAnswers
  <2>3. PICK n \in Nat : Grown(e, v, n)
    BY <2>2, EntryAdded
  <2>4. /\ DOMAIN log' = DOMAIN log \cup {n} /\ n \notin DOMAIN log
        /\ \A i \in DOMAIN log : i \in Nat /\ i < n /\ log'[i] = log[i]
        /\ log'[n].event = e /\ log'[n].at = clock /\ log'[n].verdict = v
    BY <2>3 DEF Grown
  <2>5. Accepted' = IF v = "ok" THEN Accepted \cup {n} ELSE Accepted
    BY <2>4 DEF Accepted
  <2>6. Accepted \subseteq DOMAIN log
    BY DEF Accepted
  <2> DEFINE Before(i) == {k \in Accepted : /\ k <= i
                                            /\ log[k].event.session = log[i].event.session
                                            /\ log[k].at >= log[i].at - EntropyWindow}
             Before2(i) == {k \in Accepted' : /\ k <= i
                                              /\ log'[k].event.session = log'[i].event.session
                                              /\ log'[k].at >= log'[i].at - EntropyWindow}
  <2>7. SUFFICES ASSUME NEW i \in Accepted'
                 PROVE  Cardinality({log'[j].event.query : j \in Before2(i)}) <= MaxUnique
    BY DEF EntropyBounded
  <2>8. CASE i \in Accepted
    <3>1. Before2(i) = Before(i)
      BY <2>4, <2>5, <2>6, <2>8
    <3>2. \A j \in Before(i) : log'[j].event.query = log[j].event.query
      BY <2>4, <2>6
    <3>3. Cardinality({log[j].event.query : j \in Before(i)}) <= MaxUnique
      BY <2>8 DEF EntropyBounded
    <3> HIDE DEF Before, Before2
    <3>4. {log'[j].event.query : j \in Before2(i)} = {log[j].event.query : j \in Before(i)}
      BY <3>1, <3>2
    <3> QED BY <3>3, <3>4
  <2>9. CASE i = n /\ v = "ok"
    <3>1. /\ Identified(e) /\ SessionBlocks[e.session] <= clock /\ e.session \in Sessions
          /\ Cardinality(Distinct(Observed(e))) <= MaxUnique
      BY <2>2, <2>9 DEF Answered, Identified, Event
    <3>2. Abs!SessionQueries(e) = Distinct(Observed(e))
      BY <3>1, SameQueries
    <3>3. ASSUME NEW j \in Before2(n) PROVE log'[j].event.query \in Abs!SessionQueries(e)
      <4>1. CASE j = n
        BY <2>4, <4>1 DEF Abs!SessionQueries
      <4>2. CASE j \in Accepted
        <5>1. /\ log'[j] = log[j] /\ log[j].event.session = e.session
              /\ log[j].at >= clock - EntropyWindow
          BY <2>4, <2>6, <3>3, <4>2
        <5>2. j \in Current(e.session)
          BY <3>1, <4>2, <5>1, RecentIsCurrent
        <5> QED BY <5>1, <5>2 DEF Current, Abs!SessionQueries, Abs!With
      <4> QED BY <2>5, <3>3, <4>1, <4>2
    <3> DEFINE Q == {log'[j].event.query : j \in Before2(n)}
    <3>4. Q \in SUBSET Distinct(Observed(e))
      BY <3>2, <3>3
    <3>5. IsFiniteSet(Distinct(Observed(e))) /\ Cardinality(Distinct(Observed(e))) \in Nat
      BY <3>1, ObservedSession, DistinctListed
    <3> HIDE DEF Q, Before2
    <3>6. Cardinality(Q) <= Cardinality(Distinct(Observed(e))) /\ Cardinality(Q) \in Nat
      BY <3>4, <3>5, FS_Subset, FS_CardinalityType
    <3>7. Cardinality(Q) <= MaxUnique
      BY <3>1, <3>5, <3>6, LimitsNat
    <3> QED BY <2>9, <3>7 DEF Q
  <2> QED BY <2>5, <2>8, <2>9
<1> QED BY <1>1, <1>2 DEF Next, vars, Tick, BoundsReached

(* A session is accepted with at most MaxUnique different queries in any    *)
(* trailing window, as long as its block outlasts the window (as it does by *)
(* default: an hour against five minutes).                                  *)
THEOREM QueriesBounded ==
  ASSUME SessionBlock > EntropyWindow
  PROVE  Spec => []EntropyBounded
<1>1. Init => EntropyBounded
  BY DEF Init, EntropyBounded, Accepted
<1>2. EntropyBounded /\ IInv /\ Exact /\ [Next]_vars => EntropyBounded'
  BY QueriesStep
<1> QED BY <1>1, <1>2, ExactMemory, PTL DEF Spec
=============================================================================
