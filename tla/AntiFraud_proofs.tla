-------------------------- MODULE AntiFraud_proofs --------------------------
(* Votes of one source for one query are a contribution window apart, and   *)
(* an address is accepted no more often than it may be: for all events and  *)
(* limits, and however the cleanups fall.                                   *)
EXTENDS AntiFraud, FiniteSetTheorems, SequenceTheorems, TLAPS

-----------------------------------------------------------------------------
Entry == [event : Event, at : Nat, verdict : Verdicts]

(* The entries of an address that were accepted in a minute.                *)
AcceptedIn(ip, minute) ==
  {j \in DOMAIN log : /\ log[j].verdict = "ok" /\ log[j].event.ip = ip
                      /\ log[j].at \div Minute = minute}

MemoryOK ==
  /\ clock \in Nat
  /\ bucketMin \in Nat /\ bucketMin <= clock \div Minute
  /\ counters \in [IPs -> Nat]
  /\ ipBlockedUntil \in [IPs -> Nat]
  /\ contributionSeen \in [Identities \X Queries -> Nat]

LogOK ==
  /\ log \in Seq(Entry)
  /\ \A i \in DOMAIN log : /\ log[i].at <= clock
                           /\ log[i].verdict \in {"ok", "ip_rate"} => Identified(log[i].event)

(* The maps remember an accepted vote, or a block, until it is as old as it *)
(* must be.                                                                 *)
VotesRemembered ==
  \A i \in DOMAIN log : log[i].verdict = "ok" =>
    \A key \in identityKeys(log[i].event) :
      \/ contributionSeen[<<key, log[i].event.query>>] >= log[i].at + ContributionWindow
      \/ clock >= log[i].at + ContributionWindow

BlocksRemembered ==
  \A i \in DOMAIN log : log[i].verdict = "ip_rate" =>
    \/ ipBlockedUntil[log[i].event.ip] >= log[i].at + IPBlock
    \/ clock >= log[i].at + IPBlock

(* The counters count the accepted of their minute, and none is later.      *)
CountsRemembered ==
  /\ \A i \in DOMAIN log : log[i].verdict = "ok" => log[i].at \div Minute <= bucketMin
  /\ \A ip \in IPs : Cardinality(AcceptedIn(ip, bucketMin)) <= counters[ip]

BlocksHold ==
  \A i, j \in DOMAIN log :
    (/\ i < j /\ log[i].verdict = "ip_rate" /\ log[j].verdict = "ok"
     /\ log[i].event.ip = log[j].event.ip) => log[j].at >= log[i].at + IPBlock

RateHolds ==
  \A ip \in IPs, minute \in Nat : Cardinality(AcceptedIn(ip, minute)) <= MaxRequests

IInv ==
  /\ MemoryOK /\ LogOK
  /\ VotesRemembered /\ OneVotePerWindow
  /\ BlocksRemembered /\ BlocksHold
  /\ CountsRemembered /\ RateHolds

(* What the map keeps while time and cleanups go on: all that has not       *)
(* expired.                                                                 *)
Kept(old, new) == \A k \in DOMAIN old : new[k] >= old[k] \/ old[k] <= clock

(* The log has one entry more, the newest, at n.                            *)
Grown(e, verdict, n) ==
  /\ DOMAIN log' = DOMAIN log \cup {n}
  /\ \A i \in DOMAIN log : i \in Nat /\ i < n /\ log'[i] = log[i]
  /\ log'[n].event = e /\ log'[n].at = clock /\ log'[n].verdict = verdict

(* What every return of Evaluate has done.                                  *)
Returned(e, verdict) ==
  /\ log' = Append(log, [event |-> e, at |-> clock, verdict |-> verdict])
  /\ clock' = clock
  /\ MemoryOK'
  /\ Kept(contributionSeen, contributionSeen') /\ Kept(ipBlockedUntil, ipBlockedUntil')
  /\ verdict \in {"ok", "ip_rate"} => Identified(e)
  /\ verdict = "ok" =>
       /\ ipBlockedUntil[e.ip] <= clock
       /\ \A key \in identityKeys(e) :
            /\ contributionSeen[<<key, e.query>>] <= clock
            /\ contributionSeen'[<<key, e.query>>] = clock + ContributionWindow
  /\ verdict = "ip_rate" => ipBlockedUntil'[e.ip] = clock + IPBlock
  /\ \/ verdict # "ok" /\ UNCHANGED <<bucketMin, counters>>
     \/ /\ Identified(e)
        /\ bucketMin' = clock \div Minute /\ counters' = Counted(e.ip)
        /\ verdict = "ok" => Counted(e.ip)[e.ip] <= MaxRequests

-----------------------------------------------------------------------------
LEMMA DivMonotone ==
  ASSUME NEW a \in Nat, NEW b \in Nat, a <= b
  PROVE  a \div Minute <= b \div Minute /\ a \div Minute \in Nat /\ b \div Minute \in Nat
<1> DEFINE m == Minute
<1>1. m \in Nat \ {0}
  BY AntiFraudAssumption
<1> HIDE DEF m
<1>2. a \div m \in Nat /\ b \div m \in Nat
  BY <1>1, Z3
<1>3. a \div m <= b \div m
  BY <1>1, <1>2, Z3
<1> QED BY <1>2, <1>3 DEF m

LEMMA LimitsAreNumbers ==
  /\ Minute \in Nat \ {0} /\ MaxRequests \in Nat \ {0}
  /\ IPBlock \in Nat \ {0} /\ ContributionWindow \in Nat \ {0}
BY AntiFraudAssumption

LEMMA EntriesTyped ==
  ASSUME LogOK
  PROVE  \A i \in DOMAIN log : log[i].at \in Nat /\ log[i].event \in Event
<1>1. \A i \in DOMAIN log : log[i] \in Entry
  BY ElementOfSeq DEF LogOK
<1> QED BY <1>1 DEF Entry

(* The identities of an event that has an address and a session.            *)
LEMMA KeysAreIdentities ==
  ASSUME NEW e \in Event, Identified(e)
  PROVE  /\ e.ip \in IPs /\ e.query \in Queries
         /\ \A key \in identityKeys(e) : <<key, e.query>> \in Identities \X Queries
<1>1. e.ip \in IPs /\ e.session \in Sessions /\ e.query \in Queries
      /\ (e.user # NoId => e.user \in Users)
  BY DEF Event, Identified
<1>2. \A key \in identityKeys(e) : key \in Identities
  <2> SUFFICES ASSUME NEW key \in identityKeys(e) PROVE key \in Identities
    OBVIOUS
  <2>1. CASE key = <<"ip", e.ip>>
    BY <1>1, <2>1 DEF Identities
  <2>2. CASE key = <<"session", e.session>>
    BY <1>1, <2>2 DEF Identities
  <2>3. CASE e.user # NoId /\ key = <<"user", e.user>>
    BY <1>1, <2>3 DEF Identities
  <2> QED BY <2>1, <2>2, <2>3 DEF identityKeys
<1> QED BY <1>1, <1>2

(* What the cleanup leaves of the two maps.                                 *)
LEMMA CleanedMaps ==
  ASSUME MemoryOK
  PROVE  /\ Contributions \in [Identities \X Queries -> Nat]
         /\ \A k \in Identities \X Queries :
              Contributions[k] = contributionSeen[k]
                \/ (contributionSeen[k] <= clock /\ Contributions[k] = 0)
         /\ IPBlocks \in [IPs -> Nat]
         /\ \A ip \in IPs : IPBlocks[ip] = ipBlockedUntil[ip]
                              \/ (ipBlockedUntil[ip] <= clock /\ IPBlocks[ip] = 0)
<1>1. \A n \in Nat : Unexpired(n) = n \/ (n <= clock /\ Unexpired(n) = 0)
  BY DEF Unexpired, MemoryOK
<1>2. \A n \in Nat : Unexpired(n) \in Nat
  BY <1>1
<1>3. /\ Contributions \in [Identities \X Queries -> Nat]
      /\ \A k \in Identities \X Queries :
           Contributions[k] = contributionSeen[k]
             \/ (contributionSeen[k] <= clock /\ Contributions[k] = 0)
  <2> DEFINE D == Identities \X Queries
  <2>1. contributionSeen \in [D -> Nat]
    BY DEF MemoryOK
  <2>2. Contributions = contributionSeen
          \/ Contributions = [k \in D |-> Unexpired(contributionSeen[k])]
    BY DEF Contributions
  <2> HIDE DEF D
  <2>3. /\ Contributions \in [D -> Nat]
        /\ \A k \in D : Contributions[k] = contributionSeen[k]
                          \/ (contributionSeen[k] <= clock /\ Contributions[k] = 0)
    BY <1>1, <1>2, <2>1, <2>2
  <2> QED BY <2>3 DEF D
<1>4. /\ IPBlocks \in [IPs -> Nat]
      /\ \A ip \in IPs : IPBlocks[ip] = ipBlockedUntil[ip]
                           \/ (ipBlockedUntil[ip] <= clock /\ IPBlocks[ip] = 0)
  BY <1>1, <1>2 DEF IPBlocks, MemoryOK
<1> QED BY <1>3, <1>4

LEMMA CountedTyped ==
  ASSUME MemoryOK, NEW ip \in IPs
  PROVE  /\ Counted(ip) \in [IPs -> Nat]
         /\ Counted(ip)[ip] = (IF bucketMin = clock \div Minute THEN counters[ip] ELSE 0) + 1
         /\ \A other \in IPs \ {ip} :
              Counted(ip)[other] = IF bucketMin = clock \div Minute THEN counters[other] ELSE 0
BY DEF MemoryOK, Counted

-----------------------------------------------------------------------------
LEMMA InitHolds == Init => IInv
<1> SUFFICES ASSUME Init PROVE IInv
    OBVIOUS
<1>1. log = <<>> /\ DOMAIN log = {} /\ \A ip, minute : AcceptedIn(ip, minute) = {}
  BY DEF Init, AcceptedIn
<1>2. MemoryOK
  <2>1. clock = Minute /\ bucketMin = 0 /\ clock \in Nat /\ 0 \in Nat /\ 0 <= clock
    BY LimitsAreNumbers DEF Init
  <2>2. clock \div Minute \in Nat
    BY <2>1, DivMonotone
  <2> QED BY <2>1, <2>2 DEF Init, MemoryOK
<1>3. LogOK
  BY <1>1 DEF LogOK
<1>4. CountsRemembered /\ RateHolds
  <2>1. \A ip, minute : Cardinality(AcceptedIn(ip, minute)) = 0
    BY <1>1, FS_EmptySet
  <2> QED BY <1>1, <1>2, <2>1, LimitsAreNumbers DEF CountsRemembered, RateHolds, MemoryOK
<1>5. VotesRemembered /\ OneVotePerWindow /\ BlocksRemembered /\ BlocksHold
  BY <1>1 DEF VotesRemembered, OneVotePerWindow, Accepted, BlocksRemembered, BlocksHold
<1> QED BY <1>2, <1>3, <1>4, <1>5 DEF IInv

(* Time passes: the minute may end, but no counter is for a later one.      *)
LEMMA TickHolds ==
  ASSUME IInv, clock' \in Nat, clock <= clock', UNCHANGED <<rules, log>>
  PROVE  IInv'
<1>1. clock \in Nat /\ clock \div Minute <= clock' \div Minute
      /\ clock \div Minute \in Nat /\ clock' \div Minute \in Nat
  BY DivMonotone DEF IInv, MemoryOK
<1>2. MemoryOK'
  BY <1>1 DEF IInv, MemoryOK, rules
<1>3. LogOK'
  <2>1. \A i \in DOMAIN log : log[i].at \in Nat
    BY EntriesTyped DEF IInv
  <2> QED BY <1>1, <2>1 DEF IInv, LogOK, Identified
<1>4. VotesRemembered' /\ BlocksRemembered'
  <2>1. \A i \in DOMAIN log : log[i].at \in Nat
    BY EntriesTyped DEF IInv
  <2>2. VotesRemembered'
    BY <1>1, <2>1, LimitsAreNumbers DEF IInv, VotesRemembered, identityKeys, rules
  <2>3. BlocksRemembered'
    BY <1>1, <2>1, LimitsAreNumbers DEF IInv, BlocksRemembered, rules
  <2> QED BY <2>2, <2>3
<1>5. OneVotePerWindow' /\ BlocksHold'
  BY DEF IInv, OneVotePerWindow, Accepted, BlocksHold
<1>6. CountsRemembered' /\ RateHolds'
  BY DEF IInv, CountsRemembered, RateHolds, AcceptedIn, rules
<1> QED BY <1>2, <1>3, <1>4, <1>5, <1>6 DEF IInv

-----------------------------------------------------------------------------
(* Every return of Evaluate, by the part of the memory it writes.           *)
LEMMA MissingReturns ==
  ASSUME IInv, NEW e \in Event, MissingIdentifiers(e)
  PROVE  Returned(e, "missing")
<1>1. MemoryOK' /\ UNCHANGED <<contributionSeen, ipBlockedUntil, bucketMin, counters>>
  BY DEF IInv, MemoryOK, MissingIdentifiers, Return, rules
<1>2. Kept(contributionSeen, contributionSeen') /\ Kept(ipBlockedUntil, ipBlockedUntil')
  BY <1>1 DEF Kept, IInv, MemoryOK
<1> QED BY <1>1, <1>2 DEF Returned, MissingIdentifiers, Return

(* The two maps as the cleanup leaves them keep what they have to.          *)
LEMMA CleaningKeeps ==
  ASSUME MemoryOK
  PROVE  Kept(contributionSeen, Contributions) /\ Kept(ipBlockedUntil, IPBlocks)
<1>1. Kept(contributionSeen, Contributions)
  <2> DEFINE D == Identities \X Queries
  <2>1. contributionSeen \in [D -> Nat]
    BY DEF MemoryOK
  <2>2. \A k \in D : Contributions[k] = contributionSeen[k] \/ contributionSeen[k] <= clock
    BY CleanedMaps
  <2> HIDE DEF D
  <2> QED BY <2>1, <2>2 DEF Kept
<1>2. Kept(ipBlockedUntil, IPBlocks)
  BY CleanedMaps DEF Kept, MemoryOK
<1> QED BY <1>1, <1>2

LEMMA BlockedReturns ==
  ASSUME IInv, NEW e \in Event, IPBlocked(e) \/ SessionBlocked(e)
  PROVE  \E verdict \in {"ip_blocked", "session_blocked"} : Returned(e, verdict)
<1>1. PICK verdict \in {"ip_blocked", "session_blocked"} : Return(e, verdict)
  BY DEF IPBlocked, SessionBlocked
<1>2. /\ UNCHANGED <<bucketMin, counters>>
      /\ contributionSeen' = Contributions /\ ipBlockedUntil' = IPBlocks
  BY DEF IPBlocked, SessionBlocked
<1>3. MemoryOK'
  BY <1>1, <1>2, CleanedMaps DEF IInv, MemoryOK, Return
<1> QED BY <1>1, <1>2, <1>3, CleaningKeeps DEF Returned, Return, IInv

(* The branches that count the request.                                     *)
LEMMA CountReturns ==
  ASSUME IInv, NEW e \in Event, Count(e), clock' = clock
  PROVE  /\ e.ip \in IPs /\ ipBlockedUntil[e.ip] <= clock
         /\ clock \in Nat /\ clock' \in Nat /\ bucketMin' \in Nat
         /\ bucketMin' <= clock' \div Minute
         /\ counters' \in [IPs -> Nat]
<1>1. e.ip \in IPs
  BY KeysAreIdentities DEF Count
<1>2. ipBlockedUntil[e.ip] \in Nat /\ clock \in Nat
  BY <1>1 DEF IInv, MemoryOK
<1>3. ipBlockedUntil[e.ip] <= clock
  BY <1>1, <1>2, CleanedMaps DEF Count, IInv
<1>4. clock \div Minute \in Nat
  BY <1>2, DivMonotone
<1>5. Counted(e.ip) \in [IPs -> Nat]
  BY <1>1, CountedTyped DEF IInv
<1> QED BY <1>1, <1>2, <1>3, <1>4, <1>5 DEF Count

LEMMA OverRateReturns ==
  ASSUME IInv, NEW e \in Event, OverRate(e)
  PROVE  Returned(e, "ip_rate")
<1>1. Count(e) /\ clock' = clock
  BY DEF OverRate, Return
<1>2. contributionSeen' = Contributions
      /\ ipBlockedUntil' = [IPBlocks EXCEPT ![e.ip] = clock + IPBlock]
  BY DEF OverRate
<1>3. clock + IPBlock \in Nat
  BY <1>1, CountReturns, LimitsAreNumbers
<1>4. ipBlockedUntil' \in [IPs -> Nat] /\ ipBlockedUntil'[e.ip] = clock + IPBlock
  BY <1>1, <1>2, <1>3, CleanedMaps, CountReturns DEF IInv
<1>5. MemoryOK'
  BY <1>1, <1>2, <1>4, CleanedMaps, CountReturns DEF IInv, MemoryOK
<1>6. Kept(ipBlockedUntil, ipBlockedUntil')
  <2>1. \A ip \in IPs : ip = e.ip \/ ipBlockedUntil'[ip] = IPBlocks[ip]
    BY <1>2, CleanedMaps DEF IInv
  <2>2. \A ip \in IPs : ip # e.ip =>
          ipBlockedUntil'[ip] >= ipBlockedUntil[ip] \/ ipBlockedUntil[ip] <= clock
    BY <2>1, CleaningKeeps DEF Kept, IInv, MemoryOK
  <2>3. DOMAIN ipBlockedUntil = IPs
    BY DEF IInv, MemoryOK
  <2> QED BY <1>1, <2>2, <2>3, CountReturns DEF Kept
<1> QED BY <1>1, <1>2, <1>4, <1>5, <1>6, CleaningKeeps
           DEF Returned, OverRate, Return, Count, IInv

LEMMA OverCapReturns ==
  ASSUME IInv, NEW e \in Event, OverCap(e)
  PROVE  Returned(e, "cap")
<1>1. Count(e) /\ clock' = clock
  BY DEF OverCap, Return
<1>2. contributionSeen' = Contributions /\ ipBlockedUntil' = IPBlocks
  BY DEF OverCap
<1>3. MemoryOK'
  BY <1>1, <1>2, CleanedMaps, CountReturns DEF IInv, MemoryOK
<1> QED BY <1>1, <1>2, <1>3, CleaningKeeps DEF Returned, OverCap, Return, Count, IInv

(* A vote is recorded where none was in force.                              *)
LEMMA RecordedVote ==
  ASSUME IInv, NEW e \in Event, Identified(e), ~HasVoted(e)
  PROVE  /\ Recorded(e) \in [Identities \X Queries -> Nat]
         /\ Kept(contributionSeen, Recorded(e))
         /\ \A key \in identityKeys(e) :
              /\ contributionSeen[<<key, e.query>>] <= clock
              /\ Recorded(e)[<<key, e.query>>] = clock + ContributionWindow
<1> DEFINE D == Identities \X Queries
           Mine(k) == k[1] \in identityKeys(e) /\ k[2] = e.query
<1>1. contributionSeen \in [D -> Nat] /\ clock \in Nat
  BY DEF IInv, MemoryOK
<1>2. /\ Contributions \in [D -> Nat]
      /\ \A k \in D : Contributions[k] = contributionSeen[k] \/ contributionSeen[k] <= clock
  BY CleanedMaps DEF IInv
<1>3. clock + ContributionWindow \in Nat
  BY <1>1, LimitsAreNumbers
<1>4. Recorded(e) = [k \in D |-> IF Mine(k) THEN clock + ContributionWindow
                                            ELSE Contributions[k]]
  BY DEF Recorded
<1>5. \A key \in identityKeys(e) : <<key, e.query>> \in D /\ Mine(<<key, e.query>>)
  BY KeysAreIdentities
<1>6. \A key \in identityKeys(e) : ~(Contributions[<<key, e.query>>] > clock)
  BY DEF HasVoted
<1>7. \A key \in identityKeys(e) : contributionSeen[<<key, e.query>>] <= clock
  <2> SUFFICES ASSUME NEW key \in identityKeys(e)
               PROVE  contributionSeen[<<key, e.query>>] <= clock
    OBVIOUS
  <2> DEFINE k == <<key, e.query>>
  <2>1. k \in D /\ ~(Contributions[k] > clock)
    BY <1>5, <1>6
  <2> HIDE DEF k, D
  <2>2. contributionSeen[k] <= clock
    BY <1>1, <1>2, <2>1
  <2> QED BY <2>2 DEF k
<1>8. \A k \in D : Mine(k) => contributionSeen[k] <= clock
  <2> SUFFICES ASSUME NEW k \in D, Mine(k) PROVE contributionSeen[k] <= clock
    OBVIOUS
  <2>1. k = <<k[1], e.query>>
    OBVIOUS
  <2> QED BY <1>7, <2>1
<1> HIDE DEF D, Mine
<1>9. Recorded(e) \in [D -> Nat]
  BY <1>2, <1>3, <1>4
<1>10. Kept(contributionSeen, Recorded(e))
  <2> SUFFICES ASSUME NEW k \in D
               PROVE  Recorded(e)[k] >= contributionSeen[k] \/ contributionSeen[k] <= clock
    BY <1>1 DEF Kept
  <2>1. CASE Mine(k)
    BY <1>8, <2>1
  <2>2. CASE ~Mine(k)
    BY <1>1, <1>2, <1>4, <2>2
  <2> QED BY <2>1, <2>2
<1>11. \A key \in identityKeys(e) :
         Recorded(e)[<<key, e.query>>] = clock + ContributionWindow
  BY <1>4, <1>5
<1> QED BY <1>7, <1>9, <1>10, <1>11 DEF D

LEMMA VoteReturns ==
  ASSUME IInv, NEW e \in Event, OverEntropy(e) \/ Accept(e)
  PROVE  \E verdict \in {"entropy", "ok"} : Returned(e, verdict)
<1>1. PICK verdict \in {"entropy", "ok"} : Return(e, verdict)
  BY DEF OverEntropy, Accept
<1>2. /\ Count(e) /\ clock' = clock /\ Identified(e) /\ ~HasVoted(e)
      /\ Counted(e.ip)[e.ip] <= MaxRequests
      /\ contributionSeen' = Recorded(e) /\ ipBlockedUntil' = IPBlocks
  BY DEF OverEntropy, Accept, Return, Count
<1>3. MemoryOK'
  BY <1>2, CleanedMaps, CountReturns, RecordedVote DEF IInv, MemoryOK
<1>4. Kept(contributionSeen, contributionSeen') /\ Kept(ipBlockedUntil, ipBlockedUntil')
  BY <1>2, CleaningKeeps, RecordedVote DEF IInv
<1>5. bucketMin' = clock \div Minute /\ counters' = Counted(e.ip)
  BY <1>2 DEF Count
<1>6. ipBlockedUntil[e.ip] <= clock
  BY <1>2, CountReturns
<1>7. \A key \in identityKeys(e) :
         /\ contributionSeen[<<key, e.query>>] <= clock
         /\ contributionSeen'[<<key, e.query>>] = clock + ContributionWindow
  BY <1>2, RecordedVote
<1> QED BY <1>1, <1>2, <1>3, <1>4, <1>5, <1>6, <1>7 DEF Returned, Return

LEMMA EvaluateReturns ==
  ASSUME IInv, NEW e \in Events, Evaluate(e)
  PROVE  e \in Event /\ \E verdict \in Verdicts : Returned(e, verdict)
<1>1. e \in Event
  BY AntiFraudAssumption
<1> QED BY <1>1, MissingReturns, BlockedReturns, OverRateReturns, OverCapReturns, VoteReturns
           DEF Evaluate, Verdicts

-----------------------------------------------------------------------------
LEMMA LogGrows ==
  ASSUME IInv, NEW e \in Event, NEW verdict \in Verdicts, Returned(e, verdict)
  PROVE  LogOK' /\ \E n \in Nat : Grown(e, verdict, n)
<1> DEFINE new == [event |-> e, at |-> clock, verdict |-> verdict]
           n == Len(log) + 1
<1>1. log \in Seq(Entry) /\ new \in Entry /\ log' = Append(log, new)
  BY DEF IInv, LogOK, MemoryOK, Entry, Returned
<1>2. new.at = clock /\ new.verdict = verdict /\ new.event = e
  OBVIOUS
<1>3. Len(log) \in Nat /\ DOMAIN log = 1..Len(log)
  BY <1>1
<1> HIDE DEF new
<1>4. /\ log' \in Seq(Entry) /\ Len(log') = n
      /\ \A i \in 1..Len(log) : log'[i] = log[i]
      /\ log'[n] = new
  BY <1>1, AppendProperties
<1>5. DOMAIN log' = 1..n
  BY <1>4
<1>6. DOMAIN log' = DOMAIN log \cup {n}
  BY <1>3, <1>5
<1>7. \A i \in DOMAIN log : i \in Nat /\ i < n /\ log'[i] = log[i]
  BY <1>3, <1>4
<1>8. LogOK'
  <2>1. clock' = clock /\ clock \in Nat /\ (verdict \in {"ok", "ip_rate"} => Identified(e))
    BY DEF Returned, IInv, MemoryOK
  <2>2. \A i \in DOMAIN log : /\ log[i].at <= clock
                              /\ log[i].verdict \in {"ok", "ip_rate"} => Identified(log[i].event)
    BY DEF IInv, LogOK
  <2>3. \A i \in DOMAIN log' :
          /\ log'[i].at <= clock
          /\ log'[i].verdict \in {"ok", "ip_rate"} => Identified(log'[i].event)
    BY <1>2, <1>4, <1>6, <1>7, <2>1, <2>2
  <2> QED BY <1>4, <2>1, <2>3 DEF LogOK, Identified
<1>9. n \in Nat /\ Grown(e, verdict, n)
  BY <1>2, <1>3, <1>4, <1>6, <1>7 DEF Grown
<1> QED BY <1>8, <1>9

LEMMA VotesHold ==
  ASSUME IInv, NEW e \in Event, NEW verdict \in Verdicts, Returned(e, verdict)
  PROVE  VotesRemembered' /\ OneVotePerWindow'
<1>1. PICK n \in Nat : Grown(e, verdict, n)
  BY LogGrows
<1>2. /\ DOMAIN log' = DOMAIN log \cup {n}
      /\ \A i \in DOMAIN log : i \in Nat /\ i < n /\ log'[i] = log[i]
      /\ log'[n].event = e /\ log'[n].at = clock /\ log'[n].verdict = verdict
  BY <1>1 DEF Grown
<1>3. clock' = clock /\ clock \in Nat
  BY DEF Returned, IInv, MemoryOK
<1>4. \A i \in DOMAIN log : log[i].at \in Nat /\ log[i].event \in Event
  BY EntriesTyped DEF IInv
<1>5. ContributionWindow \in Nat
  BY LimitsAreNumbers
<1>6. \A i \in DOMAIN log : log[i].verdict = "ok" =>
        \A key \in identityKeys(log[i].event) :
          LET k == <<key, log[i].event.query>>
          IN  /\ contributionSeen[k] >= log[i].at + ContributionWindow
                   \/ clock >= log[i].at + ContributionWindow
              /\ contributionSeen'[k] >= contributionSeen[k] \/ contributionSeen[k] <= clock
              /\ contributionSeen[k] \in Nat /\ contributionSeen'[k] \in Nat
  <2> SUFFICES ASSUME NEW i \in DOMAIN log, log[i].verdict = "ok",
                      NEW key \in identityKeys(log[i].event)
               PROVE  LET k == <<key, log[i].event.query>>
                      IN  /\ contributionSeen[k] >= log[i].at + ContributionWindow
                               \/ clock >= log[i].at + ContributionWindow
                          /\ contributionSeen'[k] >= contributionSeen[k]
                               \/ contributionSeen[k] <= clock
                          /\ contributionSeen[k] \in Nat /\ contributionSeen'[k] \in Nat
    OBVIOUS
  <2> DEFINE k == <<key, log[i].event.query>>
             D == Identities \X Queries
  <2>1. Identified(log[i].event) /\ log[i].event \in Event
    BY <1>4 DEF IInv, LogOK
  <2>2. k \in D
    BY <2>1, KeysAreIdentities
  <2>3. contributionSeen \in [D -> Nat] /\ contributionSeen' \in [D -> Nat]
    BY DEF IInv, MemoryOK, Returned
  <2>4. contributionSeen[k] >= log[i].at + ContributionWindow
          \/ clock >= log[i].at + ContributionWindow
    BY DEF IInv, VotesRemembered
  <2>5. Kept(contributionSeen, contributionSeen')
    BY DEF Returned
  <2> HIDE DEF k, D
  <2>6. contributionSeen'[k] >= contributionSeen[k] \/ contributionSeen[k] <= clock
    BY <2>2, <2>3, <2>5 DEF Kept
  <2>7. contributionSeen[k] \in Nat /\ contributionSeen'[k] \in Nat
    BY <2>2, <2>3
  <2> QED BY <2>4, <2>6, <2>7 DEF k
<1>7. VotesRemembered'
  <2> SUFFICES ASSUME NEW i \in DOMAIN log', log'[i].verdict = "ok",
                      NEW key \in identityKeys(log'[i].event)
               PROVE  contributionSeen'[<<key, log'[i].event.query>>]
                          >= log'[i].at + ContributionWindow
                        \/ clock' >= log'[i].at + ContributionWindow
    BY DEF VotesRemembered, identityKeys
  <2>1. CASE i \in DOMAIN log
    BY <1>2, <1>3, <1>4, <1>5, <1>6, <2>1
  <2>2. CASE i = n
    BY <1>2, <1>3, <1>5, <2>2 DEF Returned
  <2> QED BY <1>2, <2>1, <2>2
<1>8. OneVotePerWindow'
  <2> SUFFICES ASSUME NEW i \in DOMAIN log', NEW j \in DOMAIN log', i < j,
                      log'[i].verdict = "ok", log'[j].verdict = "ok",
                      log'[i].event.query = log'[j].event.query,
                      \/ log'[i].event.ip = log'[j].event.ip
                      \/ log'[i].event.session = log'[j].event.session
                      \/ /\ log'[i].event.user = log'[j].event.user
                         /\ log'[i].event.user # NoId
               PROVE  log'[j].at >= log'[i].at + ContributionWindow
    BY DEF OneVotePerWindow, Accepted
  <2>1. CASE i \in DOMAIN log /\ j \in DOMAIN log
    BY <1>2, <2>1 DEF IInv, OneVotePerWindow, Accepted
  <2>2. CASE i \in DOMAIN log /\ j = n
    <3>1. /\ log[i].verdict = "ok" /\ verdict = "ok" /\ log[i].event.query = e.query
          /\ \/ log[i].event.ip = e.ip
             \/ log[i].event.session = e.session
             \/ log[i].event.user = e.user /\ e.user # NoId
      BY <1>2, <2>2
    <3>2. PICK key \in identityKeys(e) : key \in identityKeys(log[i].event)
      BY <3>1 DEF identityKeys
    <3>3. contributionSeen[<<key, e.query>>] <= clock
      BY <3>1, <3>2 DEF Returned
    <3>4. /\ contributionSeen[<<key, e.query>>] >= log[i].at + ContributionWindow
               \/ clock >= log[i].at + ContributionWindow
          /\ contributionSeen[<<key, e.query>>] \in Nat
      BY <1>6, <2>2, <3>1, <3>2
    <3>5. clock >= log[i].at + ContributionWindow
      BY <1>3, <1>4, <1>5, <2>2, <3>3, <3>4
    <3> QED BY <1>2, <2>2, <3>5
  <2>3. CASE i = n
    BY <1>2, <2>3
  <2> QED BY <1>2, <2>1, <2>2, <2>3
<1> QED BY <1>7, <1>8

LEMMA BlocksAreHeld ==
  ASSUME IInv, NEW e \in Event, NEW verdict \in Verdicts, Returned(e, verdict)
  PROVE  BlocksRemembered' /\ BlocksHold'
<1>1. PICK n \in Nat : Grown(e, verdict, n)
  BY LogGrows
<1>2. /\ DOMAIN log' = DOMAIN log \cup {n}
      /\ \A i \in DOMAIN log : i \in Nat /\ i < n /\ log'[i] = log[i]
      /\ log'[n].event = e /\ log'[n].at = clock /\ log'[n].verdict = verdict
  BY <1>1 DEF Grown
<1>3. clock' = clock /\ clock \in Nat /\ IPBlock \in Nat
  BY LimitsAreNumbers DEF Returned, IInv, MemoryOK
<1>4. ipBlockedUntil \in [IPs -> Nat] /\ ipBlockedUntil' \in [IPs -> Nat]
  BY DEF Returned, IInv, MemoryOK
<1>5. \A i \in DOMAIN log : log[i].verdict = "ip_rate" =>
        /\ log[i].at \in Nat /\ log[i].event.ip \in IPs
        /\ ipBlockedUntil[log[i].event.ip] >= log[i].at + IPBlock
             \/ clock >= log[i].at + IPBlock
  <2> SUFFICES ASSUME NEW i \in DOMAIN log, log[i].verdict = "ip_rate"
               PROVE  log[i].at \in Nat /\ log[i].event.ip \in IPs
    BY DEF IInv, BlocksRemembered
  <2>1. log[i].at \in Nat /\ log[i].event \in Event /\ Identified(log[i].event)
    BY EntriesTyped DEF IInv, LogOK
  <2> QED BY <2>1, KeysAreIdentities
<1>6. \A ip \in IPs : ipBlockedUntil'[ip] >= ipBlockedUntil[ip] \/ ipBlockedUntil[ip] <= clock
  BY <1>4 DEF Returned, Kept
<1>7. BlocksRemembered'
  <2> SUFFICES ASSUME NEW i \in DOMAIN log', log'[i].verdict = "ip_rate"
               PROVE  ipBlockedUntil'[log'[i].event.ip] >= log'[i].at + IPBlock
                        \/ clock' >= log'[i].at + IPBlock
    BY DEF BlocksRemembered
  <2>1. CASE i \in DOMAIN log
    <3> DEFINE ip == log[i].event.ip
    <3>1. /\ log'[i] = log[i] /\ log[i].at \in Nat /\ ip \in IPs
          /\ ipBlockedUntil[ip] >= log[i].at + IPBlock \/ clock >= log[i].at + IPBlock
      BY <1>2, <1>5, <2>1
    <3> HIDE DEF ip
    <3>2. ipBlockedUntil'[ip] >= log[i].at + IPBlock \/ clock >= log[i].at + IPBlock
      BY <1>3, <1>4, <1>6, <3>1
    <3> QED BY <1>3, <3>1, <3>2 DEF ip
  <2>2. CASE i = n
    BY <1>2, <1>3, <2>2 DEF Returned
  <2> QED BY <1>2, <2>1, <2>2
<1>8. BlocksHold'
  <2> SUFFICES ASSUME NEW i \in DOMAIN log', NEW j \in DOMAIN log', i < j,
                      log'[i].verdict = "ip_rate", log'[j].verdict = "ok",
                      log'[i].event.ip = log'[j].event.ip
               PROVE  log'[j].at >= log'[i].at + IPBlock
    BY DEF BlocksHold
  <2>1. CASE i \in DOMAIN log /\ j \in DOMAIN log
    BY <1>2, <2>1 DEF IInv, BlocksHold
  <2>2. CASE i \in DOMAIN log /\ j = n
    <3>1. log[i].verdict = "ip_rate" /\ log[i].event.ip = e.ip /\ verdict = "ok"
      BY <1>2, <2>2
    <3>2. ipBlockedUntil[e.ip] <= clock
      BY <3>1 DEF Returned
    <3>3. clock >= log[i].at + IPBlock
      BY <1>3, <1>4, <1>5, <2>2, <3>1, <3>2
    <3> QED BY <1>2, <2>2, <3>3
  <2>3. CASE i = n
    BY <1>2, <2>3
  <2> QED BY <1>2, <2>1, <2>2, <2>3
<1> QED BY <1>7, <1>8

(* The new entry joins the accepted of its address and minute, if it is one *)
(* of them, and no others.                                                  *)
LEMMA AcceptedGrow ==
  ASSUME IInv, NEW e \in Event, NEW verdict \in Verdicts, Returned(e, verdict),
         NEW ip, NEW minute
  PROVE  LET S == AcceptedIn(ip, minute)
         IN  /\ Cardinality(S) \in Nat
             /\ IF verdict = "ok" /\ e.ip = ip /\ clock \div Minute = minute
                THEN Cardinality(AcceptedIn(ip, minute)') = Cardinality(S) + 1
                ELSE AcceptedIn(ip, minute)' = S
<1> DEFINE S == AcceptedIn(ip, minute)
           Joins == verdict = "ok" /\ e.ip = ip /\ clock \div Minute = minute
<1>1. PICK n \in Nat : Grown(e, verdict, n)
  BY LogGrows
<1>2. IsFiniteSet(S) /\ Cardinality(S) \in Nat
  <2>1. Len(log) \in Nat /\ DOMAIN log = 1..Len(log)
    BY DEF IInv, LogOK
  <2>2. S \in SUBSET (1..Len(log)) /\ IsFiniteSet(1..Len(log))
    BY <2>1, FS_Interval DEF AcceptedIn
  <2> QED BY <2>2, FS_Subset, FS_CardinalityType
<1>3. n \notin S
  BY <1>1 DEF Grown, AcceptedIn
<1>4. AcceptedIn(ip, minute)' = IF Joins THEN S \cup {n} ELSE S
  BY <1>1 DEF Grown, AcceptedIn
<1> HIDE DEF S
<1>5. Cardinality(S \cup {n}) = Cardinality(S) + 1
  BY <1>2, <1>3, FS_AddElement
<1> QED BY <1>2, <1>4, <1>5 DEF S

(* A minute later than the counters' has no accepted entry yet.             *)
LEMMA NoneLater ==
  ASSUME IInv, NEW ip, NEW minute \in Nat, bucketMin < minute
  PROVE  AcceptedIn(ip, minute) = {} /\ Cardinality(AcceptedIn(ip, minute)) = 0
<1>1. \A i \in DOMAIN log : log[i].verdict = "ok" => log[i].at \div Minute <= bucketMin
  BY DEF IInv, CountsRemembered
<1>2. bucketMin \in Nat /\ ~(minute <= bucketMin)
  BY DEF IInv, MemoryOK
<1>3. AcceptedIn(ip, minute) = {}
  BY <1>1, <1>2 DEF AcceptedIn
<1> QED BY <1>3, FS_EmptySet

LEMMA CountsHold ==
  ASSUME IInv, NEW e \in Event, NEW verdict \in Verdicts, Returned(e, verdict)
  PROVE  CountsRemembered' /\ RateHolds'
<1>0. PICK now \in Nat, old \in Nat : now = clock \div Minute /\ old = bucketMin
  BY DivMonotone DEF IInv, MemoryOK
<1>1. /\ clock \in Nat /\ clock' = clock /\ old <= now
      /\ counters \in [IPs -> Nat] /\ counters' \in [IPs -> Nat] /\ MaxRequests \in Nat
  BY <1>0, LimitsAreNumbers DEF IInv, MemoryOK, Returned
<1>2. verdict = "ok" => bucketMin' = now
  BY <1>0 DEF Returned
<1>3. bucketMin' \in {old, now} /\ old <= bucketMin'
  BY <1>0, <1>1 DEF Returned
<1>4. \A ip, minute : Cardinality(AcceptedIn(ip, minute)) \in Nat
  BY AcceptedGrow
(* After this step the counters still count enough.                         *)
<1>5. ASSUME NEW ip \in IPs
      PROVE  Cardinality(AcceptedIn(ip, bucketMin)') <= counters'[ip]
  <2>1. Cardinality(AcceptedIn(ip, old)) <= counters[ip] /\ counters[ip] \in Nat
    BY <1>0, <1>1 DEF IInv, CountsRemembered
  <2>2. CASE verdict # "ok" /\ UNCHANGED <<bucketMin, counters>>
    <3>1. AcceptedIn(ip, old)' = AcceptedIn(ip, old)
      BY <2>2, AcceptedGrow
    <3>2. AcceptedIn(ip, bucketMin)' = AcceptedIn(ip, old)'
      BY <1>0, <2>2 DEF AcceptedIn
    <3> QED BY <2>1, <2>2, <3>1, <3>2
  <2>3. CASE /\ Identified(e)
             /\ bucketMin' = now /\ counters' = Counted(e.ip)
    <3> DEFINE before == IF old = now THEN counters[ip] ELSE 0
    <3>1. Cardinality(AcceptedIn(ip, now)) <= before /\ before \in Nat
      <4>1. CASE old = now
        BY <2>1, <4>1
      <4>2. CASE old < now
        BY <1>0, <4>2, NoneLater
      <4> QED BY <1>1, <4>1, <4>2
    <3>2. counters'[ip] = IF ip = e.ip THEN before + 1 ELSE before
      BY <1>0, <2>3, CountedTyped, KeysAreIdentities DEF IInv
    <3>3. \/ /\ ip = e.ip
             /\ Cardinality(AcceptedIn(ip, now)') = Cardinality(AcceptedIn(ip, now)) + 1
          \/ AcceptedIn(ip, now)' = AcceptedIn(ip, now)
      BY <1>0, AcceptedGrow
    <3>4. Cardinality(AcceptedIn(ip, now)') <= counters'[ip]
      BY <1>4, <3>1, <3>2, <3>3
    <3>5. AcceptedIn(ip, bucketMin)' = AcceptedIn(ip, now)'
      BY <1>0, <2>3 DEF AcceptedIn
    <3> QED BY <3>4, <3>5
  <2> QED BY <1>0, <2>2, <2>3 DEF Returned
<1>6. \A i \in DOMAIN log' : log'[i].verdict = "ok" => log'[i].at \div Minute <= bucketMin'
  <2>1. PICK n \in Nat : Grown(e, verdict, n)
    BY LogGrows
  <2> SUFFICES ASSUME NEW i \in DOMAIN log', log'[i].verdict = "ok"
               PROVE  log'[i].at \div Minute <= bucketMin'
    OBVIOUS
  <2>2. CASE i \in DOMAIN log
    <3>1. log'[i] = log[i] /\ log[i].at \in Nat
      BY <2>1, <2>2, EntriesTyped DEF Grown, IInv
    <3>2. log[i].at \div Minute <= old /\ log[i].at \div Minute \in Nat
      BY <1>0, <2>2, <3>1, DivMonotone DEF IInv, CountsRemembered
    <3> QED BY <1>1, <1>3, <3>1, <3>2
  <2>3. CASE i = n
    BY <1>0, <1>1, <1>2, <2>1, <2>3 DEF Grown
  <2> QED BY <2>1, <2>2, <2>3 DEF Grown
<1>7. CountsRemembered'
  BY <1>5, <1>6 DEF CountsRemembered
<1>8. RateHolds'
  <2> SUFFICES ASSUME NEW ip \in IPs, NEW minute \in Nat
               PROVE  Cardinality(AcceptedIn(ip, minute)') <= MaxRequests
    BY DEF RateHolds
  <2>1. CASE verdict = "ok" /\ e.ip = ip /\ now = minute
    <3>1. counters'[ip] <= MaxRequests
      BY <1>0, <2>1 DEF Returned
    <3>2. AcceptedIn(ip, minute)' = AcceptedIn(ip, bucketMin)'
      BY <1>2, <2>1 DEF AcceptedIn
    <3>3. Cardinality(AcceptedIn(ip, minute)') \in Nat
      BY <1>0, <1>4, <2>1, AcceptedGrow
    <3> QED BY <1>1, <1>5, <3>1, <3>2, <3>3
  <2>2. CASE ~(verdict = "ok" /\ e.ip = ip /\ now = minute)
    <3>1. AcceptedIn(ip, minute)' = AcceptedIn(ip, minute)
      BY <1>0, <2>2, AcceptedGrow
    <3> QED BY <3>1 DEF IInv, RateHolds
  <2> QED BY <2>1, <2>2
<1> QED BY <1>7, <1>8

-----------------------------------------------------------------------------
(* Every step of the evaluator preserves the invariant.                     *)
LEMMA StepHolds == IInv /\ [Next]_vars => IInv'
<1> SUFFICES ASSUME IInv, [Next]_vars PROVE IInv'
    OBVIOUS
<1>1. clock \in Nat
  BY DEF IInv, MemoryOK
<1>2. CASE UNCHANGED vars \/ BoundsReached
  <2>1. clock' = clock /\ UNCHANGED <<rules, log>>
    BY <1>2 DEF vars, BoundsReached
  <2> QED BY <1>1, <2>1, TickHolds
<1>3. CASE Tick
  <2>1. clock' = clock + 1 /\ UNCHANGED <<rules, log>>
    BY <1>3 DEF Tick
  <2> QED BY <1>1, <2>1, TickHolds
<1>4. CASE \E e \in Events : Evaluate(e)
  <2>1. PICK e \in Event, verdict \in Verdicts : Returned(e, verdict)
    BY <1>4, EvaluateReturns
  <2>2. MemoryOK' /\ LogOK'
    BY <2>1, LogGrows DEF Returned
  <2> QED BY <2>1, <2>2, VotesHold, BlocksAreHeld, CountsHold DEF IInv
<1> QED BY <1>2, <1>3, <1>4 DEF Next

(* What the maps and counters of the rules remember of the log, in every    *)
(* reachable state: the inductive invariant of rules.go's Evaluate.         *)
THEOREM Invariance == Spec => []IInv
<1> QED BY InitHolds, StepHolds, PTL DEF Spec

(* Two accepted votes for one query that share an address, a session or a   *)
(* user are a contribution window apart, whatever the events, the limits    *)
(* and the cleanups in between.                                             *)
THEOREM VotesApart == Spec => []OneVotePerWindow
<1>1. IInv => OneVotePerWindow
  BY DEF IInv
<1> QED BY <1>1, Invariance, PTL

(* No address is accepted more than MaxRequests times in a minute, nor      *)
(* while the block of an earlier excess lasts.                              *)
THEOREM RateLimited == Spec => []RateBounded
<1>1. IInv => RateBounded
  <2> SUFFICES ASSUME IInv PROVE RateBounded
    OBVIOUS
  <2>1. ASSUME NEW i \in Accepted
        PROVE  Cardinality({j \in Accepted :
                              /\ log[j].event.ip = log[i].event.ip
                              /\ log[j].at \div Minute = log[i].at \div Minute}) <= MaxRequests
    <3> DEFINE ip == log[i].event.ip
               minute == log[i].at \div Minute
    <3>1. i \in DOMAIN log /\ log[i].verdict = "ok"
      BY DEF Accepted
    <3>2. log[i].at \in Nat /\ log[i].event \in Event /\ Identified(log[i].event)
      BY <3>1, EntriesTyped DEF IInv, LogOK
    <3>3. ip \in IPs /\ minute \in Nat
      BY <3>2, DivMonotone, KeysAreIdentities
    <3>4. {j \in Accepted : log[j].event.ip = ip /\ log[j].at \div Minute = minute}
            = AcceptedIn(ip, minute)
      BY DEF Accepted, AcceptedIn
    <3>5. Cardinality(AcceptedIn(ip, minute)) <= MaxRequests
      BY <3>3 DEF IInv, RateHolds
    <3> QED BY <3>4, <3>5
  <2>2. \A i \in DOMAIN log, j \in Accepted :
          (i < j /\ log[i].verdict = "ip_rate" /\ log[i].event.ip = log[j].event.ip)
            => log[j].at >= log[i].at + IPBlock
    BY DEF IInv, BlocksHold, Accepted
  <2> QED BY <2>1, <2>2 DEF RateBounded
<1> QED BY <1>1, Invariance, PTL
=============================================================================
