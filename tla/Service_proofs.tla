--------------------------- MODULE Service_proofs ---------------------------
(* However often an event is delivered, and however the stop words change   *)
(* meanwhile, its votes are TTL apart, and the votes of one source for one  *)
(* query a contribution window: for all events, words, requests and faults. *)
EXTENDS Service, FiniteSetTheorems, TLAPS

(* What is proved of the stop-list.                                         *)
List == INSTANCE StopListSync_proofs

-----------------------------------------------------------------------------
(* What CountedOnce asks of two votes.                                      *)
Apart(u, v) ==
  /\ u.event = v.event => v.at - u.at >= TTL
  /\ (Events[u.event].source = Events[v.event].source /\ u.query = v.query)
       => v.at - u.at >= ContributionWindow

(* At time now, with store ids and contributions noted, a vote is           *)
(* remembered or as old as it must be.                                      *)
Remembered(v, now, ids, noted) ==
  /\ v.event \in DOMAIN Events /\ v.at \in Nat /\ v.at <= now
  /\ ids[v.event] >= v.at + TTL \/ now >= v.at + TTL
  /\ \/ now >= v.at + ContributionWindow
     \/ \E c \in noted : /\ c.source = Events[v.event].source /\ c.query = v.query
                         /\ c.until >= v.at + ContributionWindow

MemoryOK ==
  /\ clock \in Nat
  /\ seen \in [DOMAIN Events -> Nat]
  /\ \A c \in contributions : c.until \in Nat

VotesOK ==
  /\ \E S : votes \in Seq(S)
  /\ inHand = NoVote \/ \E v : inHand = <<v>>

AllRemembered ==
  /\ \A i \in DOMAIN votes : Remembered(votes[i], clock, seen, contributions)
  /\ inHand # NoVote => Remembered(inHand[1], clock, seen, contributions)

AllApart ==
  /\ \A i, j \in DOMAIN votes : i < j => Apart(votes[i], votes[j])
  /\ inHand # NoVote => \A i \in DOMAIN votes : Apart(votes[i], inHand[1])

IInv == MemoryOK /\ VotesOK /\ AllRemembered /\ AllApart

-----------------------------------------------------------------------------
(* A vote stays remembered while the clock goes on and the store and the    *)
(* rules forget only what has expired.                                      *)
LEMMA StaysRemembered ==
  ASSUME NEW v, NEW now \in Nat, NEW later \in Nat, now <= later,
         NEW ids \in [DOMAIN Events -> Nat], NEW ids2 \in [DOMAIN Events -> Nat],
         NEW noted, NEW noted2, \A c \in noted : c.until \in Nat,
         Remembered(v, now, ids, noted),
         \A e \in DOMAIN Events : ids2[e] = ids[e] \/ ids[e] <= later,
         \A c \in noted : c \in noted2 \/ c.until <= later
  PROVE  Remembered(v, later, ids2, noted2)
<1>1. v.event \in DOMAIN Events /\ v.at \in Nat /\ v.at <= now
  BY DEF Remembered
<1>2. TTL \in Nat /\ ContributionWindow \in Nat
  BY ServiceAssumption
<1>3. v.at <= later
  BY <1>1
<1>4. ids2[v.event] >= v.at + TTL \/ later >= v.at + TTL
  <2>1. ids[v.event] \in Nat /\ ids2[v.event] \in Nat
    BY <1>1
  <2>2. ids[v.event] >= v.at + TTL \/ now >= v.at + TTL
    BY DEF Remembered
  <2>3. ids2[v.event] = ids[v.event] \/ ids[v.event] <= later
    BY <1>1
  <2> QED BY <1>1, <1>2, <2>1, <2>2, <2>3
<1>5. \/ later >= v.at + ContributionWindow
      \/ \E c \in noted2 : /\ c.source = Events[v.event].source /\ c.query = v.query
                           /\ c.until >= v.at + ContributionWindow
  <2>1. CASE now >= v.at + ContributionWindow
    BY <1>1, <1>2, <2>1
  <2>2. CASE \E c \in noted : /\ c.source = Events[v.event].source /\ c.query = v.query
                              /\ c.until >= v.at + ContributionWindow
    <3>1. PICK c \in noted : /\ c.source = Events[v.event].source /\ c.query = v.query
                             /\ c.until >= v.at + ContributionWindow
      BY <2>2
    <3>2. CASE c \in noted2
      BY <3>1, <3>2
    <3>3. CASE c.until <= later
      <4>1. c.until \in Nat
        BY <3>1
      <4> QED BY <1>1, <1>2, <3>1, <3>3, <4>1
    <3> QED BY <3>1, <3>2, <3>3
  <2> QED BY <2>1, <2>2 DEF Remembered
<1> QED BY <1>1, <1>3, <1>4, <1>5 DEF Remembered

LEMMA InitHolds == Init => IInv
<1> SUFFICES ASSUME Init PROVE IInv
    OBVIOUS
<1>1. MemoryOK
  BY DEF Init, MemoryOK
<1>2. votes = <<>> /\ inHand = NoVote /\ DOMAIN votes = {}
  BY DEF Init
<1> QED BY <1>1, <1>2 DEF IInv, VotesOK, AllRemembered, AllApart

-----------------------------------------------------------------------------
(* A process that dies forgets votes and memory alike.                      *)
LEMMA CrashHolds == ASSUME IInv, Crash PROVE IInv'
<1>1. MemoryOK'
  BY DEF IInv, MemoryOK, Crash, Forget
<1>2. votes' = <<>> /\ inHand' = NoVote /\ DOMAIN votes' = {}
  BY DEF Crash, Forget
<1> QED BY <1>1, <1>2 DEF IInv, VotesOK, AllRemembered, AllApart

(* Time passes, or an admin or the boot has a step: at most the clock       *)
(* changes.                                                                 *)
LEMMA QuietHolds ==
  ASSUME IInv, clock' \in Nat, clock <= clock',
         UNCHANGED <<seen, contributions, inHand, votes>>
  PROVE  IInv'
<1>1. MemoryOK'
  BY DEF IInv, MemoryOK
<1>2. VotesOK' /\ AllApart'
  BY DEF IInv, VotesOK, AllApart
<1>3. ASSUME NEW v, Remembered(v, clock, seen, contributions)
      PROVE  Remembered(v, clock', seen', contributions')
  BY <1>3, StaysRemembered DEF IInv, MemoryOK
<1>4. AllRemembered'
  BY <1>3 DEF IInv, AllRemembered
<1> QED BY <1>1, <1>2, <1>4 DEF IInv

(* What SeenOrAdd and the rules do to the memory: they forget only what has *)
(* expired.                                                                 *)
LEMMA ForgetsExpired ==
  ASSUME MemoryOK, NEW e \in DOMAIN Events, clock' = clock, seen' = Noted(e),
         \/ contributions' = contributions
         \/ contributions' = Live
         \/ contributions' = Live \cup {Contribution(e)}
  PROVE  /\ MemoryOK'
         /\ \A i \in DOMAIN Events : seen'[i] = seen[i] \/ seen[i] <= clock
         /\ \A c \in contributions : c \in contributions' \/ c.until <= clock
<1>1. TTL \in Nat /\ ContributionWindow \in Nat
  BY ServiceAssumption
<1>2. clock \in Nat /\ seen \in [DOMAIN Events -> Nat] /\ \A c \in contributions : c.until \in Nat
  BY DEF MemoryOK
<1>3. seen' \in [DOMAIN Events -> Nat]
  BY <1>1, <1>2 DEF Noted
<1>4. \A i \in DOMAIN Events : seen'[i] = seen[i] \/ seen[i] <= clock
  BY <1>1, <1>2 DEF Noted
<1>5. Contribution(e).until \in Nat
  BY <1>1, <1>2 DEF Contribution
<1>6. \A c \in contributions' : c.until \in Nat
  BY <1>2, <1>5 DEF Live
<1>7. \A c \in contributions : c \in contributions' \/ c.until <= clock
  BY <1>2 DEF Live
<1> QED BY <1>2, <1>3, <1>4, <1>6, <1>7 DEF MemoryOK

(* A message that is not counted.                                           *)
LEMMA DroppedHolds ==
  ASSUME IInv, NEW e \in DOMAIN Events, UNCHANGED <<clock, inHand, votes>>,
         seen' = Noted(e),
         \/ contributions' = contributions
         \/ contributions' = Live
         \/ contributions' = Live \cup {Contribution(e)}
  PROVE  IInv'
<1>1. /\ MemoryOK /\ MemoryOK'
      /\ \A i \in DOMAIN Events : seen'[i] = seen[i] \/ seen[i] <= clock
      /\ \A c \in contributions : c \in contributions' \/ c.until <= clock
  BY ForgetsExpired DEF IInv
<1>2. VotesOK' /\ AllApart'
  BY DEF IInv, VotesOK, AllApart
<1>3. ASSUME NEW v, Remembered(v, clock, seen, contributions)
      PROVE  Remembered(v, clock', seen', contributions')
  BY <1>1, <1>3, StaysRemembered DEF MemoryOK
<1>4. AllRemembered'
  BY <1>3 DEF IInv, AllRemembered
<1> QED BY <1>1, <1>2, <1>4 DEF IInv

(* A message that is: what the store and the cap have forgotten is old      *)
(* enough.                                                                  *)
LEMMA AcceptedHolds ==
  ASSUME IInv, NEW e \in DOMAIN Events, IsAccepted(e)
  PROVE  IInv'
<1> DEFINE v == [event |-> e, query |-> Normalize(e), at |-> clock]
<1>1. /\ clock' = clock /\ votes' = votes /\ inHand = NoVote /\ inHand' = <<v>>
      /\ seen' = Noted(e) /\ contributions' = Live \cup {Contribution(e)}
      /\ ~Duplicate(e) /\ ~HasVoted(e)
  BY DEF IsAccepted, IsNew, Receive
<1>2. /\ MemoryOK /\ MemoryOK'
      /\ \A i \in DOMAIN Events : seen'[i] = seen[i] \/ seen[i] <= clock
      /\ \A c \in contributions : c \in contributions' \/ c.until <= clock
  BY <1>1, ForgetsExpired DEF IInv
<1>3. TTL \in Nat /\ ContributionWindow \in Nat /\ clock \in Nat
  BY <1>2, ServiceAssumption DEF MemoryOK
<1>4. v.event = e /\ v.query = Normalize(e) /\ v.at = clock /\ <<v>>[1] = v /\ <<v>> # NoVote
  BY DEF NoVote
<1> HIDE DEF v
<1>5. VotesOK'
  BY <1>1 DEF IInv, VotesOK
<1>6. Remembered(v, clock', seen', contributions')
  <2>1. seen'[e] >= clock + TTL
    BY <1>1, <1>2, <1>3 DEF Noted, Duplicate, MemoryOK
  <2>2. /\ Contribution(e) \in contributions'
        /\ Contribution(e).source = Events[e].source
        /\ Contribution(e).query = Normalize(e)
        /\ Contribution(e).until = clock + ContributionWindow
    BY <1>1 DEF Contribution
  <2> QED BY <1>1, <1>3, <1>4, <2>1, <2>2 DEF Remembered
<1>7. ASSUME NEW u, Remembered(u, clock, seen, contributions)
      PROVE  Remembered(u, clock', seen', contributions') /\ Apart(u, v)
  <2>1. Remembered(u, clock', seen', contributions')
    BY <1>1, <1>2, <1>7, StaysRemembered DEF MemoryOK
  <2>2. u.at \in Nat /\ u.event \in DOMAIN Events
    BY <1>7 DEF Remembered
  <2>3. ASSUME u.event = e PROVE clock >= u.at + TTL
    <3>1. seen[e] \in Nat /\ seen[e] <= clock
      BY <1>1, <1>2 DEF MemoryOK, Duplicate
    <3> QED BY <1>3, <1>7, <2>2, <2>3, <3>1 DEF Remembered
  <2>4. ASSUME Events[u.event].source = Events[e].source, u.query = Normalize(e)
        PROVE  clock >= u.at + ContributionWindow
    <3>1. \A c \in contributions :
            (c.source = Events[e].source /\ c.query = Normalize(e)) => c.until <= clock
      BY <1>1, <1>2, <1>3 DEF HasVoted, Live, MemoryOK
    <3>2. \A c \in contributions : c.until \in Nat
      BY <1>2 DEF MemoryOK
    <3> QED BY <1>3, <1>7, <2>2, <2>4, <3>1, <3>2 DEF Remembered
  <2>5. Apart(u, v)
    BY <1>3, <1>4, <2>2, <2>3, <2>4 DEF Apart
  <2> QED BY <2>1, <2>5
<1>8. AllRemembered'
  BY <1>1, <1>4, <1>6, <1>7 DEF IInv, AllRemembered
<1>9. AllApart'
  BY <1>1, <1>4, <1>7 DEF IInv, AllApart, AllRemembered
<1> QED BY <1>2, <1>5, <1>8, <1>9 DEF IInv

(* The vote in hand becomes the last of the votes.                          *)
LEMMA AddHolds == ASSUME IInv, Add PROVE IInv'
<1>1. /\ clock' = clock /\ seen' = seen /\ contributions' = contributions
      /\ inHand # NoVote /\ inHand' = NoVote /\ votes' = Append(votes, Head(inHand))
  BY DEF Add
<1>2. PICK v : inHand = <<v>>
  BY <1>1 DEF IInv, VotesOK
<1>3. PICK S : votes \in Seq(S)
  BY DEF IInv, VotesOK
<1>4. Head(inHand) = v /\ inHand[1] = v
  BY <1>2
<1>5. /\ votes' \in Seq(S \cup {v})
      /\ DOMAIN votes' = 1..(Len(votes) + 1) /\ DOMAIN votes = 1..Len(votes)
      /\ Len(votes) \in Nat
      /\ votes'[Len(votes) + 1] = v
      /\ \A i \in 1..Len(votes) : votes'[i] = votes[i]
  BY <1>1, <1>3, <1>4
<1>6. MemoryOK' /\ VotesOK'
  BY <1>1, <1>5 DEF IInv, MemoryOK, VotesOK
<1>7. AllRemembered'
  BY <1>1, <1>4, <1>5 DEF IInv, AllRemembered
<1>8. AllApart'
  <2> SUFFICES ASSUME NEW i \in DOMAIN votes', NEW j \in DOMAIN votes', i < j
               PROVE  Apart(votes'[i], votes'[j])
      BY <1>1 DEF AllApart
  <2>1. i \in 1..Len(votes)
    BY <1>5
  <2>2. CASE j \in 1..Len(votes)
    BY <1>5, <2>1, <2>2 DEF IInv, AllApart
  <2>3. CASE j = Len(votes) + 1
    BY <1>1, <1>4, <1>5, <2>1, <2>3 DEF IInv, AllApart
  <2> QED BY <1>5, <2>2, <2>3
<1> QED BY <1>6, <1>7, <1>8 DEF IInv

-----------------------------------------------------------------------------
LEMMA StepHolds == IInv /\ [Next]_vars => IInv'
<1> SUFFICES ASSUME IInv, [Next]_vars PROVE IInv'
    OBVIOUS
<1>0. clock \in Nat
  BY DEF IInv, MemoryOK
<1>1. ASSUME NEW e \in DOMAIN Events, BreaksContract(e) PROVE IInv'
  <2>1. UNCHANGED <<clock, seen, contributions, inHand, votes>>
    BY <1>1 DEF BreaksContract, Receive, Drop
  <2> QED BY <1>0, <2>1, QuietHolds
<1>2. ASSUME NEW e \in DOMAIN Events, IsDuplicate(e) \/ IsUnusable(e) PROVE IInv'
  <2>1. /\ UNCHANGED <<clock, inHand, votes>> /\ seen' = Noted(e)
        /\ contributions' = contributions
    BY <1>2 DEF IsDuplicate, IsUnusable, IsNew, Receive, Drop
  <2> QED BY <2>1, DroppedHolds
<1>3. ASSUME NEW e \in DOMAIN Events, IsRefused(e) PROVE IInv'
  <2>1. /\ UNCHANGED <<clock, inHand, votes>> /\ seen' = Noted(e)
        /\ \/ contributions' = Live
           \/ contributions' = Live \cup {Contribution(e)}
    BY <1>3 DEF IsRefused, IsNew, Receive, Drop
  <2> QED BY <2>1, DroppedHolds
<1>4. ASSUME NEW e \in DOMAIN Events, IsAccepted(e) PROVE IInv'
  BY <1>4, AcceptedHolds
<1>5. CASE Add
  BY <1>5, AddHolds
<1>6. CASE Crash
  BY <1>6, CrashHolds
<1>7. CASE Admin \/ Boot \/ UNCHANGED vars
  <2>1. UNCHANGED <<clock, seen, contributions, inHand, votes>>
    BY <1>7 DEF Admin, Boot, vars, pipeline, memory
  <2> QED BY <1>0, <2>1, QuietHolds
<1>8. CASE Tick
  <2>1. clock' = clock + 1 /\ UNCHANGED <<seen, contributions, inHand, votes>>
    BY <1>8 DEF Tick, pipeline, memory
  <2> QED BY <1>0, <2>1, QuietHolds
<1> QED
  BY Zenon, <1>1, <1>2, <1>3, <1>4, <1>5, <1>6, <1>7, <1>8 DEF Next

(* The invariant holds in every reachable state.                            *)
THEOREM Invariance == Spec => []IInv
BY InitHolds, StepHolds, PTL DEF Spec

(* However often an event is delivered and whatever stop words are changed, *)
(* it is counted once in a TTL, and its source once per query in a          *)
(* contribution window.                                                     *)
THEOREM CountedApart == Spec => []CountedOnce
<1>1. IInv => CountedOnce
  BY DEF IInv, AllApart, Apart, CountedOnce
<1> QED BY <1>1, Invariance, PTL

-----------------------------------------------------------------------------
(* The normalizer.                                                          *)

(* The number of places up to one that is kept, and the place of a number.  *)
UpTo(e, i) == {j \in Kept(e) : j <= i}

LEMMA TokensType ==
  ASSUME NEW e \in DOMAIN Events
  PROVE  /\ Events[e].tokens \in Seq(Tokens) /\ Events[e].source \in Sources
         /\ Events[e].contract \in Verdicts /\ Events[e].stamp \in Nat
         /\ IsFiniteSet(Kept(e)) /\ Cardinality(Kept(e)) \in Nat
         /\ Kept(e) \subseteq Nat
<1>1. /\ Events[e].tokens \in Seq(Tokens) /\ Events[e].source \in Sources
      /\ Events[e].contract \in Verdicts /\ Events[e].stamp \in Nat
  BY ServiceAssumption
<1>2. DOMAIN Events[e].tokens = 1..Len(Events[e].tokens) /\ Len(Events[e].tokens) \in Nat
  BY <1>1
<1>3. IsFiniteSet(DOMAIN Events[e].tokens)
  BY <1>2, FS_Interval
<1>4. Kept(e) \in SUBSET (DOMAIN Events[e].tokens)
  BY DEF Kept
<1>5. IsFiniteSet(Kept(e))
  BY <1>3, <1>4, FS_Subset
<1> QED BY <1>1, <1>2, <1>4, <1>5, FS_CardinalityType

(* Every number up to how many are kept is the number of one place.         *)
LEMMA PlaceTaken ==
  ASSUME NEW e \in DOMAIN Events, NEW k \in 1..Cardinality(Kept(e))
  PROVE  \E i \in Kept(e) : Cardinality(UpTo(e, i)) = k
<1> DEFINE K == Kept(e)
           N == Cardinality(K)
           f == [i \in K |-> Cardinality(UpTo(e, i))]
<1>1. IsFiniteSet(K) /\ N \in Nat /\ K \subseteq Nat
  BY TokensType
<1>2. ASSUME NEW i \in K
      PROVE  /\ IsFiniteSet(UpTo(e, i)) /\ UpTo(e, i) \in SUBSET K /\ i \in UpTo(e, i)
             /\ Cardinality(UpTo(e, i)) \in 1..N
  <2>1. UpTo(e, i) \in SUBSET K /\ i \in UpTo(e, i)
    BY <1>1 DEF UpTo
  <2>2. IsFiniteSet(UpTo(e, i)) /\ Cardinality(UpTo(e, i)) <= N
    BY <1>1, <2>1, FS_Subset
  <2>3. Cardinality(UpTo(e, i)) \in Nat /\ Cardinality(UpTo(e, i)) # 0
    BY <2>1, <2>2, FS_CardinalityType, FS_EmptySet
  <2> QED BY <1>1, <2>1, <2>2, <2>3
<1>3. ASSUME NEW i \in K, NEW j \in K, i < j
      PROVE  Cardinality(UpTo(e, i)) < Cardinality(UpTo(e, j))
  <2>1. UpTo(e, i) \in SUBSET UpTo(e, j) /\ j \in UpTo(e, j) /\ j \notin UpTo(e, i)
    BY <1>1, <1>3 DEF UpTo
  <2>2. UpTo(e, i) \in SUBSET (UpTo(e, j) \ {j})
    BY <2>1
  <2>3. /\ IsFiniteSet(UpTo(e, j) \ {j})
        /\ Cardinality(UpTo(e, j) \ {j}) = Cardinality(UpTo(e, j)) - 1
    BY <1>2, <2>1, FS_RemoveElement
  <2>4. Cardinality(UpTo(e, i)) <= Cardinality(UpTo(e, j) \ {j})
    BY <2>2, <2>3, FS_Subset
  <2>5. Cardinality(UpTo(e, i)) \in Nat /\ Cardinality(UpTo(e, j)) \in Nat
    BY <1>2, FS_CardinalityType
  <2> QED BY <2>3, <2>4, <2>5
<1> HIDE DEF K, N
<1>4. f \in [K -> 1..N]
  BY <1>2
<1>5. \A i, j \in K : f[i] = f[j] => i = j
  <2> SUFFICES ASSUME NEW i \in K, NEW j \in K, i # j
               PROVE  Cardinality(UpTo(e, i)) # Cardinality(UpTo(e, j))
    OBVIOUS
  <2>1. i < j \/ j < i
    BY <1>1
  <2>2. Cardinality(UpTo(e, i)) \in Nat /\ Cardinality(UpTo(e, j)) \in Nat
    BY <1>1, <1>2
  <2> QED BY <1>3, <2>1, <2>2
<1>6. f \in Injection(K, 1..N)
  BY <1>4, <1>5 DEF Injection, IsInjective
<1>7. IsFiniteSet(1..N) /\ Cardinality(1..N) = N
  BY <1>1, FS_Interval
<1>8. f \in Surjection(K, 1..N)
  BY <1>1, <1>6, <1>7, FS_Injection DEF N
<1> QED BY <1>8 DEF Surjection, K, N

(* What is left of an event is a sequence of its tokens without the stop    *)
(* words.                                                                   *)
LEMMA NormalizeFact ==
  ASSUME NEW e \in DOMAIN Events
  PROVE  /\ Normalize(e) \in Seq(Tokens)
         /\ \A w \in Range(Normalize(e)) : w \notin active
<1> DEFINE N == Cardinality(Kept(e))
           at(k) == CHOOSE i \in Kept(e) : Cardinality({j \in Kept(e) : j <= i}) = k
<1>1. N \in Nat /\ Events[e].tokens \in Seq(Tokens)
  BY TokensType
<1>2. ASSUME NEW k \in 1..N PROVE at(k) \in Kept(e)
  BY <1>2, PlaceTaken DEF UpTo
<1>3. Normalize(e) = [k \in 1..N |-> Events[e].tokens[at(k)]]
  BY DEF Normalize
<1> HIDE DEF N, at
<1>4. \A k \in 1..N : /\ Events[e].tokens[at(k)] \in Tokens
                      /\ Events[e].tokens[at(k)] \notin active
  BY <1>1, <1>2 DEF Kept
<1>5. Normalize(e) \in Seq(Tokens)
  BY <1>1, <1>3, <1>4
<1>6. \A w \in Range(Normalize(e)) : \E k \in 1..N : w = Events[e].tokens[at(k)]
  BY <1>3 DEF Range
<1> QED BY <1>4, <1>5, <1>6

-----------------------------------------------------------------------------
(* The metrics.                                                             *)

LEMMA IncDroppedFact ==
  ASSUME NEW m \in Collectors, NEW reason \in RejectReasons
  PROVE  /\ IncDropped(m, reason) \in Collectors
         /\ IncDropped(m, reason).ingestTotal = m.ingestTotal
         /\ IncDropped(m, reason).lagCount = m.lagCount
         /\ IncDropped(m, reason).dropped
              = [m.dropped EXCEPT ![reason] = m.dropped[reason] + 1]
<1> DEFINE d == [m.dropped EXCEPT ![reason] = m.dropped[reason] + 1]
<1>1. reason # ""
  BY DEF RejectReasons
<1>2. m.dropped \in [RejectReasons -> Nat]
  BY DEF Collectors
<1>3. d \in [RejectReasons -> Nat]
  BY <1>2
<1>4. IncDropped(m, reason) = [m EXCEPT !.dropped = d]
  BY <1>1 DEF IncDropped
<1> HIDE DEF d
<1>5. /\ [m EXCEPT !.dropped = d] \in Collectors
      /\ [m EXCEPT !.dropped = d].ingestTotal = m.ingestTotal
      /\ [m EXCEPT !.dropped = d].lagCount = m.lagCount
      /\ [m EXCEPT !.dropped = d].dropped = d
  BY <1>3 DEF Collectors
<1> QED BY <1>4, <1>5 DEF d

(* A drop is one more drop.                                                 *)
LEMMA DropCounted ==
  ASSUME NEW m \in Collectors, NEW reason \in RejectReasons
  PROVE  /\ IsFiniteSet(Drops(m)) /\ Cardinality(Drops(m)) \in Nat
         /\ Cardinality(Drops(IncDropped(m, reason))) = Cardinality(Drops(m)) + 1
<1> DEFINE Pile(r) == {r} \X (1..m.dropped[r])
           f == [r \in RejectReasons |-> Pile(r)]
           T == {Pile(r) : r \in RejectReasons}
           n == m.dropped[reason]
<1>1. m.dropped \in [RejectReasons -> Nat] /\ n \in Nat
  BY DEF Collectors
<1>2. IsFiniteSet(RejectReasons)
  <2> DEFINE A == {"INVALID_JSON"}
             B == A \cup {"SCHEMA_VALIDATION_FAILED"}
             C == B \cup {"MAPPING_FAILED"}
             D == C \cup {"INVALID_QUERY"}
             E == D \cup {"DUPLICATE_EVENT_ID"}
             F == E \cup {"ANTI_FRAUD_CONTRIBUTION_CAP"}
             G == F \cup {"ANTI_FRAUD"}
             H == G \cup {"UNKNOWN_REJECT_REASON"}
  <2>0. H = RejectReasons
    BY DEF RejectReasons
  <2>1. IsFiniteSet(A)
    BY FS_Singleton
  <2> HIDE DEF A
  <2>2. IsFiniteSet(B)
    BY <2>1, FS_AddElement
  <2> HIDE DEF B
  <2>3. IsFiniteSet(C)
    BY <2>2, FS_AddElement
  <2> HIDE DEF C
  <2>4. IsFiniteSet(D)
    BY <2>3, FS_AddElement
  <2> HIDE DEF D
  <2>5. IsFiniteSet(E)
    BY <2>4, FS_AddElement
  <2> HIDE DEF E
  <2>6. IsFiniteSet(F)
    BY <2>5, FS_AddElement
  <2> HIDE DEF F
  <2>7. IsFiniteSet(G)
    BY <2>6, FS_AddElement
  <2> HIDE DEF G
  <2>8. IsFiniteSet(H)
    BY <2>7, FS_AddElement
  <2> QED BY <2>0, <2>8
<1>3. f \in Surjection(RejectReasons, T)
  BY DEF Surjection
<1>4. IsFiniteSet(T)
  BY <1>2, <1>3, FS_Surjection
<1>5. \A X \in T : IsFiniteSet(X)
  <2> SUFFICES ASSUME NEW r \in RejectReasons PROVE IsFiniteSet(Pile(r))
    OBVIOUS
  <2>1. m.dropped[r] \in Nat
    BY <1>1
  <2>2. IsFiniteSet(1..m.dropped[r])
    BY <2>1, FS_Interval
  <2> QED BY <2>2, FS_Singleton, FS_Product
<1>6. IsFiniteSet(UNION T)
  BY <1>4, <1>5, FS_UNION
<1>7. IsFiniteSet(Drops(m))
  BY <1>6 DEF Drops
<1>8. IncDropped(m, reason).dropped = [m.dropped EXCEPT ![reason] = n + 1]
  BY IncDroppedFact
<1>9. <<reason, n + 1>> \notin Drops(m)
  BY <1>1 DEF Drops
<1>10. Drops(IncDropped(m, reason)) = Drops(m) \cup {<<reason, n + 1>>}
  <2> DEFINE d == [m.dropped EXCEPT ![reason] = n + 1]
  <2>1. \A r \in RejectReasons \ {reason} : d[r] = m.dropped[r]
    BY <1>1
  <2>2. d[reason] = n + 1
    BY <1>1
  <2>3. 1..(n + 1) = (1..n) \cup {n + 1}
    BY <1>1
  <2>4. UNION {{r} \X (1..d[r]) : r \in RejectReasons}
          = (UNION {{r} \X (1..m.dropped[r]) : r \in RejectReasons}) \cup {<<reason, n + 1>>}
    <3> HIDE DEF d, n
    <3>1. ASSUME NEW x, x \in UNION {{r} \X (1..d[r]) : r \in RejectReasons}
          PROVE  x \in (UNION {{r} \X (1..m.dropped[r]) : r \in RejectReasons})
                        \cup {<<reason, n + 1>>}
      <4>1. PICK r \in RejectReasons : x \in {r} \X (1..d[r])
        BY <3>1
      <4>2. CASE r # reason
        BY <2>1, <4>1, <4>2
      <4>3. CASE r = reason
        BY <2>2, <2>3, <4>1, <4>3 DEF n
      <4> QED BY <4>2, <4>3
    <3>2. ASSUME NEW x, x \in UNION {{r} \X (1..m.dropped[r]) : r \in RejectReasons}
          PROVE  x \in UNION {{r} \X (1..d[r]) : r \in RejectReasons}
      <4>1. PICK r \in RejectReasons : x \in {r} \X (1..m.dropped[r])
        BY <3>2
      <4>2. CASE r # reason
        BY <2>1, <4>1, <4>2
      <4>3. CASE r = reason
        BY <2>2, <2>3, <4>1, <4>3 DEF n
      <4> QED BY <4>2, <4>3
    <3>3. <<reason, n + 1>> \in {reason} \X (1..d[reason])
      BY <2>2, <2>3
    <3> QED BY <3>1, <3>2, <3>3
  <2> QED BY <1>8, <2>4 DEF Drops
<1>11. Cardinality(Drops(m) \cup {<<reason, n + 1>>}) = Cardinality(Drops(m)) + 1
  BY <1>7, <1>9, FS_AddElement
<1> QED BY <1>7, <1>10, <1>11, FS_CardinalityType

LEMMA NewCollectorFact ==
  NewCollector \in Collectors /\ Cardinality(Drops(NewCollector)) = 0
<1>1. NewCollector \in Collectors
  BY DEF NewCollector, Collectors
<1>2. \A r \in RejectReasons : NewCollector.dropped[r] = 0
  BY DEF NewCollector
<1>3. Drops(NewCollector) = {}
  BY <1>2 DEF Drops
<1> QED BY <1>1, <1>3, FS_EmptySet

(* A vote adds one to the ingested, and one to the observations of the lag  *)
(* when it has a stamp.                                                     *)
LEMMA IngestedFact ==
  ASSUME NEW e \in DOMAIN Events, metrics \in Collectors, clock \in Nat
  PROVE  /\ Ingested(e) \in Collectors
         /\ Ingested(e).ingestTotal = metrics.ingestTotal + 1
         /\ Ingested(e).dropped = metrics.dropped
         /\ Ingested(e).lagCount = metrics.lagCount
                                     + (IF Events[e].stamp > 0 THEN 1 ELSE 0)
<1> DEFINE m   == IncIngest(metrics)
           lag == ClampNonNegative(clock - Events[e].stamp)
           x   == ClampNonNegative(lag)
           one == [m EXCEPT !.lagLast = x]
           two == [one EXCEPT !.lagSum = one.lagSum + x]
           all == [two EXCEPT !.lagCount = two.lagCount + 1]
<1>1. Events[e].stamp \in Nat
  BY TokensType
<1>2. x \in Nat
  BY <1>1 DEF ClampNonNegative
<1>3. /\ m \in Collectors /\ m.ingestTotal = metrics.ingestTotal + 1
      /\ m.dropped = metrics.dropped /\ m.lagCount = metrics.lagCount
  BY DEF IncIngest, Collectors
<1>4. ObserveIngestLag(m, lag) = all
  <2> HIDE DEF m, lag
  <2> QED BY <1>3 DEF ObserveIngestLag, Collectors, all, two, one, x
<1> HIDE DEF m, x
<1>5. /\ one \in Collectors /\ one.ingestTotal = m.ingestTotal
      /\ one.dropped = m.dropped /\ one.lagCount = m.lagCount
  BY <1>2, <1>3 DEF Collectors
<1> HIDE DEF one
<1>6. /\ two \in Collectors /\ two.ingestTotal = one.ingestTotal
      /\ two.dropped = one.dropped /\ two.lagCount = one.lagCount
  BY <1>2, <1>5 DEF Collectors
<1> HIDE DEF two
<1>7. /\ all \in Collectors /\ all.ingestTotal = two.ingestTotal
      /\ all.dropped = two.dropped /\ all.lagCount = two.lagCount + 1
  BY <1>6 DEF Collectors
<1> HIDE DEF all
<1>8. CASE Events[e].stamp = 0
  <2>1. Ingested(e) = m /\ metrics.lagCount \in Nat
    BY <1>8 DEF Ingested, m, Collectors
  <2> QED BY <1>3, <1>8, <2>1
<1>9. CASE Events[e].stamp # 0
  <2>1. Ingested(e) = all
    BY <1>4, <1>9 DEF Ingested, m, lag
  <2>2. Events[e].stamp > 0
    BY <1>1, <1>9
  <2> QED BY <1>3, <1>5, <1>6, <1>7, <2>1, <2>2
<1> QED BY <1>8, <1>9

-----------------------------------------------------------------------------
(* Types, and the account of the metrics.                                   *)
Contributions == [source : Sources, query : Seq(Tokens), until : Nat]
Stamped == {i \in DOMAIN votes : Events[votes[i].event].stamp > 0}

MetricsInv ==
  /\ TypeOK /\ Accounted
  /\ inHand # NoVote => Usable(inHand[1].query)

(* The vote in hand, if any.                                                *)
LEMMA InHandFact ==
  ASSUME MetricsInv
  PROVE  /\ inHand = NoVote => Len(inHand) = 0
         /\ inHand # NoVote => /\ inHand[1] \in Vote /\ inHand = <<inHand[1]>>
                              /\ Head(inHand) = inHand[1] /\ Len(inHand) = 1
                              /\ Usable(inHand[1].query)
<1>1. inHand \in Seq(Vote) /\ Len(inHand) <= 1 /\ NoVote = <<>>
  BY DEF MetricsInv, TypeOK, NoVote
<1>2. inHand = NoVote => Len(inHand) = 0
  BY <1>1
<1>3. ASSUME inHand # NoVote
      PROVE  /\ inHand[1] \in Vote /\ inHand = <<inHand[1]>>
             /\ Head(inHand) = inHand[1] /\ Len(inHand) = 1
  <2>1. \A s \in Seq(Vote) : s # <<>> => Len(s) \in Nat /\ Len(s) # 0
    OBVIOUS
  <2>2. Len(inHand) = 1
    <3>1. inHand # <<>>
      BY Zenon, <1>1, <1>3
    <3>2. Len(inHand) \in Nat /\ Len(inHand) # 0
      BY Zenon, <1>1, <2>1, <3>1
    <3>3. \A n \in Nat : n <= 1 /\ n # 0 => n = 1
      OBVIOUS
    <3> QED BY Zenon, <1>1, <3>2, <3>3
  <2>3. inHand[1] \in Vote /\ Head(inHand) = inHand[1]
    BY <1>1, <2>2
  <2>4. inHand = [i \in 1..1 |-> inHand[i]]
    BY <1>1, <2>2
  <2>5. inHand = <<inHand[1]>>
    BY <1>1, <2>2, <2>3, <2>4
  <2> QED BY <2>2, <2>3, <2>5
<1> QED BY <1>2, <1>3 DEF MetricsInv

LEMMA InitMetrics == Init => MetricsInv
<1> SUFFICES ASSUME Init PROVE MetricsInv
  OBVIOUS
<1>1. /\ clock = 1 /\ seen = [e \in DOMAIN Events |-> 0] /\ contributions = {}
      /\ inHand = <<>> /\ votes = <<>> /\ metrics = NewCollector /\ handled = 0
      /\ deliveries = 0 /\ stopped = [w \in Words |-> NotStopped]
  BY DEF Init, NoVote
<1>2. votes \in Seq(Vote) /\ inHand \in Seq(Vote) /\ Len(inHand) = 0 /\ Len(votes) = 0
      /\ DOMAIN votes = {}
  BY <1>1
<1>3. TypeOK
  BY <1>1, <1>2, NewCollectorFact, ServiceAssumption DEF TypeOK
<1>4. Accounted
  <2>1. Stamped = {}
    BY <1>2 DEF Stamped
  <2>2. Cardinality(Stamped) = 0
    BY <2>1, FS_EmptySet
  <2>3. metrics.ingestTotal = 0 /\ metrics.lagCount = 0
    BY <1>1 DEF NewCollector
  <2> QED BY <1>1, <1>2, <2>2, <2>3, NewCollectorFact DEF Accounted, Stamped
<1> QED BY <1>1, <1>3, <1>4 DEF MetricsInv, NoVote

(* A message is handled, and either dropped for one reason or in hand.      *)
LEMMA ReceiveMetrics ==
  ASSUME MetricsInv, NEW e \in DOMAIN Events, Receive(e), votes' = votes,
         seen' = seen \/ seen' = Noted(e),
         contributions' \subseteq contributions \cup {Contribution(e)},
         \/ \E reason \in RejectReasons : /\ metrics' = IncDropped(metrics, reason)
                                          /\ inHand' = inHand
         \/ /\ metrics' = metrics /\ Usable(Normalize(e))
            /\ inHand' = <<[event |-> e, query |-> Normalize(e), at |-> clock]>>
  PROVE  MetricsInv'
<1> DEFINE v == [event |-> e, query |-> Normalize(e), at |-> clock]
<1>1. /\ inHand = NoVote /\ Len(inHand) = 0 /\ deliveries < MaxDeliveries
      /\ deliveries' = deliveries + 1 /\ handled' = handled + 1
      /\ clock' = clock /\ stopped' = stopped
  BY InHandFact DEF Receive
<1>2. /\ clock \in Nat /\ seen \in [DOMAIN Events -> Nat] /\ contributions \subseteq Contributions
      /\ votes \in Seq(Vote) /\ \A i \in DOMAIN votes : Usable(votes[i].query)
      /\ metrics \in Collectors /\ handled \in Nat /\ deliveries \in 0..MaxDeliveries
      /\ stopped \in [Words -> Nat \cup {NotStopped}] /\ inHand \in Seq(Vote)
  BY DEF MetricsInv, TypeOK, Contributions
<1>3. /\ TTL \in Nat /\ ContributionWindow \in Nat /\ MaxDeliveries \in Nat
  BY ServiceAssumption
<1>4. seen' \in [DOMAIN Events -> Nat]
  BY <1>2, <1>3 DEF Noted
<1>5. Contribution(e) \in Contributions
  BY <1>2, <1>3, TokensType, NormalizeFact DEF Contribution, Contributions
<1>6. contributions' \subseteq Contributions
  BY <1>2, <1>5
<1>7. v \in Vote /\ v.query = Normalize(e)
  BY <1>2, NormalizeFact DEF Vote
<1>8. deliveries' \in 0..MaxDeliveries /\ handled' \in Nat
  BY <1>1, <1>2, <1>3
<1>9. /\ metrics.ingestTotal = Len(votes)
      /\ handled = metrics.ingestTotal + Cardinality(Drops(metrics)) + Len(inHand)
      /\ metrics.lagCount = Cardinality(Stamped)
  BY DEF MetricsInv, Accounted, Stamped
<1>10. metrics.ingestTotal \in Nat
  BY <1>2 DEF Collectors
<1>11. Stamped' = Stamped
  BY DEF Stamped
<1> HIDE DEF v
<1>12. ASSUME NEW reason \in RejectReasons, metrics' = IncDropped(metrics, reason),
              inHand' = inHand
       PROVE  MetricsInv'
  <2>1. /\ metrics' \in Collectors /\ metrics'.ingestTotal = metrics.ingestTotal
        /\ metrics'.lagCount = metrics.lagCount
    BY <1>2, <1>12, IncDroppedFact
  <2>2. /\ Cardinality(Drops(metrics)) \in Nat
        /\ Cardinality(Drops(metrics)') = Cardinality(Drops(metrics)) + 1
    <3>1. Drops(metrics)' = Drops(metrics')
      BY DEF Drops
    <3> QED BY <1>2, <1>12, <3>1, DropCounted
  <2>3. TypeOK'
    BY <1>1, <1>2, <1>4, <1>6, <1>8, <1>12, <2>1 DEF TypeOK, Contributions, NoVote
  <2>4. Accounted'
    <3>1. handled' = metrics'.ingestTotal + Cardinality(Drops(metrics)') + Len(inHand')
      BY <1>1, <1>9, <1>10, <1>12, <2>1, <2>2
    <3>2. metrics'.lagCount = Cardinality(Stamped')
      BY <1>9, <1>11, <2>1
    <3>3. metrics'.ingestTotal = Len(votes')
      BY <1>9, <2>1
    <3> QED BY <3>1, <3>2, <3>3 DEF Accounted, Stamped
  <2> QED BY <1>1, <1>12, <2>3, <2>4 DEF MetricsInv
<1>13. ASSUME metrics' = metrics, Usable(Normalize(e)), inHand' = <<v>>
       PROVE  MetricsInv'
  <2>1. /\ inHand' \in Seq(Vote) /\ Len(inHand') = 1 /\ inHand'[1] = v
    BY <1>7, <1>13
  <2>2. TypeOK'
    BY <1>1, <1>2, <1>4, <1>6, <1>8, <1>13, <2>1 DEF TypeOK, Contributions
  <2>3. Accounted'
    <3>1. Cardinality(Drops(metrics)) \in Nat
      <4>1. "ANTI_FRAUD" \in RejectReasons
        BY DEF RejectReasons
      <4> QED BY <1>2, <4>1, DropCounted
    <3>2. Drops(metrics)' = Drops(metrics)
      BY <1>13 DEF Drops
    <3>3. handled' = metrics'.ingestTotal + Cardinality(Drops(metrics)') + Len(inHand')
      BY <1>1, <1>9, <1>10, <1>13, <2>1, <3>1, <3>2
    <3> QED BY <1>9, <1>11, <1>13, <3>3 DEF Accounted, Stamped
  <2> QED BY <1>7, <1>13, <2>1, <2>2, <2>3 DEF MetricsInv
<1> QED BY <1>12, <1>13 DEF v

LEMMA AddMetrics ==
  ASSUME MetricsInv, Add
  PROVE  MetricsInv'
<1> DEFINE v == inHand[1]
           e == v.event
<1>1. /\ inHand # NoVote /\ votes' = Append(votes, v) /\ metrics' = Ingested(e)
      /\ inHand' = NoVote /\ Len(inHand') = 0
      /\ UNCHANGED <<clock, seen, contributions, handled, deliveries, stopped>>
  BY InHandFact DEF Add, NoVote
<1>2. v \in Vote /\ Usable(v.query) /\ Len(inHand) = 1 /\ e \in DOMAIN Events
  BY <1>1, InHandFact DEF Vote
<1>3. /\ clock \in Nat /\ seen \in [DOMAIN Events -> Nat] /\ contributions \subseteq Contributions
      /\ votes \in Seq(Vote) /\ \A i \in DOMAIN votes : Usable(votes[i].query)
      /\ metrics \in Collectors /\ handled \in Nat /\ deliveries \in 0..MaxDeliveries
      /\ stopped \in [Words -> Nat \cup {NotStopped}]
  BY DEF MetricsInv, TypeOK, Contributions
<1> HIDE DEF v
<1>4. /\ votes' \in Seq(Vote) /\ Len(votes') = Len(votes) + 1 /\ Len(votes) \in Nat
      /\ DOMAIN votes = 1..Len(votes) /\ DOMAIN votes' = 1..(Len(votes) + 1)
      /\ votes'[Len(votes) + 1] = v
      /\ \A i \in 1..Len(votes) : votes'[i] = votes[i]
  BY <1>1, <1>2, <1>3
<1>5. /\ metrics' \in Collectors /\ metrics'.ingestTotal = metrics.ingestTotal + 1
      /\ metrics'.dropped = metrics.dropped
      /\ metrics'.lagCount = metrics.lagCount + (IF Events[e].stamp > 0 THEN 1 ELSE 0)
  BY <1>1, <1>2, <1>3, IngestedFact
<1>6. TypeOK'
  <2>1. \A i \in DOMAIN votes' : Usable(votes'[i].query)
    BY <1>2, <1>3, <1>4
  <2>2. inHand' \in Seq(Vote)
    BY <1>1 DEF NoVote
  <2> QED BY <1>1, <1>3, <1>4, <1>5, <2>1, <2>2 DEF TypeOK, Contributions
<1>7. Accounted'
  <2>1. /\ metrics.ingestTotal = Len(votes)
        /\ handled = metrics.ingestTotal + Cardinality(Drops(metrics)) + Len(inHand)
        /\ metrics.lagCount = Cardinality(Stamped)
    BY DEF MetricsInv, Accounted, Stamped
  <2>2. Drops(metrics)' = Drops(metrics)
    BY <1>5 DEF Drops
  <2>3. Cardinality(Drops(metrics)) \in Nat
    <3>1. "ANTI_FRAUD" \in RejectReasons
      BY DEF RejectReasons
    <3> QED BY <1>3, <3>1, DropCounted
  <2>4. IsFiniteSet(Stamped) /\ Stamped \in SUBSET (1..Len(votes))
    <3>1. Stamped \in SUBSET (1..Len(votes)) /\ IsFiniteSet(1..Len(votes))
      BY <1>4, FS_Interval DEF Stamped
    <3> QED BY <3>1, FS_Subset
  <2>5. Cardinality(Stamped') = Cardinality(Stamped) + (IF Events[e].stamp > 0 THEN 1 ELSE 0)
    <3>1. CASE Events[e].stamp > 0
      <4>1. Stamped' = Stamped \cup {Len(votes) + 1}
        BY <1>4, <3>1 DEF Stamped
      <4>2. Len(votes) + 1 \notin Stamped
        BY <1>4, <2>4
      <4>3. Cardinality(Stamped \cup {Len(votes) + 1}) = Cardinality(Stamped) + 1
        BY <2>4, <4>2, FS_AddElement
      <4> QED BY <3>1, <4>1, <4>3
    <3>2. CASE ~(Events[e].stamp > 0)
      <4>1. Stamped' = Stamped
        BY <1>4, <3>2 DEF Stamped
      <4>2. Cardinality(Stamped) \in Nat
        BY <2>4, FS_CardinalityType
      <4> QED BY <3>2, <4>1, <4>2
    <3> QED BY <3>1, <3>2
  <2>6. metrics'.lagCount = Cardinality(Stamped')
    BY <1>5, <2>1, <2>5
  <2>7. handled' = metrics'.ingestTotal + Cardinality(Drops(metrics)') + Len(inHand')
    BY <1>1, <1>2, <1>4, <1>5, <2>1, <2>2, <2>3
  <2>8. metrics'.ingestTotal = Len(votes')
    BY <1>4, <1>5, <2>1
  <2> QED BY <2>6, <2>7, <2>8 DEF Accounted, Stamped
<1> QED BY <1>1, <1>6, <1>7 DEF MetricsInv

LEMMA NextMetrics == MetricsInv /\ [Next]_vars => MetricsInv'
<1> SUFFICES ASSUME MetricsInv, [Next]_vars PROVE MetricsInv'
  OBVIOUS
<1>0. /\ clock \in Nat /\ MaxClock \in Nat
      /\ {"DUPLICATE_EVENT_ID", "INVALID_QUERY", "ANTI_FRAUD",
           "ANTI_FRAUD_CONTRIBUTION_CAP"} \subseteq RejectReasons
      /\ Verdicts \ {"event"} \subseteq RejectReasons
  BY ServiceAssumption DEF MetricsInv, TypeOK, RejectReasons, Verdicts
<1>1. ASSUME NEW e \in DOMAIN Events, BreaksContract(e) PROVE MetricsInv'
  <2>1. Events[e].contract \in RejectReasons
    BY <1>0, <1>1, TokensType DEF BreaksContract
  <2> QED BY <1>1, <2>1, ReceiveMetrics DEF BreaksContract, Drop
<1>2. ASSUME NEW e \in DOMAIN Events, IsDuplicate(e) PROVE MetricsInv'
  BY <1>0, <1>2, ReceiveMetrics DEF IsDuplicate, Drop
<1>3. ASSUME NEW e \in DOMAIN Events, IsUnusable(e) PROVE MetricsInv'
  BY <1>0, <1>3, ReceiveMetrics DEF IsUnusable, IsNew, Drop
<1>4. ASSUME NEW e \in DOMAIN Events, IsRefused(e) PROVE MetricsInv'
  <2>1. /\ Receive(e) /\ seen' = Noted(e) /\ UNCHANGED <<inHand, votes>>
        /\ \E reason \in RejectReasons : metrics' = IncDropped(metrics, reason)
        /\ contributions' \subseteq contributions \cup {Contribution(e)}
    BY <1>0, <1>4 DEF IsRefused, IsNew, Drop, Live
  <2> QED BY <2>1, ReceiveMetrics
<1>5. ASSUME NEW e \in DOMAIN Events, IsAccepted(e) PROVE MetricsInv'
  <2>1. contributions' \subseteq contributions \cup {Contribution(e)}
    BY <1>5 DEF IsAccepted, Live
  <2> QED BY <1>5, <2>1, ReceiveMetrics DEF IsAccepted, IsNew
<1>6. CASE Add
  BY <1>6, AddMetrics
<1>7. CASE Crash
  <2>1. /\ seen' = [e \in DOMAIN Events |-> 0] /\ contributions' = {}
        /\ inHand' = <<>> /\ votes' = <<>> /\ metrics' = NewCollector /\ handled' = 0
        /\ UNCHANGED <<clock, deliveries>>
        /\ stopped' = [w \in Words |-> IF stopped[w] = NotStopped THEN NotStopped ELSE 0]
    BY <1>7 DEF Crash, Forget, NoVote
  <2>2. /\ votes' \in Seq(Vote) /\ inHand' \in Seq(Vote) /\ Len(inHand') = 0
        /\ Len(votes') = 0 /\ DOMAIN votes' = {}
    BY <2>1
  <2>3. TypeOK'
    BY <2>1, <2>2, NewCollectorFact DEF MetricsInv, TypeOK
  <2>4. Accounted'
    <3>1. Stamped' = {}
      BY <2>2 DEF Stamped
    <3>2. Cardinality(Stamped') = 0
      BY <3>1, FS_EmptySet
    <3>3. metrics'.ingestTotal = 0 /\ metrics'.lagCount = 0
      BY <2>1 DEF NewCollector
    <3>4. Drops(metrics)' = Drops(NewCollector)
      BY <2>1 DEF Drops
    <3> QED BY <2>1, <2>2, <3>2, <3>3, <3>4, NewCollectorFact DEF Accounted, Stamped
  <2> QED BY <2>1, <2>3, <2>4 DEF MetricsInv, NoVote
<1>8. ASSUME UNCHANGED pipeline, clock' \in Nat,
             stopped' \in [Words -> Nat \cup {NotStopped}]
      PROVE  MetricsInv'
  BY <1>8 DEF MetricsInv, TypeOK, Accounted, Drops, pipeline, memory
<1>9. CASE Admin
  <2>1. Len(votes) \in Nat /\ stopped \in [Words -> Nat \cup {NotStopped}]
    BY DEF MetricsInv, TypeOK
  <2>2. stopped' \in [Words -> Nat \cup {NotStopped}]
    BY <1>9, <2>1 DEF Admin
  <2> QED BY <1>0, <1>8, <1>9, <2>2 DEF Admin
<1>10. CASE Boot \/ UNCHANGED vars
  BY <1>0, <1>8, <1>10 DEF Boot, vars, MetricsInv, TypeOK
<1>11. CASE Tick
  BY <1>0, <1>8, <1>11 DEF Tick, MetricsInv, TypeOK
<1> QED
  BY Zenon, <1>1, <1>2, <1>3, <1>4, <1>5, <1>6, <1>7, <1>9, <1>10, <1>11 DEF Next

(* Types, and the account, in every reachable state.                        *)
LEMMA MetricsInvariance == Spec => []MetricsInv
BY InitMetrics, NextMetrics, PTL DEF Spec

(* Every variable of the pipeline has its type, and every vote that was     *)
(* counted has a usable query.                                              *)
THEOREM TypeCorrect == Spec => []TypeOK
<1>1. MetricsInv => TypeOK
  BY DEF MetricsInv
<1> QED BY <1>1, MetricsInvariance, PTL

(* Each message was ingested or dropped for one reason, or is in hand; what *)
(* was ingested is what the window was given.                               *)
THEOREM EveryMessageAccounted == Spec => []Accounted
<1>1. MetricsInv => Accounted
  BY DEF MetricsInv
<1> QED BY <1>1, MetricsInvariance, PTL
-----------------------------------------------------------------------------
(* The stop words.  What StopListSync_proofs knows of a step of the         *)
(* stop-list is known of Service's own.                                     *)
LEMMA ListAssumed == List!StopListAssumption
BY ServiceAssumption DEF List!StopListAssumption

LEMMA ListSteps ==
  /\ Stop!Init => List!Init
  /\ Stop!Next => List!Next
  /\ Stop!Crash => List!Crash /\ List!Next
  /\ Stop!Boot => List!Boot /\ List!Next
  /\ UNCHANGED stoplist => UNCHANGED List!vars
<1>1. Stop!Init => List!Init
  BY DEF Stop!Init, List!Init, Stop!Keys, List!Keys, Stop!IdleRequest, List!IdleRequest,
         Stop!NoReply, List!NoReply
<1>2. Stop!Crash => List!Crash
  BY DEF Stop!Crash, List!Crash, Stop!IdleRequest, List!IdleRequest, Stop!Keys, List!Keys,
         Stop!Changed, List!Changed
<1>3. Stop!Boot => List!Boot
  BY DEF Stop!Boot, List!Boot, Stop!database, List!database, Stop!faults, List!faults
<1>4. UNCHANGED stoplist => UNCHANGED List!vars
  BY DEF stoplist, List!vars, List!database, List!faults
<1>5. ASSUME NEW p \in Requests, NEW kind \in Stop!Kinds
      PROVE  /\ \A w \in Stop!Keys : Stop!Begin(p, kind, w) => List!Begin(p, kind, w)
             /\ Stop!Refuse(p, kind) => List!Refuse(p, kind)
  BY DEF Stop!Begin, List!Begin, Stop!Refuse, List!Refuse, Stop!IdleRequest,
         List!IdleRequest, Stop!NoReply, List!NoReply, Stop!database, List!database,
         Stop!faults, List!faults
<1>6. ASSUME NEW p \in Requests
      PROVE  Stop!Step(p) => List!Step(p)
  BY DEF Stop!Step, List!Step, Stop!InsertConflicts, List!InsertConflicts,
         Stop!Insert, List!Insert, Stop!DeleteMisses, List!DeleteMisses,
         Stop!Delete, List!Delete, Stop!BumpVersion, List!BumpVersion,
         Stop!Commit, List!Commit, Stop!ReadWords, List!ReadWords,
         Stop!ReadVersion, List!ReadVersion, Stop!Replace, List!Replace,
         Stop!Goto, List!Goto, Stop!Respond, List!Respond, Stop!Apply, List!Apply,
         Stop!Release, List!Release, Stop!Changed, List!Changed,
         Stop!Keys, List!Keys, Stop!IdleRequest, List!IdleRequest,
         Stop!database, List!database, Stop!faults, List!faults
<1>7. ASSUME NEW p \in Requests
      PROVE  /\ Stop!CommitFails(p) => List!CommitFails(p)
             /\ Stop!WriteFails(p) => List!WriteFails(p)
             /\ Stop!ReadFails(p) => List!ReadFails(p)
  BY DEF Stop!CommitFails, List!CommitFails, Stop!WriteFails, List!WriteFails,
         Stop!ReadFails, List!ReadFails, Stop!Error, List!Error,
         Stop!Respond, List!Respond, Stop!Apply, List!Apply,
         Stop!Release, List!Release, Stop!Changed, List!Changed,
         Stop!Keys, List!Keys, Stop!IdleRequest, List!IdleRequest,
         Stop!database, List!database
<1>8. Stop!Kinds = List!Kinds /\ Stop!Keys = List!Keys
  BY DEF Stop!Kinds, List!Kinds, Stop!Keys, List!Keys
<1>9. Stop!Next => List!Next
  BY Zenon, <1>2, <1>3, <1>5, <1>6, <1>7, <1>8 DEF Stop!Next, List!Next
<1>10. (Stop!Crash => Stop!Next) /\ (Stop!Boot => Stop!Next)
  BY DEF Stop!Next
<1> QED BY <1>1, <1>2, <1>3, <1>4, <1>9, <1>10

(* The votes counted under a query with w since the addition of w was       *)
(* answered.                                                                *)
Late(w) == {i \in DOMAIN votes : i > stopped[w] /\ w \in Range(votes[i].query)}

(* A word whose addition was answered is in force, so that the normalizer   *)
(* passes no further query with it; only the one it had passed is late.     *)
StopOK(w) ==
  stopped[w] # NotStopped =>
    /\ List!InForce(w)
    /\ \A i, j \in Late(w) : i = j
    /\ inHand # NoVote /\ w \in Range(inHand[1].query) => Late(w) = {}

StopInv ==
  /\ MetricsInv
  /\ List!IInv /\ List!RoundOK
  /\ \A w \in Words : StopOK(w)

LEMMA InitStops == ASSUME Init PROVE StopInv
<1>1. List!IInv
  BY ListAssumed, ListSteps, List!InitIInv DEF Init
<1>2. List!RoundOK
  <2>1. List!Init
    BY ListSteps DEF Init
  <2> QED BY <2>1 DEF List!Init, List!RoundOK, List!IdleRequest
<1>3. \A w \in Words : StopOK(w)
  BY DEF Init, StopOK
<1> QED BY <1>1, <1>2, <1>3, InitMetrics DEF StopInv

(* The stop-list has a step or none.                                        *)
LEMMA ListNext == ASSUME [Next]_vars PROVE [List!Next]_(List!vars)
<1>1. CASE Admin \/ Crash \/ Boot
  BY <1>1, ListSteps DEF Admin, Crash, Boot
<1>2. CASE UNCHANGED stoplist
  BY <1>2, ListSteps
<1> QED
  BY <1>1, <1>2 DEF Next, vars, BreaksContract, IsDuplicate, IsUnusable, IsRefused,
                    IsAccepted, IsNew, Receive, Add, Tick

LEMMA ListKept ==
  ASSUME List!OneAtATime, List!IInv, List!RoundOK, [Next]_vars
  PROVE  List!IInv' /\ List!RoundOK'
BY ListAssumed, ListNext, List!NextIInv, List!NextRound

(* Nothing but the clock, the stop-list and the memory of the handlers      *)
(* changes: a message that is not counted, or time.                         *)
LEMMA VotesKept ==
  ASSUME StopInv, [Next]_vars, List!OneAtATime, UNCHANGED <<votes, inHand>>,
         NEW w \in Words, stopped'[w] = stopped[w], ~List!StartsRemoval(w)
  PROVE  StopOK(w)'
<1>1. Late(w)' = Late(w)
  BY DEF Late
<1>2. stopped[w] # NotStopped => List!InForce(w)'
  BY ListAssumed, ListNext, List!StaysInForce DEF StopInv, StopOK
<1> QED BY <1>1, <1>2 DEF StopInv, StopOK

(* No request begins while the handlers have a step.                        *)
LEMMA NoneStarts ==
  ASSUME UNCHANGED stoplist, NEW w
  PROVE  ~List!StartsRemoval(w)
BY DEF stoplist, List!StartsRemoval

(* The vote in hand is counted.                                             *)
LEMMA AddStops ==
  ASSUME StopInv, Add, List!OneAtATime, NEW w \in Words
  PROVE  StopOK(w)'
<1>1. /\ UNCHANGED <<stoplist, stopped>> /\ inHand # NoVote /\ inHand' = NoVote
      /\ votes \in Seq(Vote) /\ votes' = Append(votes, inHand[1]) /\ inHand[1] \in Vote
  BY InHandFact DEF StopInv, MetricsInv, TypeOK, Add
<1>2. [Next]_vars
  BY DEF Next
<1>3. stopped[w] # NotStopped => List!InForce(w)'
  BY <1>1, <1>2, ListAssumed, ListNext, NoneStarts, List!StaysInForce DEF StopInv, StopOK
<1>4. /\ DOMAIN votes' = DOMAIN votes \cup {Len(votes) + 1}
      /\ \A i \in DOMAIN votes : votes'[i] = votes[i]
      /\ votes'[Len(votes) + 1] = inHand[1]
  BY <1>1
<1>5. Late(w)' \subseteq Late(w) \cup {Len(votes) + 1}
  BY <1>1, <1>4 DEF Late
<1>6. Len(votes) + 1 \in Late(w)' => w \in Range(inHand[1].query)
  BY <1>1, <1>4 DEF Late
<1>7. stopped[w] # NotStopped => \A i, j \in Late(w)' : i = j
  <2> SUFFICES ASSUME stopped[w] # NotStopped, NEW i \in Late(w)', NEW j \in Late(w)'
               PROVE  i = j
    OBVIOUS
  <2>1. CASE w \in Range(inHand[1].query)
    BY <1>1, <1>5, <2>1 DEF StopInv, StopOK
  <2>2. CASE w \notin Range(inHand[1].query)
    BY <1>5, <1>6, <2>2 DEF StopInv, StopOK
  <2> QED BY <2>1, <2>2
<1> QED BY <1>1, <1>3, <1>7 DEF StopOK

(* A message passes the normalizer: no word that is in force is left in it. *)
LEMMA AcceptedStops ==
  ASSUME StopInv, NEW e \in DOMAIN Events, IsAccepted(e), List!OneAtATime, NEW w \in Words
  PROVE  StopOK(w)'
<1>1. /\ UNCHANGED <<stoplist, stopped, votes>> /\ up
      /\ inHand' = <<[event |-> e, query |-> Normalize(e), at |-> clock]>>
  BY DEF IsAccepted, IsNew, Receive
<1>2. [Next]_vars
  BY DEF Next
<1>3. stopped[w] # NotStopped => List!InForce(w)'
  BY <1>1, <1>2, ListAssumed, ListNext, NoneStarts, List!StaysInForce DEF StopInv, StopOK
<1>4. Late(w)' = Late(w)
  BY <1>1 DEF Late
<1>5. inHand'[1].query = Normalize(e)
  BY <1>1
<1>6. stopped[w] # NotStopped => w \notin Range(Normalize(e))
  BY <1>1, NormalizeFact DEF StopInv, StopOK, List!InForce
<1> QED BY <1>1, <1>3, <1>4, <1>5, <1>6 DEF StopInv, StopOK

(* A request has a step: a word whose addition it answers is in force then, *)
(* and no vote is late yet.                                                 *)
LEMMA AdminStops ==
  ASSUME StopInv, Admin, List!OneAtATime, NEW w \in Words
  PROVE  StopOK(w)'
<1>1. /\ UNCHANGED <<votes, inHand>> /\ List!Next /\ up' = up /\ [Next]_vars
      /\ stopped' = [x \in Words |-> IF Acknowledged(x) THEN Len(votes)
                                     ELSE IF BeginsRemoval(x) THEN NotStopped
                                     ELSE stopped[x]]
  BY ListSteps DEF Admin, pipeline, memory, Next
<1>2. Acknowledged(w) <=> List!Added(w)
  BY DEF Acknowledged, List!Added
<1>3. BeginsRemoval(w) <=> List!StartsRemoval(w)
  BY DEF BeginsRemoval, List!StartsRemoval
<1>4. CASE Acknowledged(w)
  <2>1. List!InForce(w)'
    BY <1>1, <1>2, <1>4, ListAssumed, List!AddedInForce DEF StopInv
  <2>2. stopped'[w] = Len(votes) /\ votes \in Seq(Vote)
    BY <1>1, <1>4 DEF StopInv, MetricsInv, TypeOK
  <2>3. Late(w)' = {}
    BY <1>1, <2>2 DEF Late
  <2> QED BY <2>1, <2>3 DEF StopOK
<1>5. CASE ~Acknowledged(w) /\ BeginsRemoval(w)
  BY <1>1, <1>5 DEF StopOK
<1>6. CASE ~Acknowledged(w) /\ ~BeginsRemoval(w)
  BY <1>1, <1>3, <1>6, VotesKept
<1> QED BY <1>4, <1>5, <1>6

(* The process dies: no vote is counted, and the database keeps the word.   *)
LEMMA CrashStops ==
  ASSUME StopInv, Crash, List!OneAtATime, NEW w \in Words
  PROVE  StopOK(w)'
<1>1. /\ votes' = <<>> /\ inHand' = NoVote /\ [Next]_vars
      /\ stopped' = [x \in Words |-> IF stopped[x] = NotStopped THEN NotStopped ELSE 0]
  BY DEF Crash, Forget, Next
<1>2. ~List!StartsRemoval(w)
  BY DEF Crash, Stop!Crash, Stop!IdleRequest, List!StartsRemoval
<1>3. stopped'[w] # NotStopped => List!InForce(w)'
  BY <1>1, <1>2, ListAssumed, ListNext, List!StaysInForce DEF StopInv, StopOK
<1>4. Late(w)' = {}
  BY <1>1 DEF Late
<1> QED BY <1>1, <1>3, <1>4 DEF StopOK

LEMMA NextStops ==
  ASSUME List!OneAtATime, StopInv, [Next]_vars
  PROVE  StopInv'
<1>1. MetricsInv' /\ List!IInv' /\ List!RoundOK'
  BY NextMetrics, ListKept DEF StopInv
<1>2. ASSUME NEW w \in Words PROVE StopOK(w)'
  <2>1. CASE Add
    BY <2>1, AddStops
  <2>2. CASE \E e \in DOMAIN Events : IsAccepted(e)
    BY <2>2, AcceptedStops
  <2>3. CASE Admin
    BY <2>3, AdminStops
  <2>4. CASE Crash
    BY <2>4, CrashStops
  <2>5. CASE /\ UNCHANGED <<votes, inHand, stopped>>
             /\ ~List!StartsRemoval(w)
    BY <2>5, VotesKept
  <2>6. CASE \E e \in DOMAIN Events : \/ BreaksContract(e) \/ IsDuplicate(e)
                                      \/ IsUnusable(e) \/ IsRefused(e)
    <3>1. UNCHANGED <<stoplist, votes, inHand, stopped>>
      BY <2>6 DEF BreaksContract, IsDuplicate, IsUnusable, IsRefused, IsNew, Receive, Drop
    <3> QED BY <2>5, <3>1, NoneStarts
  <2>7. CASE Tick \/ UNCHANGED vars
    <3>1. UNCHANGED <<stoplist, votes, inHand, stopped>>
      BY <2>7 DEF Tick, vars, pipeline, memory
    <3> QED BY <2>5, <3>1, NoneStarts
  <2>8. CASE Boot
    <3>1. UNCHANGED <<votes, inHand, stopped>> /\ ~List!StartsRemoval(w)
      BY <2>8 DEF Boot, Stop!Boot, Stop!database, List!StartsRemoval, pipeline, memory
    <3> QED BY <2>5, <3>1
  <2> QED BY Zenon, <2>1, <2>2, <2>3, <2>4, <2>6, <2>7, <2>8 DEF Next
<1> QED BY <1>1, <1>2 DEF StopInv

(* With one admin request at a time, once the addition of a stop word is    *)
(* acknowledged at most one more vote is counted under a query that holds   *)
(* it: over failing queries, crashes and restarts, whatever is delivered.   *)
THEOREM AtMostOneLate ==
  ASSUME List!OneAtATime
  PROVE  Spec => []AcknowledgedStops
<1>1. StopInv => AcknowledgedStops
  <2> SUFFICES ASSUME StopInv, NEW w \in Words, stopped[w] # NotStopped
               PROVE  Cardinality(Late(w)) <= 1
    BY DEF AcknowledgedStops, Late
  <2>1. \A i, j \in Late(w) : i = j
    BY DEF StopInv, StopOK
  <2>2. CASE Late(w) = {}
    BY <2>2, FS_EmptySet
  <2>3. ASSUME NEW i \in Late(w) PROVE Cardinality(Late(w)) <= 1
    <3>1. Late(w) = {i}
      BY <2>1
    <3> QED BY <3>1, FS_Singleton
  <2> QED BY <2>2, <2>3
<1>2. StopInv /\ [Next]_vars => StopInv'
  BY NextStops
<1>3. Init => StopInv
  BY InitStops
<1> QED BY <1>1, <1>2, <1>3, PTL DEF Spec

(* With one admin request at a time and no failing query, the normalizer of *)
(* the whole service has the words of the database whenever no request is   *)
(* in progress.                                                             *)
THEOREM ServiceSynced ==
  ASSUME List!OneAtATime, MaxErrors = 0
  PROVE  Spec => []SyncedWhenQuiet
<1> DEFINE Inv == List!IInv /\ List!SyncInv
<1>1. Init => Inv
  BY InitStops, ListAssumed, ListSteps, List!InitSync DEF Init, StopInv
<1>2. Inv /\ [Next]_vars => Inv'
  BY ListAssumed, ListNext, List!NextIInv, List!NextSync
<1>3. Inv => SyncedWhenQuiet
  BY DEF List!SyncInv, List!InSync, SyncedWhenQuiet, Stop!SyncedWhenQuiet
<1> HIDE DEF Inv
<1> QED BY <1>1, <1>2, <1>3, PTL DEF Spec
=============================================================================
