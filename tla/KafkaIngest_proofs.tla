------------------------- MODULE KafkaIngest_proofs -------------------------
(* Theorems about the consumer loop: for every log, every time limit, every *)
(* number of retries and every budget of faults.                            *)
EXTENDS KafkaIngest, TLAPS

(* A message of the log has an id and a kind.                               *)
LEMMA LogType ==
  /\ Len(Log) \in Nat
  /\ DOMAIN Log = 1..Len(Log)
  /\ \A o \in 1..Len(Log) : Log[o].id \in Ids /\ Log[o].kind \in Kinds
<1> DEFINE Message == [id : Ids, kind : Kinds]
<1>1. Log \in Seq(Message)
  BY IngestAssumption, Zenon DEF IngestAssumption
<1> HIDE DEF Message
<1>2. \A o \in 1..Len(Log) : Log[o] \in Message
  BY <1>1
<1>3. Len(Log) \in Nat /\ DOMAIN Log = 1..Len(Log)
  BY <1>1
<1> QED BY <1>2, <1>3 DEF Message

(* The limits and bounds are natural numbers.                               *)
LEMMA Numbers ==
  /\ TTL \in Nat /\ ContributionWindow \in Nat
  /\ MaxProcessingRetries \in Nat /\ CommitRetries \in Nat
BY IngestAssumption DEF IngestAssumption

(* The offsets are numbers.                                                 *)
LEMMA Offsets ==
  ASSUME TypeOK
  PROVE  /\ committed \in Nat /\ position \in Nat /\ current \in Nat
         /\ committed \in 0..Len(Log) /\ current \in 0..Len(Log)
BY LogType DEF TypeOK

LEMMA InitIInv == Init => IInv
<1> SUFFICES ASSUME Init PROVE IInv
  OBVIOUS
<1>1. TypeOK
  <2>1. /\ seen \in [Ids -> Nat] /\ capped \in [Ids -> Nat]
        /\ faults \in [DOMAIN Bounds -> Nat]
    BY DEF Init
  <2>2. /\ up \in BOOLEAN /\ ctxDone \in BOOLEAN
        /\ votes \subseteq [id : Ids, offset : 1..Len(Log), at : Nat]
        /\ everVoted \subseteq Ids
    BY DEF Init
  <2>3. 0 \in 0..Len(Log)
    BY LogType
  <2> QED BY <2>1, <2>2, <2>3, Numbers DEF Init, TypeOK
<1>2. InOrder /\ CommittedWasCounted /\ VoteRemembered /\ NoDoubleVote
  BY DEF Init, InOrder, CommittedWasCounted, VoteRemembered, NoDoubleVote
<1>3. RememberedWasCounted
  BY LogType DEF Init, RememberedWasCounted
<1> QED BY <1>1, <1>2, <1>3 DEF IInv

(* Committing the message in hand commits nothing that is not counted.      *)
LEMMA CommitCounted ==
  ASSUME IInv, up, pc = "commit", committed' = current, UNCHANGED everVoted
  PROVE  CommittedWasCounted'
<1>1. current \in Nat /\ committed \in Nat /\ current <= committed + 1 /\ current \in 0..Len(Log)
  BY Offsets DEF IInv, InOrder
<1> SUFFICES ASSUME NEW o \in 1..current, Log[o].kind = "vote" PROVE Log[o].id \in everVoted
  BY DEF CommittedWasCounted
<1>2. CASE o = current
  BY <1>1, <1>2, LogType DEF IInv, RememberedWasCounted
<1>3. CASE o # current
  BY <1>1, <1>3 DEF IInv, CommittedWasCounted
<1> QED BY <1>2, <1>3

(* The end of the process keeps the invariant if the offset stays in order. *)
LEMMA DieIInv ==
  ASSUME IInv, Die, committed' \in {committed, current}, pc = "commit" \/ committed' = committed,
         up, UNCHANGED <<clock, end, everVoted>>, faults' \in [DOMAIN Bounds -> Nat]
  PROVE  IInv'
<1>1. TypeOK'
  <2>1. seen' \in [Ids -> Nat] /\ capped' \in [Ids -> Nat]
    BY DEF Die
  <2>2. /\ up' \in BOOLEAN /\ ctxDone' \in BOOLEAN
        /\ votes' \subseteq [id : Ids, offset : 1..Len(Log), at : Nat]
    BY DEF Die
  <2>3. 0 \in 0..Len(Log) /\ committed' \in 0..Len(Log)
    BY LogType, Offsets DEF IInv
  <2> QED BY <2>1, <2>2, <2>3, Numbers DEF IInv, Die, TypeOK
<1>2. InOrder'
  BY DEF Die, InOrder
<1>3. CommittedWasCounted'
  <2>1. CASE committed' = committed
    BY <2>1 DEF IInv, CommittedWasCounted
  <2>2. CASE pc = "commit" /\ committed' = current
    BY <2>2, CommitCounted DEF IInv
  <2> QED BY <2>1, <2>2
<1>4. RememberedWasCounted'
  BY LogType DEF Die, RememberedWasCounted
<1>5. VoteRemembered' /\ NoDoubleVote'
  BY DEF Die, VoteRemembered, NoDoubleVote
<1> QED BY <1>1, <1>2, <1>3, <1>4, <1>5 DEF IInv

(* A fault adds one to its count.                                           *)
LEMMA FaultType ==
  ASSUME TypeOK, NEW f, Fault(f)
  PROVE  faults' \in [DOMAIN Bounds -> Nat]
<1> DEFINE D == DOMAIN Bounds
<1>1. faults \in [D -> Nat] /\ faults' = [faults EXCEPT ![f] = @ + 1]
  BY DEF Fault, TypeOK
<1> HIDE DEF D
<1>2. /\ \A x \in D : faults'[x] = IF x = f THEN faults[f] + 1 ELSE faults[x]
      /\ faults' = [x \in D |-> faults'[x]]
  BY <1>1
<1>3. \A x \in D : faults'[x] \in Nat
  BY <1>1, <1>2
<1> QED BY <1>2, <1>3 DEF D

(* A step that touches neither memory nor votes nor the clock keeps what is *)
(* remembered of votes.                                                     *)
LEMMA MemoryKept ==
  ASSUME IInv, UNCHANGED <<clock, memory>>
  PROVE  VoteRemembered' /\ NoDoubleVote'
BY DEF IInv, memory, VoteRemembered, NoDoubleVote

LEMMA FetchIInv == ASSUME IInv, Fetch PROVE IInv'
<1> USE DEF IInv, Fetch, Running, memory
<1>1. TypeOK'
  BY LogType, Numbers DEF TypeOK
<1>2. InOrder'
  BY DEF TypeOK, InOrder
<1>3. CommittedWasCounted' /\ RememberedWasCounted'
  BY DEF CommittedWasCounted, RememberedWasCounted
<1> QED BY <1>1, <1>2, <1>3, MemoryKept

LEMMA RebalanceIInv == ASSUME IInv, Rebalance PROVE IInv'
<1> USE DEF IInv, Rebalance, RejoinAt, memory
<1>1. TypeOK'
  BY LogType, Numbers, FaultType DEF TypeOK
<1>2. InOrder'
  BY DEF TypeOK, InOrder
<1>3. CommittedWasCounted' /\ RememberedWasCounted'
  BY DEF CommittedWasCounted, RememberedWasCounted
<1> QED BY <1>1, <1>2, <1>3, MemoryKept

LEMMA CommitIInv == ASSUME IInv, Commit PROVE IInv'
<1> USE DEF IInv, Commit, Running, memory
<1>1. TypeOK'
  BY LogType, Numbers DEF TypeOK
<1>2. InOrder'
  BY DEF TypeOK, InOrder
<1>3. CommittedWasCounted'
  BY CommitCounted
<1>4. RememberedWasCounted'
  BY DEF RememberedWasCounted
<1> QED BY <1>1, <1>2, <1>3, <1>4, MemoryKept

LEMMA CommitFailsIInv == ASSUME IInv, CommitFails PROVE IInv'
<1> USE DEF IInv, CommitFails, Running
<1>1. faults' \in [DOMAIN Bounds -> Nat]
  BY FaultType
<1>2. CASE Die
  BY <1>1, <1>2, DieIInv
<1>3. CASE ~Die
  <2>1. /\ \/ pc' = "returned" /\ attempt' = attempt
           \/ pc' = pc /\ attempt' = attempt + 1
        /\ UNCHANGED <<up, ctxDone, position, current, memory>>
    BY <1>3
  <2>2. TypeOK'
    BY <1>1, <2>1, LogType, Numbers, Offsets DEF TypeOK, memory
  <2>3. InOrder'
    BY <2>1, Offsets DEF InOrder
  <2>4. CommittedWasCounted'
    <3>1. CASE committed' = committed
      BY <3>1 DEF CommittedWasCounted
    <3>2. CASE committed' = current
      BY <3>2, CommitCounted
    <3> QED BY <3>1, <3>2
  <2>5. RememberedWasCounted'
    BY <2>1 DEF RememberedWasCounted, memory
  <2> QED BY <2>1, <2>2, <2>3, <2>4, <2>5, MemoryKept
<1> QED BY <1>2, <1>3

LEMMA HandlerFailsIInv == ASSUME IInv, HandlerFails PROVE IInv'
<1> USE DEF IInv, HandlerFails, Running
<1>1. faults' \in [DOMAIN Bounds -> Nat]
  BY FaultType
<1>2. CASE Die
  BY <1>1, <1>2, DieIInv
<1>3. CASE ~Die
  <2>1. /\ attempt < MaxProcessingRetries /\ attempt' = attempt + 1
        /\ UNCHANGED <<up, ctxDone, pc, position, current, memory>>
    BY <1>3
  <2>2. TypeOK'
    BY <1>1, <2>1, LogType, Numbers DEF TypeOK, memory
  <2>3. InOrder' /\ CommittedWasCounted' /\ RememberedWasCounted'
    BY <2>1 DEF InOrder, CommittedWasCounted, RememberedWasCounted, memory
  <2> QED BY <2>1, <2>2, <2>3, MemoryKept
<1> QED BY <1>2, <1>3

(* The ids of the store after a sweep are those it had.                     *)
LEMMA SweptFact ==
  ASSUME TypeOK
  PROVE  /\ Swept \in [Ids -> Nat]
         /\ \A i \in Ids : Swept[i] = (IF seen[i] > clock THEN seen[i] ELSE 0)
BY DEF TypeOK, Swept

(* Noting an id gives it a time to live and sweeps the others.              *)
LEMMA NotedFact ==
  ASSUME TypeOK, NEW id \in Ids
  PROVE  /\ Noted(id) \in [Ids -> Nat]
         /\ Noted(id)[id] = clock + TTL
         /\ \A i \in Ids \ {id} : Noted(id)[i] = (IF seen[i] > clock THEN seen[i] ELSE 0)
BY SweptFact, Numbers DEF TypeOK, Noted

(* A step of the handler that adds no vote.                                 *)
LEMMA NoVoteIInv ==
  ASSUME IInv, Running("handle"), pc' = "commit", attempt' = 0,
         UNCHANGED <<clock, end, committed, up, ctxDone, position, current, faults>>,
         UNCHANGED <<capped, votes, everVoted>>,
         seen' \in [Ids -> Nat],
         \A i \in Ids : i # Log[current].id => seen'[i] \in {seen[i], 0},
         \A i \in Ids : seen'[i] >= seen[i] \/ seen[i] <= clock,
         Log[current].kind = "vote" => Log[current].id \in everVoted
  PROVE  IInv'
<1> USE DEF IInv, Running
<1>1. TypeOK'
  BY LogType, Numbers DEF TypeOK
<1>2. InOrder' /\ CommittedWasCounted'
  BY DEF InOrder, CommittedWasCounted
<1>3. RememberedWasCounted'
  <2> SUFFICES ASSUME NEW o \in DOMAIN Log, Log[o].kind = "vote",
                      \/ seen'[Log[o].id] # 0
                      \/ capped[Log[o].id] # 0
                      \/ o = current
               PROVE  Log[o].id \in everVoted
    BY DEF RememberedWasCounted
  <2>1. current \in DOMAIN Log /\ Log[o].id \in Ids
    BY LogType DEF TypeOK
  <2>2. CASE Log[o].id = Log[current].id
    BY <2>1, <2>2, IngestAssumption DEF IngestAssumption
  <2>3. CASE Log[o].id # Log[current].id
    BY <2>1, <2>3 DEF RememberedWasCounted
  <2> QED BY <2>2, <2>3
<1>4. VoteRemembered'
  <2> SUFFICES ASSUME NEW v \in votes
               PROVE  /\ v.at <= clock
                      /\ capped[v.id] >= v.at + ContributionWindow
                      /\ seen'[v.id] >= v.at + TTL \/ clock >= v.at + TTL
    BY DEF VoteRemembered
  <2>1. v.id \in Ids /\ v.at \in Nat /\ clock \in Nat /\ seen[v.id] \in Nat /\ seen'[v.id] \in Nat
    BY DEF TypeOK
  <2>2. seen'[v.id] >= seen[v.id] \/ seen[v.id] <= clock
    BY <2>1
  <2> QED BY <2>1, <2>2, Numbers DEF VoteRemembered
<1>5. NoDoubleVote'
  BY DEF NoDoubleVote
<1> QED BY <1>1, <1>2, <1>3, <1>4, <1>5

(* A step of the handler that counts the message.                           *)
LEMMA VoteIInv ==
  ASSUME IInv, Running("handle"), pc' = "commit", attempt' = 0,
         UNCHANGED <<clock, end, committed, up, ctxDone, position, current, faults>>,
         NEW id \in Ids, id = Log[current].id,
         ~Duplicate(id), capped[id] <= clock,
         seen' = Noted(id), capped' = Capped(id),
         votes' = votes \cup {[id |-> id, offset |-> current, at |-> clock]},
         everVoted' = everVoted \cup {id}
  PROVE  IInv'
<1> USE DEF IInv, Running
<1>1. /\ clock \in Nat /\ seen \in [Ids -> Nat] /\ capped \in [Ids -> Nat]
      /\ current \in 1..Len(Log)
      /\ votes \subseteq [id : Ids, offset : 1..Len(Log), at : Nat]
  BY DEF TypeOK
<1>2. /\ capped' \in [Ids -> Nat] /\ capped'[id] = clock + ContributionWindow
      /\ \A i \in Ids \ {id} : capped'[i] = capped[i]
  BY <1>1, Numbers DEF Capped
<1>3. TypeOK'
  <2>1. seen' \in [Ids -> Nat]
    BY NotedFact
  <2>2. votes' \subseteq [id : Ids, offset : 1..Len(Log), at : Nat]
    BY <1>1
  <2>3. everVoted' \subseteq Ids
    BY DEF TypeOK
  <2> QED BY <1>2, <2>1, <2>2, <2>3, LogType, Numbers DEF TypeOK
<1>4. InOrder' /\ CommittedWasCounted'
  BY DEF InOrder, CommittedWasCounted
<1>5. RememberedWasCounted'
  <2> SUFFICES ASSUME NEW o \in DOMAIN Log, Log[o].kind = "vote", Log[o].id # id,
                      \/ seen'[Log[o].id] # 0
                      \/ capped'[Log[o].id] # 0
                      \/ o = current
               PROVE  Log[o].id \in everVoted
    BY DEF RememberedWasCounted
  <2> QED BY <1>1, <1>2, LogType, NotedFact DEF RememberedWasCounted
<1>6. VoteRemembered'
  <2> SUFFICES ASSUME NEW v \in votes'
               PROVE  /\ v.at <= clock
                      /\ capped'[v.id] >= v.at + ContributionWindow
                      /\ seen'[v.id] >= v.at + TTL \/ clock >= v.at + TTL
    BY DEF VoteRemembered
  <2>1. CASE v = [id |-> id, offset |-> current, at |-> clock]
    BY <1>1, <1>2, <2>1, NotedFact, Numbers
  <2>2. CASE v \in votes
    <3>1. v.id \in Ids /\ v.at \in Nat
      BY <1>1, <2>2
    <3>2. /\ v.at <= clock
          /\ capped[v.id] >= v.at + ContributionWindow
          /\ seen[v.id] >= v.at + TTL \/ clock >= v.at + TTL
      BY <2>2 DEF VoteRemembered
    <3>3. CASE v.id = id
      BY <1>1, <1>2, <3>1, <3>2, <3>3, NotedFact, Numbers
    <3>4. CASE v.id # id
      <4>1. seen'[v.id] = IF seen[v.id] > clock THEN seen[v.id] ELSE 0
        BY <3>1, <3>4, NotedFact
      <4>2. seen'[v.id] >= v.at + TTL \/ clock >= v.at + TTL
        BY <1>1, <3>1, <3>2, <4>1, Numbers
      <4> QED BY <1>2, <3>1, <3>2, <3>4, <4>2
    <3> QED BY <3>3, <3>4
  <2> QED BY <2>1, <2>2
<1>7. NoDoubleVote'
  <2>1. \A v \in votes : v.id = id =>
          clock >= v.at + TTL /\ clock >= v.at + ContributionWindow /\ v.at \in Nat
    BY <1>1, Numbers DEF VoteRemembered, Duplicate
  <2> SUFFICES ASSUME NEW v \in votes', NEW w \in votes', v # w, v.id = w.id
               PROVE  LET apart == IF v.at >= w.at THEN v.at - w.at ELSE w.at - v.at
                      IN  apart >= TTL /\ apart >= ContributionWindow
    BY DEF NoDoubleVote
  <2>2. CASE v \in votes /\ w \in votes
    BY <2>2 DEF NoDoubleVote
  <2>3. CASE v \in votes /\ w = [id |-> id, offset |-> current, at |-> clock]
    BY <1>1, <2>1, <2>3, Numbers
  <2>4. CASE w \in votes /\ v = [id |-> id, offset |-> current, at |-> clock]
    BY <1>1, <2>1, <2>4, Numbers
  <2> QED BY <2>2, <2>3, <2>4
<1> QED BY <1>3, <1>4, <1>5, <1>6, <1>7

LEMMA HandleIInv == ASSUME IInv, Handle PROVE IInv'
<1> DEFINE msg == Log[current]
<1>1. /\ current \in 1..Len(Log) /\ msg.id \in Ids /\ TypeOK
      /\ seen \in [Ids -> Nat] /\ clock \in Nat
  BY LogType DEF IInv, TypeOK, Handle, Running
<1>2. CASE msg.kind = "malformed"
  BY <1>1, <1>2, NoVoteIInv DEF Handle, HandleRaw, HandleEvent, memory
<1>3. CASE msg.kind # "malformed" /\ Duplicate(msg.id)
  <2>1. seen' = Swept /\ UNCHANGED <<capped, votes, everVoted>>
    BY <1>3 DEF Handle, HandleRaw, HandleEvent
  <2>2. msg.kind = "vote" => msg.id \in everVoted
    BY <1>1, <1>3, LogType DEF IInv, RememberedWasCounted, Duplicate
  <2> QED BY <1>1, <2>1, <2>2, SweptFact, NoVoteIInv DEF Handle
<1>4. CASE /\ msg.kind # "malformed" /\ ~Duplicate(msg.id)
           /\ \/ msg.kind \in {"invalid", "fraud"}
              \/ msg.kind = "vote" /\ capped[msg.id] > clock
  <2>1. seen' = Noted(msg.id) /\ UNCHANGED <<capped, votes, everVoted>>
    BY <1>1, <1>4 DEF Handle, HandleRaw, HandleEvent, TypeOK
  <2>2. msg.kind = "vote" => msg.id \in everVoted
    <3>1. msg.kind = "vote" => capped[msg.id] # 0
      BY <1>1, <1>4 DEF TypeOK
    <3> QED BY <1>1, <3>1, LogType DEF IInv, RememberedWasCounted
  <2>3. /\ seen' \in [Ids -> Nat]
        /\ \A i \in Ids : i # msg.id => seen'[i] \in {seen[i], 0}
        /\ \A i \in Ids : seen'[i] >= seen[i] \/ seen[i] <= clock
    <3>1. /\ seen' \in [Ids -> Nat]
          /\ seen'[msg.id] = clock + TTL
          /\ \A i \in Ids \ {msg.id} : seen'[i] = (IF seen[i] > clock THEN seen[i] ELSE 0)
      BY <1>1, <2>1, NotedFact
    <3>2. \A i \in Ids : i # msg.id => seen'[i] \in {seen[i], 0}
      BY <3>1
    <3>3. \A i \in Ids : seen'[i] >= seen[i] \/ seen[i] <= clock
      <4> SUFFICES ASSUME NEW i \in Ids PROVE seen'[i] >= seen[i] \/ seen[i] <= clock
        OBVIOUS
      <4>1. CASE i = msg.id
        BY <1>1, <1>4, <4>1 DEF Duplicate
      <4>2. CASE i # msg.id
        BY <1>1, <3>1, <4>2
      <4> QED BY <4>1, <4>2
    <3> QED BY <3>1, <3>2, <3>3
  <2> QED BY <2>1, <2>2, <2>3, NoVoteIInv DEF Handle
<1>5. CASE msg.kind = "vote" /\ ~Duplicate(msg.id) /\ ~(capped[msg.id] > clock)
  <2>1. capped[msg.id] <= clock
    BY <1>1, <1>5 DEF TypeOK
  <2> QED BY <1>1, <1>5, <2>1, VoteIInv DEF Handle, HandleRaw, HandleEvent
<1>6. msg.kind \in {"vote", "malformed", "invalid", "fraud"}
  BY <1>1, LogType DEF Kinds
<1> QED BY <1>2, <1>3, <1>4, <1>5, <1>6

LEMMA TickIInv == ASSUME IInv, Tick PROVE IInv'
<1> USE DEF IInv, Tick, loop, memory
<1>1. TypeOK'
  BY LogType DEF TypeOK
<1>2. InOrder' /\ CommittedWasCounted' /\ RememberedWasCounted' /\ NoDoubleVote'
  BY DEF InOrder, CommittedWasCounted, RememberedWasCounted, NoDoubleVote
<1>3. VoteRemembered'
  BY Numbers DEF TypeOK, VoteRemembered
<1> QED BY <1>1, <1>2, <1>3

(* The steps of the process and its environment that change one thing.      *)
LEMMA OtherIInv ==
  ASSUME IInv, FetchCancelled \/ Signal \/ Boot \/ Produce \/ UNCHANGED vars
  PROVE  IInv'
<1> USE DEF IInv, loop, memory
<1>1. CASE FetchCancelled
  BY <1>1, LogType, Numbers DEF FetchCancelled, Running, TypeOK, InOrder, CommittedWasCounted,
    RememberedWasCounted, VoteRemembered, NoDoubleVote
<1>2. CASE Signal
  <2>1. TypeOK'
    BY <1>2, LogType, Numbers, FaultType DEF Signal, TypeOK
  <2> QED BY <1>2, <2>1 DEF Signal, InOrder, CommittedWasCounted, RememberedWasCounted,
    VoteRemembered, NoDoubleVote
<1>3. CASE Boot
  <2>1. TypeOK'
    BY <1>3, LogType, Numbers DEF Boot, RejoinAt, TypeOK
  <2>2. InOrder'
    BY <1>3, Offsets DEF Boot, RejoinAt, InOrder
  <2>3. CommittedWasCounted' /\ RememberedWasCounted'
    BY <1>3 DEF Boot, CommittedWasCounted, RememberedWasCounted
  <2> QED BY <1>3, <2>1, <2>2, <2>3, MemoryKept DEF Boot
<1>4. CASE Produce
  BY <1>4, LogType, Numbers DEF Produce, TypeOK, InOrder, CommittedWasCounted,
    RememberedWasCounted, VoteRemembered, NoDoubleVote
<1>5. CASE UNCHANGED vars
  BY <1>5 DEF vars, TypeOK, InOrder, CommittedWasCounted,
    RememberedWasCounted, VoteRemembered, NoDoubleVote
<1> QED BY <1>1, <1>2, <1>3, <1>4, <1>5

LEMMA NextIInv == ASSUME IInv, [Next]_vars PROVE IInv'
<1>1. CASE FetchFails \/ Crash
  BY <1>1, FaultType, DieIInv DEF IInv, FetchFails, Crash, Running
<1>2. CASE Exit
  BY <1>2, DieIInv DEF IInv, TypeOK, Exit
<1>3. CASE Fetch \/ Rebalance \/ Handle \/ HandlerFails \/ Commit \/ CommitFails \/ Tick
  BY <1>3, FetchIInv, RebalanceIInv, HandleIInv, HandlerFailsIInv, CommitIInv, CommitFailsIInv,
    TickIInv
<1>4. CASE FetchCancelled \/ Signal \/ Boot \/ Produce \/ UNCHANGED vars
  BY <1>4, OtherIInv
<1> QED BY <1>1, <1>2, <1>3, <1>4 DEF Next, Waiting

-----------------------------------------------------------------------------
(* The inductive invariant holds in every reachable state.                  *)
THEOREM Invariance == Spec => []IInv
<1>1. IInv /\ [Next]_vars => IInv'
  BY NextIInv
<1> QED BY InitIInv, <1>1, PTL DEF Spec

(* Every variable has its type, and no handler is called more often than    *)
(* MaxProcessingRetries allows.                                             *)
THEOREM TypeCorrect == Spec => []TypeOK
<1>1. IInv => TypeOK
  BY DEF IInv
<1> QED BY <1>1, Invariance, PTL

(* Whatever fails and whenever the process dies, what the group has         *)
(* committed was handled, and counted if it was a vote.                     *)
THEOREM NothingSkipped == Spec => []CommittedWasCounted
<1>1. IInv => CommittedWasCounted
  BY DEF IInv
<1> QED BY <1>1, Invariance, PTL

(* One process counts an event twice only when store and cap have both      *)
(* forgotten it, whatever is delivered again.                               *)
THEOREM NothingTwice == Spec => []NoDoubleVote
<1>1. IInv => NoDoubleVote
  BY DEF IInv
<1> QED BY <1>1, Invariance, PTL

(* No rebalance, retry, ambiguous commit or restart takes the committed     *)
(* offset back.                                                             *)
THEOREM OffsetMonotone == Spec => CommittedNeverGoesBack
<1>1. IInv /\ [Next]_vars => [committed' >= committed]_vars
  <2> SUFFICES ASSUME IInv, Next PROVE committed' >= committed
    OBVIOUS
  <2>1. committed \in Nat
    BY LogType DEF IInv, TypeOK
  <2>2. CASE Commit \/ CommitFails
    BY <2>1, <2>2, LogType DEF IInv, TypeOK, InOrder, Commit, CommitFails, Running
  <2>3. CASE ~(Commit \/ CommitFails)
    <3>1. committed' = committed
      BY <2>3 DEF Next, Fetch, FetchFails, FetchCancelled, Rebalance, Handle, HandlerFails, Signal,
        Exit, Crash, Boot, Produce, Tick, Waiting, vars
    <3> QED BY <2>1, <3>1
  <2> QED BY <2>2, <2>3
<1> QED BY <1>1, Invariance, PTL DEF Spec, CommittedNeverGoesBack
=============================================================================
