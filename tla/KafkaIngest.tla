---------------------------- MODULE KafkaIngest ----------------------------
(* The way of an event from its partition into the counts: the consumer     *)
(* loop of internal/adapters/kafka, the handlers of internal/usecase/ingest *)
(* it calls, the duplicate store of internal/engine/dedup, and the death    *)
(* and restart of the process around them (internal/app, cmd).              *)
(*                                                                          *)
(* The partition is a constant sequence that a producer reveals; a message  *)
(* has the id of its event and the way it fares: "vote" is accepted,        *)
(* "malformed" fails the contract, "invalid" has no usable query, "fraud"   *)
(* is refused by the anti-fraud rules.  A producer's retry is the same id   *)
(* at a second offset: it has the same identities and, while the stop words *)
(* stay the same (Service lets them change), the same query, so that the    *)
(* contribution cap of the anti-fraud rules applies to it as well.          *)
(* Offsets start at 1.                                                      *)
EXTENDS Integers, Sequences, FiniteSets

CONSTANTS
  Log,                 \* the messages of the partition
  TTL,                 \* INGEST_DEDUP_TTL, in ticks
  ContributionWindow,  \* of the anti-fraud rules, in ticks
  MaxProcessingRetries,
  CommitRetries,
  MaxHandlerErrors,    \* bounds on what goes wrong
  MaxFetchErrors,
  MaxCommitErrors,
  MaxRebalances,
  MaxSignals,
  MaxCrashes,
  MaxClock             \* bound: last reading of the clock

Kinds == {"vote", "malformed", "invalid", "fraud"}
Ids == {Log[o].id : o \in DOMAIN Log}

ASSUME IngestAssumption ==
  /\ Log \in Seq([id : Ids, kind : Kinds])
  /\ \A o, p \in DOMAIN Log : Log[o].id = Log[p].id => Log[o].kind = Log[p].kind
  /\ TTL \in Nat \ {0} /\ ContributionWindow \in Nat \ {0}
  /\ {MaxProcessingRetries, CommitRetries, MaxHandlerErrors, MaxFetchErrors,
      MaxCommitErrors, MaxRebalances, MaxSignals, MaxCrashes, MaxClock} \subseteq Nat

VARIABLES
  clock,
  end,        \* messages produced so far
  committed,  \* the group's offset: messages 1..committed are not delivered again
  up,         \* the process runs
  ctxDone,    \* its root context is cancelled
  pc,         \* where Consumer.Run is
  position,   \* the reader: the last message delivered
  current,    \* the message in hand
  attempt,    \* failed attempts at what is being done with it
  seen,       \* dedup store: until when an id is a duplicate, 0 when unknown
  capped,     \* until when the rules refuse another vote of an event
  votes,      \* votes added to the window by this process
  everVoted,  \* history variable: ids added by any process
  faults      \* how often each thing has gone wrong

loop == <<pc, position, current, attempt>>
memory == <<seen, capped, votes>>
vars == <<clock, end, committed, up, ctxDone, loop, memory, everVoted, faults>>

-----------------------------------------------------------------------------
Bounds == [handler |-> MaxHandlerErrors, fetch |-> MaxFetchErrors,
           commit |-> MaxCommitErrors, rebalance |-> MaxRebalances,
           signal |-> MaxSignals, crash |-> MaxCrashes]

Init ==
  /\ clock = 1
  /\ end = 0
  /\ committed = 0
  /\ up = TRUE
  /\ ctxDone = FALSE
  /\ pc = "fetch" /\ position = 0 /\ current = 0 /\ attempt = 0
  /\ seen = [id \in Ids |-> 0] /\ capped = [id \in Ids |-> 0]
  /\ votes = {}
  /\ everVoted = {}
  /\ faults = [f \in DOMAIN Bounds |-> 0]

Fault(f) == faults[f] < Bounds[f] /\ faults' = [faults EXCEPT ![f] = @ + 1]

Running(at) == up /\ pc = at

(* The process ends; what it held in memory is gone.                        *)
Die ==
  /\ up' = FALSE
  /\ ctxDone' = FALSE
  /\ pc' = "fetch" /\ position' = 0 /\ current' = 0 /\ attempt' = 0
  /\ seen' = [id \in Ids |-> 0] /\ capped' = [id \in Ids |-> 0]
  /\ votes' = {}

-----------------------------------------------------------------------------
(* FetchMessage delivers the next message, also when the context has just   *)
(* been cancelled.                                                          *)
Fetch ==
  /\ Running("fetch")
  /\ position < end
  /\ position' = position + 1
  /\ current' = position + 1
  /\ attempt' = 0
  /\ pc' = "handle"
  /\ UNCHANGED <<clock, end, committed, up, ctxDone, memory, everVoted, faults>>

BugRejoinAt == 0
(* Where a reader that joins the group starts.                              *)
RejoinAt == committed

(* The group rebalances, with or without a message in hand: the reader goes *)
(* on from the committed offset.  ErrGenerationEnded and ErrGroupClosed     *)
(* only restart the loop.                                                   *)
Rebalance ==
  /\ up /\ pc # "returned"
  /\ Fault("rebalance")
  /\ position' = RejoinAt
  /\ UNCHANGED <<clock, end, committed, up, ctxDone, pc, current, attempt, memory, everVoted>>

(* Any other error ends Run, then Service.Run, then the process; after a    *)
(* cancellation it counts as one.                                           *)
FetchFails ==
  /\ Running("fetch") /\ ~ctxDone
  /\ Fault("fetch")
  /\ Die
  /\ UNCHANGED <<clock, end, committed, everVoted>>

FetchCancelled ==
  /\ Running("fetch") /\ ctxDone
  /\ pc' = "returned"
  /\ UNCHANGED <<clock, end, committed, up, ctxDone, position, current, attempt,
                 memory, everVoted, faults>>

-----------------------------------------------------------------------------
(* SeenOrAdd: expired ids are removed, then the id is looked up, and noted  *)
(* when it is new.                                                          *)
Duplicate(id) == seen[id] > clock
Swept == [i \in Ids |-> IF seen[i] > clock THEN seen[i] ELSE 0]
Noted(id) == [Swept EXCEPT ![id] = clock + TTL]

(* A vote notes the identities of its event for the contribution window.    *)
BugCapped(id) == capped
Capped(id) == [capped EXCEPT ![id] = clock + ContributionWindow]

(* Handler.Handle on an event that meets the contract.  What the store, the *)
(* normalizer or the rules reject is reported and done with: only a vote    *)
(* changes the window.                                                      *)
HandleEvent(msg) ==
  \/ /\ Duplicate(msg.id)
     /\ seen' = Swept
     /\ UNCHANGED <<capped, votes, everVoted>>
  \/ /\ ~Duplicate(msg.id)
     /\ \/ msg.kind \in {"invalid", "fraud"}
        \/ msg.kind = "vote" /\ capped[msg.id] > clock
     /\ seen' = Noted(msg.id)
     /\ UNCHANGED <<capped, votes, everVoted>>
  \/ /\ ~Duplicate(msg.id)
     /\ msg.kind = "vote" /\ capped[msg.id] <= clock
     /\ seen' = Noted(msg.id)
     /\ capped' = Capped(msg.id)
     /\ votes' = votes \cup {[id |-> msg.id, offset |-> current, at |-> clock]}
     /\ everVoted' = everVoted \cup {msg.id}

(* HandleRaw: a rejection is no error.                                      *)
HandleRaw(msg) ==
  \/ msg.kind = "malformed" /\ UNCHANGED <<memory, everVoted>>
  \/ msg.kind # "malformed" /\ HandleEvent(msg)

BugHandle ==
  /\ Running("handle")
  /\ Log[current].kind # "malformed"
  /\ HandleRaw(Log[current])
  /\ pc' = "commit" /\ attempt' = 0
  /\ UNCHANGED <<clock, end, committed, up, ctxDone, position, current, faults>>

Handle ==
  /\ Running("handle")
  /\ HandleRaw(Log[current])
  /\ pc' = "commit" /\ attempt' = 0
  /\ UNCHANGED <<clock, end, committed, up, ctxDone, position, current, faults>>

BugHandlerFails ==
  /\ Running("handle")
  /\ Fault("handler")
  /\ IF attempt >= MaxProcessingRetries
     THEN pc' = "commit" /\ attempt' = 0
     ELSE attempt' = attempt + 1 /\ UNCHANGED pc
  /\ UNCHANGED <<up, ctxDone, position, current, memory>>
  /\ UNCHANGED <<clock, end, committed, everVoted>>

BugRetryForever ==
  /\ Running("handle")
  /\ Fault("handler")
  /\ attempt' = attempt + 1
  /\ UNCHANGED <<up, ctxDone, pc, position, current, memory>>
  /\ UNCHANGED <<clock, end, committed, everVoted>>

(* The handler returns an error, which it does not for a rejected event: it *)
(* is called again, also when the context is cancelled, and after the last  *)
(* retry the process ends.  The handlers of today return one only before    *)
(* they have changed anything.                                              *)
HandlerFails ==
  /\ Running("handle")
  /\ Fault("handler")
  /\ \/ attempt >= MaxProcessingRetries /\ Die
     \/ /\ attempt < MaxProcessingRetries
        /\ attempt' = attempt + 1
        /\ UNCHANGED <<up, ctxDone, pc, position, current, memory>>
  /\ UNCHANGED <<clock, end, committed, everVoted>>

-----------------------------------------------------------------------------
Commit ==
  /\ Running("commit")
  /\ committed' = current
  /\ pc' = "fetch"
  /\ UNCHANGED <<clock, end, up, ctxDone, position, current, attempt, memory,
                 everVoted, faults>>

(* CommitMessages returns an error; the broker may have taken the commit.   *)
(* A cancelled context ends Run.  The process ends when the retries are     *)
(* exhausted, and at once when the library reports a deadline of its own;   *)
(* that the library returns Canceled before the context is cancelled is not *)
(* considered.                                                              *)
CommitFails ==
  /\ Running("commit")
  /\ Fault("commit")
  /\ committed' \in {committed, current}
  /\ \/ ctxDone /\ pc' = "returned" /\ UNCHANGED <<up, ctxDone, position, current, attempt, memory>>
     \/ ~ctxDone /\ Die
     \/ /\ ~ctxDone /\ attempt < CommitRetries
        /\ attempt' = attempt + 1
        /\ UNCHANGED <<up, ctxDone, pc, position, current, memory>>
  /\ UNCHANGED <<clock, end, everVoted>>

-----------------------------------------------------------------------------
(* SIGINT or SIGTERM.  Service.Run waits for the HTTP server only, so the   *)
(* process may end at any point of the loop.                                *)
Signal ==
  /\ up /\ ~ctxDone
  /\ Fault("signal")
  /\ ctxDone' = TRUE
  /\ UNCHANGED <<clock, end, committed, up, loop, memory, everVoted>>

Exit ==
  /\ up /\ ctxDone
  /\ Die
  /\ UNCHANGED <<clock, end, committed, everVoted, faults>>

Crash ==
  /\ up
  /\ Fault("crash")
  /\ Die
  /\ UNCHANGED <<clock, end, committed, everVoted>>

(* The restarted process joins the group again.                             *)
Boot ==
  /\ ~up
  /\ up' = TRUE
  /\ position' = RejoinAt
  /\ UNCHANGED <<clock, end, committed, ctxDone, pc, current, attempt, memory,
                 everVoted, faults>>

Produce ==
  /\ end < Len(Log)
  /\ end' = end + 1
  /\ UNCHANGED <<clock, committed, up, ctxDone, loop, memory, everVoted, faults>>

Tick ==
  /\ clock < MaxClock
  /\ clock' = clock + 1
  /\ UNCHANGED <<end, committed, up, ctxDone, loop, memory, everVoted, faults>>

(* Everything is consumed and the clock has reached its bound: the consumer *)
(* waits for the next message.                                              *)
Waiting == Running("fetch") /\ position = Len(Log) /\ clock = MaxClock /\ UNCHANGED vars

Next ==
  \/ Fetch \/ FetchFails \/ FetchCancelled \/ Rebalance
  \/ Handle \/ HandlerFails
  \/ Commit \/ CommitFails
  \/ Signal \/ Exit \/ Crash \/ Boot
  \/ Produce \/ Tick \/ Waiting

(* The loop goes on; the shutdown has a timeout of 5 s, after which main    *)
(* returns; docker-compose restarts the container.                          *)
Fairness == /\ WF_vars(Fetch) /\ WF_vars(Handle) /\ WF_vars(Commit)
            /\ WF_vars(Exit) /\ WF_vars(Boot)

Spec == Init /\ [][Next]_vars /\ Fairness

-----------------------------------------------------------------------------
(* Every variable has its type; an attempt beyond the last retry is never   *)
(* made.                                                                    *)
TypeOK ==
  /\ clock \in Nat
  /\ end \in 0..Len(Log)
  /\ committed \in 0..Len(Log)
  /\ up \in BOOLEAN /\ ctxDone \in BOOLEAN
  /\ pc \in {"fetch", "handle", "commit", "returned"}
  /\ position \in 0..Len(Log) /\ current \in 0..Len(Log)
  /\ pc \in {"handle", "commit"} => current \in 1..Len(Log)
  /\ attempt \in Nat
  /\ pc = "handle" => attempt <= MaxProcessingRetries
  /\ seen \in [Ids -> Nat] /\ capped \in [Ids -> Nat]
  /\ votes \subseteq [id : Ids, offset : 1..Len(Log), at : Nat]
  /\ everVoted \subseteq Ids
  /\ faults \in [DOMAIN Bounds -> Nat]

(* No event is skipped: what the group has committed was handled, by this   *)
(* process or an earlier one, and counted if it was a vote.                 *)
CommittedWasCounted ==
  \A o \in 1..committed : Log[o].kind = "vote" => Log[o].id \in everVoted

(* An event delivered again, after a rebalance, a failed commit or by a     *)
(* producer's retry, is not counted again by the same process while the     *)
(* store or the contribution cap remembers it, whichever is longer.         *)
NoDoubleVote ==
  \A v, w \in votes : (v # w /\ v.id = w.id) =>
    LET apart == IF v.at >= w.at THEN v.at - w.at ELSE w.at - v.at
    IN  apart >= TTL /\ apart >= ContributionWindow

(* The inductive invariant of the proofs.  A live loop is at most one       *)
(* message past the committed offset, and the reader at most one message    *)
(* before or behind the loop, whatever rebalance came between.              *)
InOrder ==
  /\ ~up => pc = "fetch"
  /\ up /\ pc = "fetch" => committed - 1 <= position /\ position <= committed
  /\ up /\ pc \in {"handle", "commit"} =>
       /\ committed <= current /\ current <= committed + 1
       /\ current - 1 <= position /\ position <= current

(* What the store or the cap remembers of a vote, and what is about to be   *)
(* committed, has been counted.                                             *)
RememberedWasCounted ==
  \A o \in DOMAIN Log :
    (/\ Log[o].kind = "vote"
     /\ \/ seen[Log[o].id] # 0
        \/ capped[Log[o].id] # 0
        \/ pc = "commit" /\ o = current) => Log[o].id \in everVoted

(* A vote is remembered for as long as it must not be repeated.             *)
VoteRemembered ==
  \A v \in votes :
    /\ v.at <= clock
    /\ capped[v.id] >= v.at + ContributionWindow
    /\ (seen[v.id] >= v.at + TTL \/ clock >= v.at + TTL)

IInv == /\ TypeOK /\ InOrder /\ CommittedWasCounted /\ RememberedWasCounted
        /\ VoteRemembered /\ NoDoubleVote

(* The committed offset never goes back: no rebalance, retry or restart     *)
(* makes the group deliver again what it has finished.                      *)
CommittedNeverGoesBack == [][committed' >= committed]_vars

(* Every message is finished with, a rejected or malformed one as well: no  *)
(* message blocks its partition, whatever finite trouble there is.          *)
EveryMessageCommitted == \A o \in 1..Len(Log) : end >= o ~> committed >= o

(* README.md: an event is not lost.  When all is consumed, the process that *)
(* serves the top holds every vote of the stream.                           *)
VoteNotLost ==
  (up /\ pc = "fetch" /\ position = end /\ committed = end)
    => \A o \in 1..end : Log[o].kind = "vote" => \E v \in votes : v.id = Log[o].id
=============================================================================
