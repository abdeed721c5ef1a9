---------------------------- MODULE StopListSync ----------------------------
(* The stop-list: the admin handlers of internal/adapters/httpapi, the      *)
(* service in internal/usecase/stoplist, its PostgreSQL repository, and the *)
(* copy of the words the normalizer filters queries with.                   *)
(*                                                                          *)
(* Each admin request is a goroutine of its own.  A change is a transaction *)
(* (insert or delete the word, bump the version row, commit) followed by    *)
(* Sync, which reads the words back and hands them to the normalizer; the   *)
(* words and the version are two queries.  PostgreSQL runs at its default   *)
(* isolation, READ COMMITTED: a query sees what is committed when it        *)
(* starts, and a write waits for the transaction that holds the row.        *)
EXTENDS Integers, Sequences, FiniteSets

CONSTANTS
  Requests,    \* admin requests that may be served at the same time
  Words,       \* stop words: lower case and trimmed
  NoWord,      \* a word that is empty when trimmed
  Nobody,      \* no transaction
  MaxVersion,  \* bound: changes started while the version is below it
  MaxErrors,   \* bound: database errors and lost clients
  MaxCrashes,  \* bound: crashes of the service
  MaxFaults    \* bound: both together

ASSUME StopListAssumption ==
  /\ Nobody \notin Requests
  /\ NoWord \notin Words
  /\ {MaxVersion, MaxErrors, MaxCrashes, MaxFaults} \subseteq Nat

VARIABLES
  up,         \* the service is running
  words,      \* committed rows of stop_words
  version,    \* committed version in stop_list_state
  wordLock,   \* wordLock[w]: the transaction that inserted or deleted row w
  versionLock,\* the transaction that updated the version row
  request,    \* the goroutine of each request
  reply,      \* the last response of each request
  active,     \* the stop words of the normalizer
  history,    \* history variable: the committed contents, oldest first
  activeAt,   \* history variable: which of them active is a copy of
  errors,     \* errors so far
  crashes     \* crashes so far

database == <<words, version, wordLock, versionLock, history>>
faults == <<errors, crashes>>
vars == <<up, database, request, reply, active, activeAt, faults>>

-----------------------------------------------------------------------------
Kinds == {"add", "remove", "list"}
IdleRequest == [pc |-> "idle", kind |-> "list", word |-> NoWord, version |-> 0,
                read |-> {}, readAt |-> 1]
Keys == Words \cup {NoWord}
NoReply == [status |-> "none", kind |-> "list", word |-> NoWord, version |-> 0,
            words |-> {}]

Init ==
  /\ up = TRUE
  /\ words = {}
  /\ version = 0
  /\ wordLock = [w \in Keys |-> Nobody]
  /\ versionLock = Nobody
  /\ request = [p \in Requests |-> IdleRequest]
  /\ reply = [p \in Requests |-> NoReply]
  /\ active = {}
  /\ history = <<{}>>
  /\ activeAt = 1
  /\ errors = 0 /\ crashes = 0

Goto(p, pc) == request' = [request EXCEPT ![p].pc = pc]

(* The response written to p's client; the goroutine ends.                  *)
Respond(p, status) ==
  /\ reply' = [reply EXCEPT ![p] =
       [status |-> status, kind |-> request[p].kind, word |-> request[p].word,
        version |-> request[p].version, words |-> request[p].read]]
  /\ request' = [request EXCEPT ![p] = IdleRequest]

(* The definitions called Bug... are mistakes the properties are meant to   *)
(* catch; nothing here uses them.                                           *)
BugRelease(p) == wordLock' = wordLock /\ versionLock' = versionLock

(* The deferred Rollback, and the end of the transaction in any case.       *)
Release(p) ==
  /\ wordLock' = [w \in Keys |-> IF wordLock[w] = p THEN Nobody ELSE wordLock[w]]
  /\ versionLock' = IF versionLock = p THEN Nobody ELSE versionLock

(* The content p's transaction leaves.                                      *)
Changed(p) == IF request[p].kind = "add" THEN words \cup {request[p].word}
                                         ELSE words \ {request[p].word}

(* COMMIT reaches the database.                                             *)
Apply(p) ==
  /\ words' = Changed(p)
  /\ version' = request[p].version
  /\ history' = Append(history, Changed(p))
  /\ Release(p)

Error ==
  /\ errors < MaxErrors /\ errors + crashes < MaxFaults
  /\ errors' = errors + 1 /\ UNCHANGED crashes

-----------------------------------------------------------------------------
BugBegin(p, kind, w) ==
  /\ up /\ request[p].pc = "idle"
  /\ kind # "list" => version < MaxVersion
  /\ request' = [request EXCEPT ![p] =
       [IdleRequest EXCEPT !.kind = kind, !.word = w,
                           !.pc = IF kind = "list" THEN "words" ELSE "write"]]
  /\ UNCHANGED <<up, database, reply, active, activeAt, faults>>

(* A request comes in.  The words of the body or the path are trimmed and   *)
(* lowered; one that is then empty never reaches the repository (Refuse).   *)
Begin(p, kind, w) ==
  /\ up /\ request[p].pc = "idle"
  /\ kind # "list" => version < MaxVersion /\ w # NoWord
  /\ request' = [request EXCEPT ![p] =
       [IdleRequest EXCEPT !.kind = kind, !.word = w,
                           !.pc = IF kind = "list" THEN "words" ELSE "write"]]
  /\ UNCHANGED <<up, database, reply, active, activeAt, faults>>

Refuse(p, kind) ==
  /\ up /\ request[p].pc = "idle" /\ kind # "list"
  /\ reply' = [reply EXCEPT ![p] = [NoReply EXCEPT !.status = "invalid", !.kind = kind]]
  /\ UNCHANGED <<up, database, request, active, activeAt, faults>>

(* INSERT: waits for a transaction that has the row, then the primary key   *)
(* decides.  ErrAlreadyExists returns from the service before Sync.         *)
InsertConflicts(p) ==
  /\ request[p].pc = "write" /\ request[p].kind = "add"
  /\ wordLock[request[p].word] = Nobody
  /\ request[p].word \in words
  /\ Respond(p, "conflict")
  /\ UNCHANGED <<up, database, active, activeAt, faults>>

BugInsert(p) ==
  /\ request[p].pc = "write" /\ request[p].kind = "add"
  /\ request[p].word \notin words
  /\ wordLock' = [wordLock EXCEPT ![request[p].word] = p]
  /\ Goto(p, "bump")
  /\ UNCHANGED <<up, words, version, versionLock, history, reply, active, activeAt, faults>>

Insert(p) ==
  /\ request[p].pc = "write" /\ request[p].kind = "add"
  /\ wordLock[request[p].word] = Nobody
  /\ request[p].word \notin words
  /\ wordLock' = [wordLock EXCEPT ![request[p].word] = p]
  /\ Goto(p, "bump")
  /\ UNCHANGED <<up, words, version, versionLock, history, reply, active, activeAt, faults>>

(* DELETE: a row that is not committed is not seen and not waited for; a    *)
(* row another transaction is deleting is waited for and looked at again.   *)
DeleteMisses(p) ==
  /\ request[p].pc = "write" /\ request[p].kind = "remove"
  /\ request[p].word \notin words
  /\ Respond(p, "notfound")
  /\ UNCHANGED <<up, database, active, activeAt, faults>>

Delete(p) ==
  /\ request[p].pc = "write" /\ request[p].kind = "remove"
  /\ request[p].word \in words
  /\ wordLock[request[p].word] = Nobody
  /\ wordLock' = [wordLock EXCEPT ![request[p].word] = p]
  /\ Goto(p, "bump")
  /\ UNCHANGED <<up, words, version, versionLock, history, reply, active, activeAt, faults>>

BugBumpUnlocked(p) ==
  /\ request[p].pc = "bump"
  /\ request' = [request EXCEPT ![p].pc = "commit", ![p].version = version + 1]
  /\ UNCHANGED <<up, words, version, wordLock, versionLock, history, reply, active,
                 activeAt, faults>>

(* bumpVersion: the UPDATE waits for the version row and increments what is *)
(* committed by then; the SELECT reads the transaction's own update.        *)
BumpVersion(p) ==
  /\ request[p].pc = "bump"
  /\ versionLock = Nobody
  /\ versionLock' = p
  /\ request' = [request EXCEPT ![p].pc = "commit", ![p].version = version + 1]
  /\ UNCHANGED <<up, words, version, wordLock, history, reply, active, activeAt, faults>>

BugCommitNoRead(p) ==
  /\ request[p].pc = "commit"
  /\ Apply(p)
  /\ Goto(p, "replace")
  /\ UNCHANGED <<up, reply, active, activeAt, faults>>

BugCommitNoSync(p) ==
  /\ request[p].pc = "commit"
  /\ Apply(p)
  /\ Respond(p, "ok")
  /\ UNCHANGED <<up, active, activeAt, faults>>

Commit(p) ==
  /\ request[p].pc = "commit"
  /\ Apply(p)
  /\ Goto(p, "words")
  /\ UNCHANGED <<up, reply, active, activeAt, faults>>

(* Commit returns an error: it did or did not take effect.                  *)
CommitFails(p) ==
  /\ request[p].pc = "commit"
  /\ Error
  /\ \/ Apply(p)
     \/ Release(p) /\ UNCHANGED <<words, version, history>>
  /\ Respond(p, "unavailable")
  /\ UNCHANGED <<up, active, activeAt>>

(* BeginTx, INSERT, DELETE or the version queries fail, or the client goes  *)
(* away and its context is cancelled: the transaction is rolled back.       *)
WriteFails(p) ==
  /\ request[p].pc \in {"write", "bump"}
  /\ Error
  /\ Release(p)
  /\ Respond(p, "unavailable")
  /\ UNCHANGED <<up, words, version, history, active, activeAt>>

(* List, first query.                                                       *)
ReadWords(p) ==
  /\ request[p].pc = "words"
  /\ request' = [request EXCEPT ![p].pc = "version", ![p].read = words,
                                ![p].readAt = Len(history)]
  /\ UNCHANGED <<up, database, reply, active, activeAt, faults>>

BugReadVersion(p) ==
  /\ request[p].pc = "version"
  /\ IF request[p].kind = "list"
     THEN Respond(p, "ok")
     ELSE Goto(p, "replace") /\ UNCHANGED reply
  /\ UNCHANGED <<up, database, active, activeAt, faults>>

(* List, second query.  GET answers with it; Sync ignores it and goes on to *)
(* ReplaceStopWords.                                                        *)
ReadVersion(p) ==
  /\ request[p].pc = "version"
  /\ IF request[p].kind = "list"
     THEN /\ reply' = [reply EXCEPT ![p] =
               [status |-> "ok", kind |-> "list", word |-> request[p].word,
                version |-> version, words |-> request[p].read]]
          /\ request' = [request EXCEPT ![p] = IdleRequest]
     ELSE Goto(p, "replace") /\ UNCHANGED reply
  /\ UNCHANGED <<up, database, active, activeAt, faults>>

(* One of the two queries fails, or the client has gone.  After a change    *)
(* the answer is 503 although the change is committed.                      *)
ReadFails(p) ==
  /\ request[p].pc \in {"words", "version"}
  /\ Error
  /\ Respond(p, "unavailable")
  /\ UNCHANGED <<up, database, active, activeAt>>

BugReplaceMerges(p) ==
  /\ request[p].pc = "replace"
  /\ active' = active \cup request[p].read
  /\ activeAt' = request[p].readAt
  /\ Respond(p, "ok")
  /\ UNCHANGED <<up, database, faults>>

(* ReplaceStopWords under the normalizer's lock, and the answer.            *)
Replace(p) ==
  /\ request[p].pc = "replace"
  /\ active' = request[p].read
  /\ activeAt' = request[p].readAt
  /\ Respond(p, "ok")
  /\ UNCHANGED <<up, database, faults>>

(* The process dies.  The database rolls back the sessions it loses; a      *)
(* COMMIT that was on its way may still take effect.                        *)
Crash ==
  /\ up /\ crashes < MaxCrashes /\ errors + crashes < MaxFaults
  /\ crashes' = crashes + 1
  /\ up' = FALSE
  /\ request' = [p \in Requests |-> IdleRequest]
  /\ wordLock' = [w \in Keys |-> Nobody]
  /\ versionLock' = Nobody
  /\ \/ UNCHANGED <<words, version, history>>
     \/ \E p \in Requests : /\ request[p].pc = "commit"
                            /\ words' = Changed(p)
                            /\ version' = request[p].version
                            /\ history' = Append(history, Changed(p))
  /\ UNCHANGED <<reply, active, activeAt, errors>>

(* main: the migrations change nothing that exists, the normalizer is built *)
(* from a List and synchronised once more before the server listens.        *)
Boot ==
  /\ ~up
  /\ up' = TRUE
  /\ active' = words
  /\ activeAt' = Len(history)
  /\ UNCHANGED <<database, request, reply, faults>>

Step(p) ==
  \/ InsertConflicts(p) \/ Insert(p) \/ DeleteMisses(p) \/ Delete(p)
  \/ BumpVersion(p) \/ Commit(p) \/ ReadWords(p) \/ ReadVersion(p) \/ Replace(p)

Next ==
  \/ \E p \in Requests : \/ \E kind \in Kinds, w \in Keys : Begin(p, kind, w)
                         \/ \E kind \in Kinds : Refuse(p, kind)
                         \/ Step(p)
                         \/ CommitFails(p) \/ WriteFails(p) \/ ReadFails(p)
  \/ Crash
  \/ Boot

(* A goroutine goes on, the database answers, and it hands a lock to the    *)
(* transaction that has waited longest; a stopped container is restarted.   *)
Fairness == WF_vars(Boot) /\ \A p \in Requests : SF_vars(Step(p))

Spec == Init /\ [][Next]_vars /\ Fairness

-----------------------------------------------------------------------------
(* Every variable has its type; no empty word is ever stored or filtered.   *)
TypeOK ==
  /\ up \in BOOLEAN
  /\ words \subseteq Words
  /\ version \in Nat
  /\ wordLock \in [Keys -> Requests \cup {Nobody}]
  /\ versionLock \in Requests \cup {Nobody}
  /\ request \in [Requests ->
       [pc : {"idle", "write", "bump", "commit", "words", "version", "replace"},
        kind : Kinds, word : Keys, version : Nat,
        read : SUBSET Words, readAt : Nat \ {0}]]
  /\ reply \in [Requests ->
       [status : {"none", "ok", "invalid", "conflict", "notfound", "unavailable"},
        kind : Kinds, word : Keys, version : Nat,
        words : SUBSET Words]]
  /\ active \subseteq Words
  /\ history \in Seq(SUBSET Words)
  /\ activeAt \in Nat \ {0}
  /\ errors \in 0..MaxErrors /\ crashes \in 0..MaxCrashes

(* The version counts the changes: it names one content, and the committed  *)
(* words are the content it names.                                          *)
VersionNamesContent ==
  /\ Len(history) = version + 1
  /\ history[Len(history)] = words

(* Version v was made by this change: it differs from v - 1 by exactly the  *)
(* word.                                                                    *)
Made(kind, w, v) ==
  /\ v \in 1..version
  /\ IF kind = "add"
     THEN w \notin history[v] /\ history[v + 1] = history[v] \cup {w}
     ELSE w \in history[v] /\ history[v + 1] = history[v] \ {w}

(* An acknowledged change is the one change that made its version, whatever *)
(* ran at the same time.                                                    *)
AcknowledgedOnce ==
  \A p \in Requests : reply[p].status = "ok" /\ reply[p].kind # "list" =>
    Made(reply[p].kind, reply[p].word, reply[p].version)

(* The words of GET /admin/stop-words are a content that was committed, and *)
(* its version is not behind them: a client that saw a version finds that   *)
(* change, or a later content, in the words of any later answer.            *)
ListNotTorn ==
  \A p \in Requests : reply[p].status = "ok" /\ reply[p].kind = "list" =>
    /\ reply[p].version <= version
    /\ \E v \in 0..reply[p].version : reply[p].words = history[v + 1]

(* The normalizer filters with some committed content, never with a mix.    *)
ActiveWasCommitted == activeAt <= Len(history) /\ active = history[activeAt]

(* When a change is acknowledged the normalizer filters with a content that *)
(* has it: the one of its version or a later one.                           *)
AcknowledgedIsActive ==
  [][\A p \in Requests :
       (request[p].pc = "replace" /\ request'[p].pc = "idle" /\ up')
         => activeAt' >= request[p].version + 1]_vars

(* When no request is in progress the normalizer filters with the words of  *)
(* the database.  Holds for one request at a time when no query fails, also *)
(* over a crash.                                                            *)
SyncedWhenQuiet ==
  (up /\ \A p \in Requests : request[p].pc = "idle") => active = words

(* Every request is answered, or its process died: no two changes wait for  *)
(* each other's rows for ever.                                              *)
RequestsEnd == \A p \in Requests : request[p].pc # "idle" ~> request[p].pc = "idle"

(* The inductive invariant of the proofs: what each request relies on.  In  *)
(* its transaction it has the lock of its word, which nobody else changes;  *)
(* before COMMIT it has that of the version, and the next version; after it *)
(* its version is made, and what it read is a content not older than that.  *)
RequestOK(p) ==
  LET r == request[p]
  IN  /\ r.pc \in {"write", "bump", "commit"} => r.kind # "list" /\ r.word \in Words
      /\ r.pc \in {"bump", "commit"} =>
           /\ wordLock[r.word] = p
           /\ IF r.kind = "add" THEN r.word \notin words ELSE r.word \in words
      /\ r.pc = "commit" => versionLock = p /\ r.version = version + 1
      /\ r.pc \in {"words", "version", "replace"} /\ r.kind # "list"
           => Made(r.kind, r.word, r.version)
      /\ r.pc \in {"version", "replace"} =>
           /\ r.readAt \in 1..Len(history)
           /\ r.read = history[r.readAt]
           /\ r.kind # "list" => r.readAt > r.version
      /\ r.pc = "replace" => r.kind # "list"

IInv == /\ TypeOK /\ VersionNamesContent /\ AcknowledgedOnce /\ ListNotTorn
        /\ ActiveWasCommitted
        /\ \A p \in Requests : RequestOK(p)
=============================================================================
