------------------------- MODULE StopListSync_proofs -------------------------
(* Theorems about the stop-list: for any number of concurrent requests and  *)
(* words, and any number of errors and crashes.                             *)
EXTENDS StopListSync, TLAPS

PCs == {"idle", "write", "bump", "commit", "words", "version", "replace"}
Statuses == {"none", "ok", "invalid", "conflict", "notfound", "unavailable"}
RequestType == [pc : PCs, kind : Kinds, word : Keys, version : Nat,
                read : SUBSET Words, readAt : Nat \ {0}]
ReplyType == [status : Statuses, kind : Kinds, word : Keys, version : Nat,
              words : SUBSET Words]

(* What is said of one reply.                                               *)
ReplyOK(p) ==
  LET r == reply[p]
  IN  /\ r.status = "ok" /\ r.kind # "list" => Made(r.kind, r.word, r.version)
      /\ r.status = "ok" /\ r.kind = "list" =>
           /\ r.version <= version
           /\ \E v \in 0..r.version : r.words = history[v + 1]

(* A step that at most appends to the history.                              *)
Grows ==
  /\ version' \in Nat /\ version' >= version
  /\ Len(history') = version' + 1
  /\ history'[version' + 1] = words'
  /\ \A i \in 1..Len(history) : history'[i] = history[i]

(* A step that leaves alone what request q relies on.                       *)
Undisturbed(q) ==
  /\ request[q].pc \in {"bump", "commit"} =>
       /\ wordLock'[request[q].word] = wordLock[request[q].word]
       /\ request[q].word \in words' <=> request[q].word \in words
  /\ request[q].pc = "commit" => versionLock' = versionLock /\ version' = version

-----------------------------------------------------------------------------
LEMMA Types ==
  ASSUME TypeOK
  PROVE  /\ request \in [Requests -> RequestType]
         /\ reply \in [Requests -> ReplyType]
         /\ version \in Nat /\ Len(history) \in Nat
         /\ words \subseteq Words /\ active \subseteq Words
         /\ history \in Seq(SUBSET Words)
<1>1. /\ request \in [Requests -> RequestType]
      /\ reply \in [Requests -> ReplyType]
  BY DEF TypeOK, RequestType, ReplyType, PCs, Statuses
<1>2. /\ version \in Nat /\ words \subseteq Words /\ active \subseteq Words
      /\ history \in Seq(SUBSET Words)
  BY DEF TypeOK
<1>3. Len(history) \in Nat
  BY <1>2
<1> QED BY <1>1, <1>2, <1>3

LEMMA RequestFields ==
  ASSUME TypeOK, NEW p \in Requests
  PROVE  /\ request[p] \in RequestType
         /\ request[p].pc \in PCs /\ request[p].kind \in Kinds /\ request[p].word \in Keys
         /\ request[p].version \in Nat /\ request[p].read \subseteq Words
         /\ request[p].readAt \in Nat \ {0}
BY Types DEF RequestType

LEMMA IdleType == IdleRequest \in RequestType
BY DEF IdleRequest, RequestType, PCs, Kinds, Keys

(* Where a request goes; nothing else of it changes.                        *)
LEMMA GotoFact ==
  ASSUME TypeOK, NEW p \in Requests, NEW at \in PCs, Goto(p, at)
  PROVE  /\ request' \in [Requests -> RequestType]
         /\ request'[p] = [request[p] EXCEPT !.pc = at]
         /\ request'[p].pc = at
         /\ request'[p].kind = request[p].kind /\ request'[p].word = request[p].word
         /\ request'[p].version = request[p].version
         /\ request'[p].read = request[p].read /\ request'[p].readAt = request[p].readAt
         /\ \A q \in Requests \ {p} : request'[q] = request[q]
BY Types, RequestFields DEF Goto, RequestType

(* What a client is told, and that its request is over.                     *)
LEMMA RespondFact ==
  ASSUME TypeOK, NEW p \in Requests, NEW status \in Statuses, Respond(p, status)
  PROVE  /\ request' \in [Requests -> RequestType]
         /\ request'[p] = IdleRequest /\ request'[p].pc = "idle"
         /\ reply' \in [Requests -> ReplyType]
         /\ reply'[p].status = status /\ reply'[p].kind = request[p].kind
         /\ reply'[p].word = request[p].word /\ reply'[p].version = request[p].version
         /\ \A q \in Requests \ {p} : request'[q] = request[q] /\ reply'[q] = reply[q]
<1>1. request[p] \in RequestType
  BY RequestFields
<1>2. request' \in [Requests -> RequestType] /\ request'[p] = IdleRequest
  BY Types, IdleType DEF Respond
<1>3. [status |-> status, kind |-> request[p].kind, word |-> request[p].word,
       version |-> request[p].version, words |-> request[p].read] \in ReplyType
  BY <1>1 DEF ReplyType, RequestType
<1>4. reply' \in [Requests -> ReplyType]
  BY <1>3, Types DEF Respond
<1> QED BY <1>2, <1>4, Types DEF Respond, IdleRequest

(* A made version stays made.                                               *)
LEMMA MadeKept ==
  ASSUME TypeOK, VersionNamesContent, Grows, NEW kind, NEW w, NEW v, Made(kind, w, v)
  PROVE  Made(kind, w, v)'
<1>1. /\ v \in Nat /\ v \in 1..Len(history) /\ v + 1 \in 1..Len(history)
      /\ v \in 1..version /\ version \in Nat
  BY Types DEF VersionNamesContent, Made
<1>2. history'[v] = history[v] /\ history'[v + 1] = history[v + 1]
  BY <1>1 DEF Grows
<1>3. v \in 1..version'
  BY <1>1 DEF Grows
<1> QED BY <1>2, <1>3 DEF Made

LEMMA ReplyKept ==
  ASSUME IInv, Grows, NEW p \in Requests, reply'[p] = reply[p]
  PROVE  ReplyOK(p)'
<1> USE DEF IInv
<1>1. reply[p].version \in Nat
  BY Types DEF ReplyType
<1>2. ASSUME reply[p].status = "ok", reply[p].kind # "list"
      PROVE  Made(reply[p].kind, reply[p].word, reply[p].version)'
  <2>1. Made(reply[p].kind, reply[p].word, reply[p].version)
    BY <1>2 DEF AcknowledgedOnce
  <2> QED BY <2>1, MadeKept
<1>3. ASSUME reply[p].status = "ok", reply[p].kind = "list"
      PROVE  /\ reply[p].version <= version'
             /\ \E v \in 0..reply[p].version : reply[p].words = history'[v + 1]
  <2>1. reply[p].version <= version
    BY <1>3 DEF ListNotTorn
  <2>2. PICK v \in 0..reply[p].version : reply[p].words = history[v + 1]
    BY <1>3 DEF ListNotTorn
  <2>3. v + 1 \in 1..Len(history)
    BY <1>1, <2>1, <2>2, Types DEF VersionNamesContent
  <2>4. history'[v + 1] = history[v + 1]
    BY <2>3 DEF Grows
  <2>5. reply[p].version <= version'
    BY <1>1, <2>1, Types DEF Grows
  <2> QED BY <2>2, <2>4, <2>5
<1> QED BY <1>2, <1>3 DEF ReplyOK, Made

(* What a request relies on survives a step that leaves it alone.           *)
LEMMA OtherKept ==
  ASSUME IInv, Grows, NEW q \in Requests, request'[q] = request[q], Undisturbed(q)
  PROVE  RequestOK(q)'
<1> DEFINE r == request[q]
<1>1. RequestOK(q) /\ request[q] \in RequestType
  BY Zenon, RequestFields DEF IInv
<1>2. /\ r.pc \in {"write", "bump", "commit"} => r.kind # "list" /\ r.word \in Words
      /\ r.pc \in {"bump", "commit"} =>
           /\ wordLock'[r.word] = q
           /\ IF r.kind = "add" THEN r.word \notin words' ELSE r.word \in words'
      /\ r.pc = "commit" => versionLock' = q /\ r.version = version' + 1
  BY <1>1 DEF RequestOK, Undisturbed
<1>3. r.pc \in {"words", "version", "replace"} /\ r.kind # "list"
        => Made(r.kind, r.word, r.version)'
  <2> SUFFICES ASSUME r.pc \in {"words", "version", "replace"}, r.kind # "list"
               PROVE  Made(r.kind, r.word, r.version)'
    OBVIOUS
  <2>1. Made(r.kind, r.word, r.version)
    BY <1>1 DEF RequestOK
  <2>2. /\ r.version \in 1..version' /\ history'[r.version] = history[r.version]
        /\ history'[r.version + 1] = history[r.version + 1]
    BY <2>1, Types DEF IInv, VersionNamesContent, Grows, Made
  <2> QED BY <2>1, <2>2 DEF Made
<1>4. /\ r.pc \in {"version", "replace"} =>
           /\ r.readAt \in 1..Len(history')
           /\ r.read = history'[r.readAt]
           /\ r.kind # "list" => r.readAt > r.version
      /\ r.pc = "replace" => r.kind # "list"
  <2>1. /\ r.pc \in {"version", "replace"} =>
             /\ r.readAt \in 1..Len(history)
             /\ r.read = history[r.readAt]
             /\ r.kind # "list" => r.readAt > r.version
        /\ r.pc = "replace" => r.kind # "list"
    BY <1>1 DEF RequestOK
  <2>2. 1..Len(history) \subseteq 1..Len(history')
    BY Types DEF Grows, IInv, VersionNamesContent
  <2> QED BY <2>1, <2>2 DEF Grows
<1> QED BY <1>2, <1>3, <1>4 DEF RequestOK, Made

LEMMA ActiveKept ==
  ASSUME IInv, Grows, UNCHANGED <<active, activeAt>>
  PROVE  ActiveWasCommitted'
<1>1. activeAt \in Nat \ {0} /\ activeAt <= Len(history) /\ active = history[activeAt]
  BY DEF IInv, TypeOK, ActiveWasCommitted
<1>2. activeAt \in 1..Len(history)
  BY <1>1, Types DEF IInv
<1>3. history'[activeAt] = history[activeAt]
  BY <1>2 DEF Grows
<1>4. activeAt <= Len(history')
  <2>1. Len(history) = version + 1 /\ version \in Nat
    BY Types DEF IInv, VersionNamesContent
  <2>2. Len(history') = version' + 1 /\ version' \in Nat /\ version' >= version
    BY DEF Grows
  <2>3. activeAt \in Nat /\ activeAt <= version + 1
    BY <1>1, <2>1
  <2>4. \A a, b, c \in Nat : a <= b + 1 /\ c >= b => a <= c + 1
    OBVIOUS
  <2>5. activeAt <= version' + 1
    BY Zenon, <2>1, <2>2, <2>3, <2>4
  <2> QED BY Zenon, <2>2, <2>5
<1> QED BY <1>1, <1>3, <1>4 DEF ActiveWasCommitted

(* A step of request p that leaves the others alone.                        *)
LEMMA Combine ==
  ASSUME IInv, NEW p \in Requests, TypeOK', Grows,
         RequestOK(p)', ReplyOK(p)', ActiveWasCommitted',
         \A q \in Requests \ {p} :
           request'[q] = request[q] /\ reply'[q] = reply[q] /\ Undisturbed(q)
  PROVE  IInv'
<1>1. VersionNamesContent'
  BY DEF Grows, VersionNamesContent
<1>2. \A q \in Requests : RequestOK(q)'
  BY OtherKept
<1>3. \A q \in Requests : ReplyOK(q)'
  BY ReplyKept
<1>4. AcknowledgedOnce' /\ ListNotTorn'
  BY <1>3 DEF ReplyOK, AcknowledgedOnce, ListNotTorn
<1> QED BY <1>1, <1>2, <1>4 DEF IInv

-----------------------------------------------------------------------------
(* What the steps do to the database.                                       *)
LEMMA Unchanged ==
  ASSUME IInv, UNCHANGED database
  PROVE  Grows /\ \A q \in Requests : Undisturbed(q)
BY Types DEF IInv, VersionNamesContent, database, Grows, Undisturbed

LEMMA Grown ==
  ASSUME IInv, UNCHANGED <<words, version, history>>
  PROVE  Grows
BY Types DEF IInv, VersionNamesContent, Grows

LEMMA Locked ==
  ASSUME IInv, NEW q \in Requests
  PROVE  /\ request[q].pc \in {"bump", "commit"} =>
              /\ request[q].word \in Keys /\ wordLock[request[q].word] = q
         /\ request[q].pc = "commit" => versionLock = q
         /\ q # Nobody
BY RequestFields, StopListAssumption DEF IInv, RequestOK

LEMMA Taken ==
  ASSUME IInv, NEW p \in Requests, NEW w \in Keys, wordLock[w] = Nobody,
         wordLock' = [wordLock EXCEPT ![w] = p],
         UNCHANGED <<words, version, versionLock, history>>
  PROVE  /\ Grows /\ wordLock' \in [Keys -> Requests \cup {Nobody}] /\ wordLock'[w] = p
         /\ \A q \in Requests \ {p} : Undisturbed(q)
<1>1. wordLock \in [Keys -> Requests \cup {Nobody}]
  BY DEF IInv, TypeOK
<1>2. /\ wordLock' \in [Keys -> Requests \cup {Nobody}] /\ wordLock'[w] = p
      /\ \A k \in Keys \ {w} : wordLock'[k] = wordLock[k]
  BY <1>1
<1> QED BY <1>2, Grown, Locked DEF Undisturbed

LEMMA Released ==
  ASSUME IInv, NEW p \in Requests, Release(p)
  PROVE  /\ wordLock' \in [Keys -> Requests \cup {Nobody}]
         /\ versionLock' \in Requests \cup {Nobody}
         /\ \A q \in Requests \ {p} :
              /\ request[q].pc \in {"bump", "commit"} =>
                   wordLock'[request[q].word] = wordLock[request[q].word]
              /\ request[q].pc = "commit" => versionLock' = versionLock
<1>1. wordLock \in [Keys -> Requests \cup {Nobody}] /\ versionLock \in Requests \cup {Nobody}
  BY DEF IInv, TypeOK
<1>2. /\ wordLock' \in [Keys -> Requests \cup {Nobody}]
      /\ \A k \in Keys : wordLock[k] # p => wordLock'[k] = wordLock[k]
  BY <1>1 DEF Release
<1>3. versionLock' \in Requests \cup {Nobody}
  BY <1>1 DEF Release
<1> QED BY <1>2, <1>3, Locked DEF Release

(* COMMIT: the version row's lock leaves p the only transaction about to    *)
(* commit, and the lock of its word the only one that changes that word.    *)
LEMMA Applied ==
  ASSUME IInv, NEW p \in Requests, request[p].pc = "commit",
         words' = Changed(p), version' = request[p].version,
         history' = Append(history, Changed(p))
  PROVE  /\ Grows /\ words' \subseteq Words /\ history' \in Seq(SUBSET Words)
         /\ \A k, w, v : <<k, w, v>> = <<request[p].kind, request[p].word, request[p].version>>
                          => Made(k, w, v)'
         /\ \A q \in Requests \ {p} :
              /\ request[q].pc = "bump" =>
                   (request[q].word \in words' <=> request[q].word \in words)
              /\ request[q].pc # "commit"
<1> DEFINE r == request[p]
<1>1. /\ r.kind # "list" /\ r.word \in Words /\ wordLock[r.word] = p /\ versionLock = p
      /\ r.version = version + 1
      /\ IF r.kind = "add" THEN r.word \notin words ELSE r.word \in words
  BY DEF IInv, RequestOK
<1>2. /\ version \in Nat /\ Len(history) = version + 1 /\ history[version + 1] = words
      /\ words \subseteq Words /\ history \in Seq(SUBSET Words)
  BY Types DEF IInv, VersionNamesContent
<1>3. words' \subseteq Words
  BY <1>1, <1>2 DEF Changed
<1>4. /\ history' \in Seq(SUBSET Words) /\ Len(history') = Len(history) + 1
      /\ history'[Len(history) + 1] = words'
      /\ \A i \in 1..Len(history) : history'[i] = history[i]
  BY <1>2, <1>3
<1>5. Grows
  BY <1>1, <1>2, <1>4 DEF Grows
<1>6. ASSUME NEW k, NEW w, NEW v, <<k, w, v>> = <<r.kind, r.word, r.version>>
      PROVE  Made(k, w, v)'
  <2>1. /\ r.version \in 1..version' /\ history'[r.version] = words
        /\ history'[r.version + 1] = words'
    BY <1>1, <1>2, <1>4
  <2>2. k = r.kind /\ w = r.word /\ v = r.version
    BY <1>6
  <2> HIDE DEF r
  <2>3. words' = IF k = "add" THEN words \cup {w} ELSE words \ {w}
    BY <2>2 DEF Changed, r
  <2> QED BY <1>1, <2>1, <2>2, <2>3 DEF Made
<1>7. \A q \in Requests \ {p} :
        /\ request[q].pc = "bump" =>
             (request[q].word \in words' <=> request[q].word \in words)
        /\ request[q].pc # "commit"
  <2> SUFFICES ASSUME NEW q \in Requests \ {p}
               PROVE  /\ request[q].pc = "bump" =>
                           (request[q].word \in words' <=> request[q].word \in words)
                      /\ request[q].pc # "commit"
    OBVIOUS
  <2>1. request[q].pc = "bump" => request[q].word # r.word
    BY <1>1, Locked
  <2>2. request[q].pc # "commit"
    BY <1>1, Locked
  <2> QED BY <2>1, <2>2 DEF Changed
<1> QED BY <1>3, <1>4, <1>5, <1>6, <1>7

-----------------------------------------------------------------------------
(* Every variable but the requests and replies keeps its type.              *)
LEMMA TypeFromRequests ==
  ASSUME IInv, up' \in BOOLEAN, words' \subseteq Words, version' \in Nat,
         wordLock' \in [Keys -> Requests \cup {Nobody}],
         versionLock' \in Requests \cup {Nobody},
         request' \in [Requests -> RequestType], reply' \in [Requests -> ReplyType],
         active' \subseteq Words, history' \in Seq(SUBSET Words), activeAt' \in Nat \ {0},
         UNCHANGED faults \/ Error
  PROVE  TypeOK'
<1>1. errors' \in 0..MaxErrors /\ crashes' \in 0..MaxCrashes
  BY StopListAssumption DEF IInv, TypeOK, faults, Error
<1> QED BY <1>1 DEF TypeOK, RequestType, ReplyType, PCs, Statuses

(* A step of p that changes its request and reply and nothing else.         *)
LEMMA RequestOnly ==
  ASSUME IInv, NEW p \in Requests, UNCHANGED <<up, database, active, activeAt>>,
         UNCHANGED faults \/ Error,
         request' \in [Requests -> RequestType], reply' \in [Requests -> ReplyType],
         \A q \in Requests \ {p} : request'[q] = request[q] /\ reply'[q] = reply[q],
         RequestOK(p)', ReplyOK(p)'
  PROVE  IInv'
<1>1. TypeOK'
  <2>1. /\ up' \in BOOLEAN /\ words' \subseteq Words /\ version' \in Nat
        /\ wordLock' \in [Keys -> Requests \cup {Nobody}]
        /\ versionLock' \in Requests \cup {Nobody}
        /\ active' \subseteq Words /\ history' \in Seq(SUBSET Words) /\ activeAt' \in Nat \ {0}
    BY DEF IInv, TypeOK, database
  <2> QED BY <2>1, TypeFromRequests
<1>2. Grows /\ \A q \in Requests : Undisturbed(q)
  BY Unchanged
<1>3. ActiveWasCommitted'
  BY <1>2, ActiveKept
<1> QED BY <1>1, <1>2, <1>3, Combine

(* An answer that acknowledges nothing, with the database as it is.         *)
LEMMA AnsweredOK ==
  ASSUME IInv, NEW p \in Requests, NEW status \in Statuses \ {"ok"}, Respond(p, status)
  PROVE  /\ request' \in [Requests -> RequestType] /\ reply' \in [Requests -> ReplyType]
         /\ \A q \in Requests \ {p} : request'[q] = request[q] /\ reply'[q] = reply[q]
         /\ RequestOK(p)' /\ ReplyOK(p)'
<1>1. /\ request' \in [Requests -> RequestType] /\ reply' \in [Requests -> ReplyType]
      /\ \A q \in Requests \ {p} : request'[q] = request[q] /\ reply'[q] = reply[q]
      /\ request'[p].pc = "idle" /\ reply'[p].status # "ok"
  BY RespondFact DEF IInv
<1> QED BY <1>1 DEF RequestOK, ReplyOK

LEMMA BeginIInv ==
  ASSUME IInv, NEW p \in Requests, NEW kind \in Kinds, NEW w \in Keys, Begin(p, kind, w)
  PROVE  IInv'
<1> DEFINE new == [IdleRequest EXCEPT !.kind = kind, !.word = w,
                     !.pc = IF kind = "list" THEN "words" ELSE "write"]
<1>1. /\ new \in RequestType /\ new.kind = kind /\ new.word = w
      /\ new.pc = IF kind = "list" THEN "words" ELSE "write"
  BY IdleType DEF RequestType, PCs, IdleRequest
<1>2. /\ request' = [request EXCEPT ![p] = new] /\ (kind # "list" => w # NoWord)
      /\ UNCHANGED <<up, database, reply, active, activeAt, faults>>
  BY DEF Begin
<1> HIDE DEF new
<1>3. /\ request' \in [Requests -> RequestType] /\ request'[p] = new
      /\ reply' \in [Requests -> ReplyType]
      /\ \A q \in Requests \ {p} : request'[q] = request[q] /\ reply'[q] = reply[q]
  BY <1>1, <1>2, Types DEF IInv
<1>4. RequestOK(p)'
  BY <1>1, <1>2, <1>3 DEF RequestOK, Keys
<1>5. ReplyOK(p)'
  BY <1>2, ReplyKept, Unchanged
<1> QED BY <1>2, <1>3, <1>4, <1>5, RequestOnly

LEMMA RefuseIInv ==
  ASSUME IInv, NEW p \in Requests, NEW kind \in Kinds, Refuse(p, kind)
  PROVE  IInv'
<1> DEFINE new == [NoReply EXCEPT !.status = "invalid", !.kind = kind]
<1>1. new \in ReplyType /\ new.status = "invalid"
  BY DEF NoReply, ReplyType, Statuses, Keys
<1>2. /\ reply' = [reply EXCEPT ![p] = new]
      /\ UNCHANGED <<up, database, request, active, activeAt, faults>>
  BY DEF Refuse
<1> HIDE DEF new
<1>3. /\ reply' \in [Requests -> ReplyType] /\ reply'[p] = new
      /\ request' \in [Requests -> RequestType]
      /\ \A q \in Requests \ {p} : request'[q] = request[q] /\ reply'[q] = reply[q]
  BY <1>1, <1>2, Types DEF IInv
<1>4. RequestOK(p)'
  BY <1>2, OtherKept, Unchanged
<1>5. ReplyOK(p)'
  BY <1>1, <1>3 DEF ReplyOK
<1> QED BY <1>2, <1>3, <1>4, <1>5, RequestOnly

LEMMA AnswerIInv ==
  ASSUME IInv, NEW p \in Requests, InsertConflicts(p) \/ DeleteMisses(p) \/ ReadFails(p)
  PROVE  IInv'
<1>1. PICK status \in Statuses \ {"ok"} : Respond(p, status)
  BY DEF InsertConflicts, DeleteMisses, ReadFails, Statuses
<1>2. UNCHANGED <<up, database, active, activeAt>> /\ (UNCHANGED faults \/ Error)
  BY DEF InsertConflicts, DeleteMisses, ReadFails
<1> QED BY <1>1, <1>2, AnsweredOK, RequestOnly

LEMMA WriteIInv ==
  ASSUME IInv, NEW p \in Requests, Insert(p) \/ Delete(p)
  PROVE  IInv'
<1>1. request[p] \in RequestType /\ RequestOK(p)
  BY RequestFields DEF IInv
<1>2. /\ request[p].pc = "write" /\ request[p].word \in Keys
      /\ wordLock[request[p].word] = Nobody
      /\ wordLock' = [wordLock EXCEPT ![request[p].word] = p]
      /\ Goto(p, "bump")
      /\ UNCHANGED <<up, words, version, versionLock, history, reply, active, activeAt, faults>>
      /\ IF request[p].kind = "add" THEN request[p].word \notin words
                                    ELSE request[p].word \in words
  BY <1>1 DEF Insert, Delete, RequestType
<1>3. /\ Grows /\ wordLock' \in [Keys -> Requests \cup {Nobody}]
      /\ wordLock'[request[p].word] = p
      /\ \A q \in Requests \ {p} : Undisturbed(q)
  BY <1>2, Taken
<1>4. /\ request' \in [Requests -> RequestType]
      /\ request'[p].pc = "bump"
      /\ request'[p].kind = request[p].kind /\ request'[p].word = request[p].word
      /\ \A q \in Requests \ {p} : request'[q] = request[q]
  BY <1>2, GotoFact DEF IInv, PCs
<1>5. TypeOK'
  <2>1. /\ up' \in BOOLEAN /\ words' \subseteq Words /\ version' \in Nat
        /\ versionLock' \in Requests \cup {Nobody} /\ reply' \in [Requests -> ReplyType]
        /\ active' \subseteq Words /\ history' \in Seq(SUBSET Words) /\ activeAt' \in Nat \ {0}
    BY <1>2, Types DEF IInv, TypeOK
  <2> QED BY <1>2, <1>3, <1>4, <2>1, TypeFromRequests
<1>6. RequestOK(p)'
  BY <1>1, <1>2, <1>3, <1>4 DEF RequestOK
<1>7. ReplyOK(p)' /\ ActiveWasCommitted'
  BY <1>2, <1>3, ReplyKept, ActiveKept
<1> QED BY <1>2, <1>3, <1>4, <1>5, <1>6, <1>7, Combine

LEMMA BumpIInv == ASSUME IInv, NEW p \in Requests, BumpVersion(p) PROVE IInv'
<1>1. request[p] \in RequestType /\ RequestOK(p) /\ version \in Nat
  BY RequestFields, Types DEF IInv
<1> DEFINE at == [request[p] EXCEPT !.pc = "commit"]
           new == [at EXCEPT !.version = version + 1]
<1>2. /\ new \in RequestType /\ new.pc = "commit" /\ new.version = version + 1
      /\ new.kind = request[p].kind /\ new.word = request[p].word
  <2>1. at \in RequestType /\ at.pc = "commit" /\ at.kind = request[p].kind
        /\ at.word = request[p].word
    BY <1>1 DEF RequestType, PCs
  <2> HIDE DEF at
  <2> QED BY <1>1, <2>1 DEF RequestType
<1>3. /\ request[p].pc = "bump" /\ versionLock = Nobody /\ versionLock' = p
      /\ request' = [request EXCEPT ![p] = new]
      /\ UNCHANGED <<up, words, version, wordLock, history, reply, active, activeAt, faults>>
  BY DEF BumpVersion
<1> HIDE DEF new
<1>4. /\ request' \in [Requests -> RequestType] /\ request'[p] = new
      /\ \A q \in Requests \ {p} : request'[q] = request[q] /\ reply'[q] = reply[q]
  BY <1>2, <1>3, Types DEF IInv
<1>5. Grows /\ \A q \in Requests \ {p} : Undisturbed(q)
  BY <1>3, Grown, Locked DEF Undisturbed
<1>6. TypeOK'
  <2>1. /\ up' \in BOOLEAN /\ words' \subseteq Words /\ version' \in Nat
        /\ wordLock' \in [Keys -> Requests \cup {Nobody}]
        /\ versionLock' \in Requests \cup {Nobody} /\ reply' \in [Requests -> ReplyType]
        /\ active' \subseteq Words /\ history' \in Seq(SUBSET Words) /\ activeAt' \in Nat \ {0}
    BY <1>3, Types DEF IInv, TypeOK
  <2> QED BY <1>3, <1>4, <2>1, TypeFromRequests
<1>7. RequestOK(p)'
  BY <1>1, <1>2, <1>3, <1>4 DEF RequestOK
<1>8. ReplyOK(p)' /\ ActiveWasCommitted'
  BY <1>3, <1>5, ReplyKept, ActiveKept
<1> QED BY <1>4, <1>5, <1>6, <1>7, <1>8, Combine

(* COMMIT takes effect, and the request goes on, is answered or dies.       *)
LEMMA AppliedIInv ==
  ASSUME IInv, NEW p \in Requests, request[p].pc = "commit", Apply(p),
         UNCHANGED <<up, active, activeAt>>, UNCHANGED faults \/ Error,
         request' \in [Requests -> RequestType], reply' \in [Requests -> ReplyType],
         \A q \in Requests \ {p} : request'[q] = request[q] /\ reply'[q] = reply[q],
         RequestOK(p)', Grows => ReplyOK(p)'
  PROVE  IInv'
<1>1. /\ words' = Changed(p) /\ version' = request[p].version
      /\ history' = Append(history, Changed(p)) /\ Release(p)
  BY DEF Apply
<1>2. /\ Grows /\ words' \subseteq Words /\ history' \in Seq(SUBSET Words)
      /\ \A q \in Requests \ {p} :
           /\ request[q].pc = "bump" =>
                (request[q].word \in words' <=> request[q].word \in words)
           /\ request[q].pc # "commit"
  BY <1>1, Applied
<1>3. /\ wordLock' \in [Keys -> Requests \cup {Nobody}]
      /\ versionLock' \in Requests \cup {Nobody}
      /\ \A q \in Requests \ {p} : request[q].pc \in {"bump", "commit"} =>
           wordLock'[request[q].word] = wordLock[request[q].word]
  BY <1>1, Released
<1>4. \A q \in Requests \ {p} : Undisturbed(q)
  BY <1>2, <1>3 DEF Undisturbed
<1>5. TypeOK'
  <2>1. /\ up' \in BOOLEAN /\ active' \subseteq Words /\ activeAt' \in Nat \ {0}
        /\ version' \in Nat
    BY <1>2 DEF IInv, TypeOK, Grows
  <2> QED BY <1>2, <1>3, <2>1, TypeFromRequests
<1>6. ActiveWasCommitted'
  BY <1>2, ActiveKept
<1> QED BY <1>2, <1>4, <1>5, <1>6, Combine

LEMMA CommitIInv == ASSUME IInv, NEW p \in Requests, Commit(p) PROVE IInv'
<1>1. /\ request[p].pc = "commit" /\ Apply(p) /\ Goto(p, "words")
      /\ UNCHANGED <<up, reply, active, activeAt, faults>>
  BY DEF Commit
<1>2. /\ request' \in [Requests -> RequestType] /\ request'[p].pc = "words"
      /\ request'[p].kind = request[p].kind /\ request'[p].word = request[p].word
      /\ request'[p].version = request[p].version
      /\ \A q \in Requests \ {p} : request'[q] = request[q]
  BY <1>1, GotoFact DEF IInv, PCs
<1>3. \A k, w, v : <<k, w, v>> = <<request[p].kind, request[p].word, request[p].version>>
                     => Made(k, w, v)'
  BY <1>1, Applied DEF Apply
<1>4. Made(request[p].kind, request[p].word, request[p].version)'
  BY <1>2, <1>3 DEF Made
<1>5. RequestOK(p)'
  BY <1>2, <1>4 DEF RequestOK
<1>6. Grows => ReplyOK(p)'
  BY <1>1, ReplyKept
<1> QED BY <1>1, <1>2, <1>5, <1>6, AppliedIInv, Types DEF IInv

(* The transaction is rolled back and the client is told nothing was done.  *)
LEMMA RolledBackIInv ==
  ASSUME IInv, NEW p \in Requests, Release(p), Error, Respond(p, "unavailable"),
         UNCHANGED <<up, words, version, history, active, activeAt>>
  PROVE  IInv'
<1>1. /\ request' \in [Requests -> RequestType] /\ reply' \in [Requests -> ReplyType]
      /\ \A q \in Requests \ {p} : request'[q] = request[q] /\ reply'[q] = reply[q]
      /\ RequestOK(p)' /\ ReplyOK(p)'
  BY AnsweredOK DEF Statuses
<1>2. /\ wordLock' \in [Keys -> Requests \cup {Nobody}]
      /\ versionLock' \in Requests \cup {Nobody}
      /\ \A q \in Requests \ {p} : Undisturbed(q)
  BY Released DEF Undisturbed
<1>3. Grows /\ ActiveWasCommitted'
  BY Grown, ActiveKept
<1>4. TypeOK'
  <2>1. /\ up' \in BOOLEAN /\ words' \subseteq Words /\ version' \in Nat
        /\ active' \subseteq Words /\ history' \in Seq(SUBSET Words) /\ activeAt' \in Nat \ {0}
    BY DEF IInv, TypeOK
  <2> QED BY <1>1, <1>2, <2>1, TypeFromRequests
<1> QED BY <1>1, <1>2, <1>3, <1>4, Combine

LEMMA FailsIInv ==
  ASSUME IInv, NEW p \in Requests, CommitFails(p) \/ WriteFails(p)
  PROVE  IInv'
<1>1. CASE Apply(p) /\ CommitFails(p)
  <2>1. /\ request' \in [Requests -> RequestType] /\ reply' \in [Requests -> ReplyType]
        /\ \A q \in Requests \ {p} : request'[q] = request[q] /\ reply'[q] = reply[q]
        /\ RequestOK(p)' /\ ReplyOK(p)'
    BY <1>1, AnsweredOK DEF CommitFails, Statuses
  <2> QED BY <1>1, <2>1, AppliedIInv DEF CommitFails
<1>2. CASE ~Apply(p) /\ CommitFails(p)
  BY <1>2, RolledBackIInv DEF CommitFails
<1>3. CASE WriteFails(p)
  BY <1>3, RolledBackIInv DEF WriteFails
<1> QED BY <1>1, <1>2, <1>3

LEMMA ReadWordsIInv == ASSUME IInv, NEW p \in Requests, ReadWords(p) PROVE IInv'
<1>1. request[p] \in RequestType /\ RequestOK(p) /\ words \subseteq Words
  BY RequestFields, Types DEF IInv
<1>2. /\ version \in Nat /\ Len(history) = version + 1 /\ history[Len(history)] = words
      /\ Len(history) \in Nat \ {0} /\ Len(history) \in 1..Len(history)
  BY Types DEF IInv, VersionNamesContent
<1> DEFINE at == [request[p] EXCEPT !.pc = "version"]
           held == [at EXCEPT !.read = words]
           new == [held EXCEPT !.readAt = Len(history)]
<1>3. /\ new \in RequestType /\ new.pc = "version" /\ new.read = words
      /\ new.readAt = Len(history) /\ new.kind = request[p].kind
      /\ new.word = request[p].word /\ new.version = request[p].version
  <2>1. /\ at \in RequestType /\ at.pc = "version" /\ at.kind = request[p].kind
        /\ at.word = request[p].word /\ at.version = request[p].version
    BY <1>1 DEF RequestType, PCs
  <2> HIDE DEF at
  <2>2. /\ held \in RequestType /\ held.pc = "version" /\ held.kind = request[p].kind
        /\ held.word = request[p].word /\ held.version = request[p].version
        /\ held.read = words
    BY <1>1, <2>1 DEF RequestType
  <2> HIDE DEF held
  <2> QED BY <1>2, <2>2 DEF RequestType
<1>4. /\ request[p].pc = "words" /\ request' = [request EXCEPT ![p] = new]
      /\ UNCHANGED <<up, database, reply, active, activeAt, faults>>
  BY DEF ReadWords
<1> HIDE DEF new
<1>5. /\ request' \in [Requests -> RequestType] /\ request'[p] = new
      /\ reply' \in [Requests -> ReplyType]
      /\ \A q \in Requests \ {p} : request'[q] = request[q] /\ reply'[q] = reply[q]
  BY <1>3, <1>4, Types DEF IInv
<1>6. RequestOK(p)'
  <2>1. /\ words' = words /\ history' = history /\ version' = version
    BY <1>4 DEF database
  <2>2. new.kind # "list" => Made(new.kind, new.word, new.version)
    BY <1>1, <1>3, <1>4 DEF RequestOK
  <2>3. new.kind # "list" => new.readAt > new.version
    BY <1>2, <1>3, <2>2 DEF Made
  <2>4. new.kind # "list" => Made(request[p].kind, request[p].word, request[p].version)'
    BY <1>5, <2>1, <2>2 DEF Made
  <2> QED BY <1>2, <1>3, <1>5, <2>1, <2>3, <2>4 DEF RequestOK
<1>7. ReplyOK(p)'
  BY <1>4, ReplyKept, Unchanged
<1> QED BY <1>4, <1>5, <1>6, <1>7, RequestOnly

LEMMA ReadVersionIInv == ASSUME IInv, NEW p \in Requests, ReadVersion(p) PROVE IInv'
<1>1. request[p] \in RequestType /\ RequestOK(p) /\ request[p].pc = "version"
  BY RequestFields DEF IInv, ReadVersion
<1>2. UNCHANGED <<up, database, active, activeAt, faults>>
  BY DEF ReadVersion
<1>3. CASE request[p].kind = "list"
  <2> DEFINE new == [status |-> "ok", kind |-> "list", word |-> request[p].word,
                     version |-> version, words |-> request[p].read]
  <2>1. /\ new \in ReplyType /\ new.kind = "list" /\ new.version = version
        /\ new.words = request[p].read
    BY <1>1, Types DEF IInv, RequestType, ReplyType, Statuses, Kinds
  <2>2. reply' = [reply EXCEPT ![p] = new] /\ request' = [request EXCEPT ![p] = IdleRequest]
    BY <1>3 DEF ReadVersion
  <2> HIDE DEF new
  <2>3. /\ request' \in [Requests -> RequestType] /\ reply' \in [Requests -> ReplyType]
        /\ request'[p].pc = "idle" /\ reply'[p] = new
        /\ \A q \in Requests \ {p} : request'[q] = request[q] /\ reply'[q] = reply[q]
    BY <2>1, <2>2, Types, IdleType DEF IInv, IdleRequest
  <2>4. ReplyOK(p)'
    <3>1. /\ request[p].readAt \in 1..Len(history)
          /\ request[p].read = history[request[p].readAt]
      BY <1>1 DEF RequestOK
    <3>2. version \in Nat /\ Len(history) = version + 1
      BY Types DEF IInv, VersionNamesContent
    <3>3. version' = version /\ history' = history
      BY <1>2 DEF database
    <3>4. \E v \in 0..version : request[p].read = history[v + 1]
      <4>1. request[p].readAt - 1 \in 0..version
            /\ history[(request[p].readAt - 1) + 1] = request[p].read
        BY <3>1, <3>2
      <4> QED BY Zenon, <4>1
    <3> QED BY <2>1, <2>3, <3>2, <3>3, <3>4 DEF ReplyOK
  <2>5. RequestOK(p)'
    BY <2>3 DEF RequestOK
  <2> QED BY <1>2, <2>3, <2>4, <2>5, RequestOnly
<1>4. CASE request[p].kind # "list"
  <2>1. Goto(p, "replace") /\ UNCHANGED reply
    BY <1>4 DEF ReadVersion
  <2>2. /\ request' \in [Requests -> RequestType] /\ request'[p].pc = "replace"
        /\ request'[p].kind = request[p].kind /\ request'[p].word = request[p].word
        /\ request'[p].version = request[p].version
        /\ request'[p].read = request[p].read /\ request'[p].readAt = request[p].readAt
        /\ \A q \in Requests \ {p} : request'[q] = request[q]
    BY <2>1, GotoFact DEF IInv, PCs
  <2>3. version' = version /\ history' = history
    BY <1>2 DEF database
  <2>4. RequestOK(p)'
    BY <1>1, <1>4, <2>2, <2>3 DEF RequestOK, Made
  <2>5. ReplyOK(p)'
    BY <1>2, <2>1, ReplyKept, Unchanged
  <2> QED BY <1>2, <2>1, <2>2, <2>4, <2>5, RequestOnly, Types DEF IInv
<1> QED BY <1>3, <1>4

LEMMA ReplaceIInv == ASSUME IInv, NEW p \in Requests, Replace(p) PROVE IInv'
<1>1. request[p] \in RequestType /\ RequestOK(p)
  BY RequestFields DEF IInv
<1>2. /\ request[p].pc = "replace" /\ active' = request[p].read
      /\ activeAt' = request[p].readAt /\ Respond(p, "ok")
      /\ UNCHANGED <<up, database, faults>>
  BY DEF Replace
<1>3. /\ request' \in [Requests -> RequestType] /\ request'[p].pc = "idle"
      /\ reply' \in [Requests -> ReplyType]
      /\ reply'[p].kind = request[p].kind
      /\ reply'[p].word = request[p].word /\ reply'[p].version = request[p].version
      /\ \A q \in Requests \ {p} : request'[q] = request[q] /\ reply'[q] = reply[q]
  BY <1>2, RespondFact DEF IInv, Statuses
<1>4. /\ words' = words /\ version' = version /\ history' = history
      /\ wordLock' = wordLock /\ versionLock' = versionLock
  BY <1>2 DEF database
<1>5. Grows /\ \A q \in Requests : Undisturbed(q)
  BY <1>2, Unchanged
<1>6. /\ request[p].readAt \in 1..Len(history) /\ request[p].read = history[request[p].readAt]
      /\ request[p].kind # "list" /\ Made(request[p].kind, request[p].word, request[p].version)
  BY <1>1, <1>2 DEF RequestOK
<1>7. ActiveWasCommitted'
  BY <1>2, <1>4, <1>6, Types DEF IInv, ActiveWasCommitted
<1>8. ReplyOK(p)'
  BY <1>3, <1>4, <1>6 DEF ReplyOK, Made
<1>9. RequestOK(p)'
  BY <1>3 DEF RequestOK
<1>10. TypeOK'
  <2>1. /\ up' \in BOOLEAN /\ words' \subseteq Words /\ version' \in Nat
        /\ wordLock' \in [Keys -> Requests \cup {Nobody}]
        /\ versionLock' \in Requests \cup {Nobody} /\ history' \in Seq(SUBSET Words)
    BY <1>2, <1>4 DEF IInv, TypeOK
  <2>2. active' \subseteq Words /\ activeAt' \in Nat \ {0}
    BY <1>1, <1>2 DEF RequestType
  <2> QED BY <1>2, <1>3, <2>1, <2>2, TypeFromRequests
<1> QED BY <1>3, <1>5, <1>7, <1>8, <1>9, <1>10, Combine

(* No request survives a crash; the replies do.                             *)
LEMMA CrashIInv == ASSUME IInv, Crash PROVE IInv'
<1>1. /\ crashes < MaxCrashes /\ crashes' = crashes + 1 /\ up' = FALSE
      /\ request' = [p \in Requests |-> IdleRequest]
      /\ wordLock' = [w \in Keys |-> Nobody] /\ versionLock' = Nobody
      /\ UNCHANGED <<reply, active, activeAt, errors>>
  BY DEF Crash
<1>2. Grows /\ words' \subseteq Words /\ history' \in Seq(SUBSET Words)
  <2>1. CASE UNCHANGED <<words, version, history>>
    BY <2>1, Grown, Types DEF IInv
  <2>2. CASE \E p \in Requests : /\ request[p].pc = "commit"
                                 /\ words' = Changed(p)
                                 /\ version' = request[p].version
                                 /\ history' = Append(history, Changed(p))
    BY <2>2, Applied
  <2> QED BY <2>1, <2>2 DEF Crash
<1>3. /\ request' \in [Requests -> RequestType]
      /\ \A q \in Requests : request'[q].pc = "idle"
  BY <1>1, IdleType DEF IdleRequest
<1>4. TypeOK'
  <2>1. errors' \in 0..MaxErrors /\ crashes' \in 0..MaxCrashes
    BY <1>1, StopListAssumption DEF IInv, TypeOK
  <2>2. /\ reply' \in [Requests -> ReplyType] /\ active' \subseteq Words
        /\ activeAt' \in Nat \ {0} /\ version' \in Nat
    BY <1>1, <1>2, Types DEF IInv, TypeOK, Grows
  <2> QED BY <1>1, <1>2, <1>3, <2>1, <2>2
          DEF TypeOK, RequestType, ReplyType, PCs, Statuses
<1>5. \A q \in Requests : ReplyOK(q)' /\ RequestOK(q)'
  BY <1>1, <1>2, <1>3, ReplyKept DEF RequestOK
<1>6. AcknowledgedOnce' /\ ListNotTorn'
  BY <1>5 DEF ReplyOK, AcknowledgedOnce, ListNotTorn
<1>7. ActiveWasCommitted' /\ VersionNamesContent'
  BY <1>1, <1>2, ActiveKept DEF Grows, VersionNamesContent
<1> QED BY <1>4, <1>5, <1>6, <1>7 DEF IInv

LEMMA BootIInv == ASSUME IInv, Boot PROVE IInv'
<1>1. /\ up' = TRUE /\ active' = words /\ activeAt' = Len(history)
      /\ UNCHANGED <<database, request, reply, faults>>
  BY DEF Boot
<1>2. /\ version \in Nat /\ Len(history) = version + 1 /\ history[Len(history)] = words
      /\ words \subseteq Words
  BY Types DEF IInv, VersionNamesContent
<1>3. TypeOK'
  <2>1. /\ words' \subseteq Words /\ version' \in Nat
        /\ wordLock' \in [Keys -> Requests \cup {Nobody}]
        /\ versionLock' \in Requests \cup {Nobody} /\ history' \in Seq(SUBSET Words)
        /\ request' \in [Requests -> RequestType] /\ reply' \in [Requests -> ReplyType]
    BY <1>1, Types DEF IInv, TypeOK, database
  <2>2. active' \subseteq Words /\ activeAt' \in Nat \ {0}
    BY <1>1, <1>2
  <2> QED BY <1>1, <2>1, <2>2, TypeFromRequests
<1>4. Grows /\ \A q \in Requests : Undisturbed(q)
  BY <1>1, Unchanged
<1>5. \A q \in Requests : ReplyOK(q)' /\ RequestOK(q)'
  BY <1>1, <1>4, ReplyKept, OtherKept
<1>6. AcknowledgedOnce' /\ ListNotTorn'
  BY <1>5 DEF ReplyOK, AcknowledgedOnce, ListNotTorn
<1>7. ActiveWasCommitted' /\ VersionNamesContent'
  BY <1>1, <1>2, <1>4 DEF Grows, VersionNamesContent, ActiveWasCommitted, database
<1> QED BY <1>3, <1>5, <1>6, <1>7 DEF IInv

LEMMA StutterIInv == ASSUME IInv, UNCHANGED vars PROVE IInv'
BY DEF IInv, vars, database, faults, TypeOK, VersionNamesContent, AcknowledgedOnce, ListNotTorn,
  ActiveWasCommitted, RequestOK, Made

LEMMA NextIInv == ASSUME IInv, [Next]_vars PROVE IInv'
<1>1. CASE \E p \in Requests : \/ \E kind \in Kinds, w \in Keys : Begin(p, kind, w)
                               \/ \E kind \in Kinds : Refuse(p, kind)
                               \/ Step(p)
                               \/ CommitFails(p) \/ WriteFails(p) \/ ReadFails(p)
  <2>1. PICK p \in Requests : \/ \E kind \in Kinds, w \in Keys : Begin(p, kind, w)
                              \/ \E kind \in Kinds : Refuse(p, kind)
                              \/ Step(p)
                              \/ CommitFails(p) \/ WriteFails(p) \/ ReadFails(p)
    BY <1>1
  <2>2. CASE Step(p)
    BY <2>2, AnswerIInv, WriteIInv, BumpIInv, CommitIInv, ReadWordsIInv, ReadVersionIInv,
      ReplaceIInv DEF Step
  <2> QED BY <2>1, <2>2, BeginIInv, RefuseIInv, FailsIInv, AnswerIInv
<1>2. CASE Crash \/ Boot \/ UNCHANGED vars
  BY <1>2, CrashIInv, BootIInv, StutterIInv
<1>3. CASE Next
  BY Zenon, <1>1, <1>2, <1>3 DEF Next
<1> QED BY <1>2, <1>3

LEMMA InitIInv == ASSUME Init PROVE IInv
<1>1. TypeOK
  BY StopListAssumption DEF Init, TypeOK, IdleRequest, NoReply, Kinds, Keys
<1>2. VersionNamesContent /\ ActiveWasCommitted
  BY DEF Init, VersionNamesContent, ActiveWasCommitted
<1>3. AcknowledgedOnce /\ ListNotTorn
  BY DEF Init, AcknowledgedOnce, ListNotTorn, NoReply
<1>4. \A p \in Requests : RequestOK(p)
  BY DEF Init, RequestOK, IdleRequest
<1> QED BY <1>1, <1>2, <1>3, <1>4 DEF IInv

-----------------------------------------------------------------------------
(* The inductive invariant holds in every reachable state.                  *)
THEOREM Invariance == Spec => []IInv
<1>1. IInv /\ [Next]_vars => IInv'
  BY NextIInv
<1> QED BY InitIInv, <1>1, PTL DEF Spec

(* Every variable has its type: no empty word is ever stored or filtered.   *)
THEOREM TypeCorrect == Spec => []TypeOK
<1>1. IInv => TypeOK
  BY DEF IInv
<1> QED BY <1>1, Invariance, PTL

(* However transactions interleave, fail or die, the version row counts the *)
(* contents and the committed words are the one it names.                   *)
THEOREM VersionNames == Spec => []VersionNamesContent
<1>1. IInv => VersionNamesContent
  BY DEF IInv
<1> QED BY <1>1, Invariance, PTL

(* An acknowledged change is the one change that made its version.          *)
THEOREM ChangesOnce == Spec => []AcknowledgedOnce
<1>1. IInv => AcknowledgedOnce
  BY DEF IInv
<1> QED BY <1>1, Invariance, PTL

(* An answer of GET shows one committed content, and a version not behind   *)
(* it, although the two queries see different moments.                      *)
THEOREM ListIsWhole == Spec => []ListNotTorn
<1>1. IInv => ListNotTorn
  BY DEF IInv
<1> QED BY <1>1, Invariance, PTL

(* The normalizer filters with a content that was committed.                *)
THEOREM ActiveIsWhole == Spec => []ActiveWasCommitted
<1>1. IInv => ActiveWasCommitted
  BY DEF IInv
<1> QED BY <1>1, Invariance, PTL

(* Only Replace ends a request that is about to replace the words of the    *)
(* normalizer, and what it read has its own change.                         *)
THEOREM SyncedFirst == Spec => AcknowledgedIsActive
<1> DEFINE A == \A p \in Requests :
                  (request[p].pc = "replace" /\ request'[p].pc = "idle" /\ up')
                    => activeAt' >= request[p].version + 1
<1>1. IInv /\ [Next]_vars => [A]_vars
  <2> SUFFICES ASSUME IInv, Next, NEW p \in Requests,
                      request[p].pc = "replace", request'[p].pc = "idle", up'
               PROVE  activeAt' >= request[p].version + 1
    OBVIOUS
  <2>1. /\ request[p].readAt \in Nat /\ request[p].version \in Nat
        /\ request[p].readAt > request[p].version
    BY RequestFields DEF IInv, RequestOK
  <2>2. ~Crash /\ ~Boot
    BY DEF Crash, Boot
  <2>3. PICK q \in Requests : \/ \E kind \in Kinds, w \in Keys : Begin(q, kind, w)
                              \/ \E kind \in Kinds : Refuse(q, kind)
                              \/ Step(q)
                              \/ CommitFails(q) \/ WriteFails(q) \/ ReadFails(q)
    BY Zenon, <2>2 DEF Next
  <2>4. q = p
    <3>1. q # p => request'[p] = request[p]
      BY <2>3, Types DEF IInv, Step, Begin, Refuse, InsertConflicts, Insert, DeleteMisses, Delete,
        BumpVersion, Commit, CommitFails, WriteFails, ReadWords, ReadVersion, ReadFails, Replace,
        Goto, Respond
    <3> QED BY <3>1
  <2>5. Replace(p)
    BY <2>3, <2>4 DEF Step, Begin, Refuse, InsertConflicts, Insert, DeleteMisses, Delete,
      BumpVersion, Commit, CommitFails, WriteFails, ReadWords, ReadVersion, ReadFails
  <2>6. activeAt' = request[p].readAt
    BY <2>5 DEF Replace
  <2> QED BY <2>1, <2>6
<1> QED BY <1>1, Invariance, PTL DEF Spec, AcknowledgedIsActive

-----------------------------------------------------------------------------
(* One request at a time.                                                   *)
OneAtATime == \A p, q \in Requests : p = q

(* What a step of request p does to its own state, to the committed words   *)
(* and to the normalizer.                                                   *)
Same == words' = words /\ active' = active
Begins(p) ==
  /\ up /\ request[p].pc = "idle" /\ Same
  /\ request'[p].pc = IF request'[p].kind = "list" THEN "words" ELSE "write"
Ends(p) ==
  /\ request[p].pc \notin {"idle", "replace"} /\ Same
  /\ request'[p].pc = "idle" /\ request'[p].kind = "list"
  /\ MaxErrors > 0 \/ request[p].pc = "write" \/ request[p].kind = "list"
Goes(p) ==
  /\ request'[p].kind = request[p].kind /\ request'[p].word = request[p].word /\ Same
  /\ \/ request[p].pc \in {"write", "bump"} /\ request'[p].pc \in {"bump", "commit"}
     \/ /\ request[p].pc = "words" /\ request'[p].pc = "version"
        /\ request'[p].read = words
     \/ /\ request[p].pc = "version" /\ request'[p].pc = "replace"
        /\ request[p].kind # "list" /\ request'[p].read = request[p].read
Commits(p) ==
  /\ request[p].pc = "commit" /\ words' = Changed(p) /\ active' = active
  /\ \/ /\ request'[p].pc = "words"
        /\ request'[p].kind = request[p].kind /\ request'[p].word = request[p].word
     \/ request'[p].pc = "idle" /\ request'[p].kind = "list" /\ MaxErrors > 0
Replaces(p) ==
  /\ request[p].pc = "replace" /\ request'[p].pc = "idle" /\ request'[p].kind = "list"
  /\ words' = words /\ active' = request[p].read

Moves(p) == /\ up' = up
            /\ \/ Begins(p) \/ Ends(p) \/ Goes(p) \/ Commits(p) \/ Replaces(p)
               \/ request'[p] = request[p] /\ Same

LEMMA ErrorAllowed == ASSUME IInv, Error PROVE MaxErrors > 0
BY StopListAssumption DEF IInv, TypeOK, Error

LEMMA Responds ==
  ASSUME IInv, NEW p \in Requests, NEW status \in Statuses, Respond(p, status)
  PROVE  request'[p].pc = "idle" /\ request'[p].kind = "list"
BY RespondFact DEF IInv, IdleRequest

(* A step of one request, without a crash.                                  *)
LEMMA StepMoves ==
  ASSUME IInv, NEW p \in Requests,
         \/ \E kind \in Kinds, w \in Keys : Begin(p, kind, w)
         \/ \E kind \in Kinds : Refuse(p, kind)
         \/ Step(p)
         \/ CommitFails(p) \/ WriteFails(p) \/ ReadFails(p)
  PROVE  Moves(p)
<1>0. /\ {"ok", "conflict", "notfound", "unavailable"} \subseteq Statuses
      /\ {"bump", "commit", "words", "replace"} \subseteq PCs
  BY DEF Statuses, PCs
<1>1. ASSUME NEW kind \in Kinds, NEW w \in Keys, Begin(p, kind, w) PROVE Moves(p)
  <2> DEFINE new == [IdleRequest EXCEPT !.kind = kind, !.word = w,
                       !.pc = IF kind = "list" THEN "words" ELSE "write"]
  <2>1. new.kind = kind /\ new.pc = IF kind = "list" THEN "words" ELSE "write"
    BY DEF IdleRequest
  <2>2. request' = [request EXCEPT ![p] = new] /\ request[p].pc = "idle"
        /\ UNCHANGED <<up, database, active>>
    BY <1>1 DEF Begin
  <2>4. up
    BY <1>1 DEF Begin
  <2> HIDE DEF new
  <2>3. request'[p] = new
    BY <2>2, Types DEF IInv
  <2> QED BY <2>1, <2>2, <2>3, <2>4 DEF Moves, Begins, Same, database
<1>2. ASSUME NEW kind \in Kinds, Refuse(p, kind) PROVE Moves(p)
  BY <1>2 DEF Refuse, Moves, Same, database
<1>3. ASSUME InsertConflicts(p) \/ DeleteMisses(p) PROVE Moves(p)
  <2>1. \E status \in Statuses : Respond(p, status)
    BY <1>0, <1>3 DEF InsertConflicts, DeleteMisses
  <2> QED BY <1>3, <2>1, Responds
          DEF InsertConflicts, DeleteMisses, Moves, Ends, Same, database
<1>4. ASSUME Insert(p) \/ Delete(p) PROVE Moves(p)
  <2>1. Goto(p, "bump") /\ request[p].pc = "write" /\ UNCHANGED <<up, words, active>>
    BY <1>4 DEF Insert, Delete
  <2> QED BY <1>0, <2>1, GotoFact DEF IInv, Moves, Goes, Same
<1>5. ASSUME BumpVersion(p) PROVE Moves(p)
  <2> DEFINE at == [request[p] EXCEPT !.pc = "commit"]
             new == [at EXCEPT !.version = version + 1]
  <2>1. new.pc = "commit" /\ new.kind = request[p].kind /\ new.word = request[p].word
    <3>1. at \in RequestType /\ at.pc = "commit" /\ at.kind = request[p].kind
          /\ at.word = request[p].word
      BY <1>0, RequestFields DEF IInv, RequestType
    <3> HIDE DEF at
    <3> QED BY <3>1 DEF RequestType
  <2>2. request' = [request EXCEPT ![p] = new] /\ request[p].pc = "bump"
        /\ UNCHANGED <<up, words, active>>
    BY <1>5 DEF BumpVersion
  <2> HIDE DEF new
  <2>3. request'[p] = new
    BY <2>2, Types DEF IInv
  <2> QED BY <2>1, <2>2, <2>3 DEF Moves, Goes, Same
<1>6. ASSUME Commit(p) PROVE Moves(p)
  <2>1. Goto(p, "words") /\ request[p].pc = "commit" /\ UNCHANGED <<up, active>>
        /\ words' = Changed(p)
    BY <1>6 DEF Commit, Apply
  <2> QED BY <1>0, <2>1, GotoFact DEF IInv, Moves, Commits
<1>7. ASSUME CommitFails(p) PROVE Moves(p)
  <2>1. /\ Respond(p, "unavailable") /\ request[p].pc = "commit" /\ UNCHANGED <<up, active>>
        /\ words' = Changed(p) \/ words' = words
    BY <1>7 DEF CommitFails, Apply
  <2>2. MaxErrors > 0
    BY <1>7, ErrorAllowed DEF CommitFails
  <2> QED BY <1>0, <2>1, <2>2, Responds DEF Moves, Commits, Ends, Same
<1>8. ASSUME WriteFails(p) \/ ReadFails(p) PROVE Moves(p)
  <2>1. /\ Respond(p, "unavailable") /\ UNCHANGED <<up, words, active>>
        /\ request[p].pc \in {"write", "bump", "words", "version"}
    BY <1>8 DEF WriteFails, ReadFails, database
  <2>2. MaxErrors > 0
    BY <1>8, ErrorAllowed DEF WriteFails, ReadFails
  <2> QED BY <1>0, <2>1, <2>2, Responds DEF Moves, Ends, Same
<1>9. ASSUME ReadWords(p) PROVE Moves(p)
  <2> DEFINE at  == [request[p] EXCEPT !.pc = "version"]
             got == [at EXCEPT !.read = words]
             new == [got EXCEPT !.readAt = Len(history)]
  <2>1. new.pc = "version" /\ new.kind = request[p].kind /\ new.word = request[p].word
        /\ new.read = words
    <3>1. at \in RequestType /\ at.pc = "version" /\ at.kind = request[p].kind
          /\ at.word = request[p].word
      BY RequestFields DEF IInv, RequestType, PCs
    <3> HIDE DEF at
    <3>2. got \in RequestType /\ got.pc = "version" /\ got.kind = request[p].kind
          /\ got.word = request[p].word /\ got.read = words
      BY <3>1, Types DEF IInv, RequestType
    <3> HIDE DEF got
    <3> QED BY <3>2 DEF RequestType
  <2>2. request' = [request EXCEPT ![p] = new] /\ request[p].pc = "words"
        /\ UNCHANGED <<up, words, active>>
    BY <1>9 DEF ReadWords, database
  <2> HIDE DEF new
  <2>3. request'[p] = new
    BY <2>2, Types DEF IInv
  <2> QED BY <2>1, <2>2, <2>3 DEF Moves, Goes, Same
<1>10. ASSUME ReadVersion(p) PROVE Moves(p)
  <2>1. request[p].pc = "version" /\ UNCHANGED <<up, words, active>>
    BY <1>10 DEF ReadVersion, database
  <2>2. CASE request[p].kind = "list"
    <3>1. request'[p] = IdleRequest
      BY <1>10, <2>2, Types DEF ReadVersion, IInv
    <3> QED BY <2>1, <2>2, <3>1 DEF Moves, Ends, Same, IdleRequest
  <2>3. CASE request[p].kind # "list"
    <3>1. Goto(p, "replace")
      BY <1>10, <2>3 DEF ReadVersion
    <3> QED BY <1>0, <2>1, <2>3, <3>1, GotoFact DEF IInv, Moves, Goes, Same
  <2> QED BY <2>2, <2>3
<1>11. ASSUME Replace(p) PROVE Moves(p)
  <2>1. Respond(p, "ok") /\ request[p].pc = "replace" /\ active' = request[p].read
        /\ UNCHANGED <<up, words>>
    BY <1>11 DEF Replace, database
  <2> QED BY <1>0, <2>1, Responds DEF Moves, Replaces
<1> QED BY <1>1, <1>2, <1>3, <1>4, <1>5, <1>6, <1>7, <1>8, <1>9, <1>10, <1>11 DEF Step

(* The kinds of step: one request moves, the process dies or starts.        *)
LEMMA NextMoves ==
  ASSUME IInv, Next
  PROVE  (\E p \in Requests : Moves(p)) \/ Crash \/ Boot
BY StepMoves DEF Next

(* What the one request there is has read is what is committed, and a word  *)
(* it added is committed.                                                   *)
RoundOK ==
  \A p \in Requests :
    /\ request[p].pc \in {"version", "replace"} => request[p].read = words
    /\ request[p].pc \in {"words", "version", "replace"} /\ request[p].kind = "add"
         => request[p].word \in words

LEMMA NextRound ==
  ASSUME OneAtATime, IInv, RoundOK, [Next]_vars
  PROVE  RoundOK'
<1>1. ASSUME NEW p \in Requests, Moves(p) PROVE RoundOK'
  <2>1. /\ request[p].pc = "write" \/ request[p].pc = "commit" => request[p].kind # "list"
        /\ request'[p].pc = "idle" => request'[p].pc \notin {"words", "version", "replace"}
    BY DEF IInv, RequestOK
  <2>2. /\ request'[p].pc \in {"version", "replace"} => request'[p].read = words'
        /\ request'[p].pc \in {"words", "version", "replace"} /\ request'[p].kind = "add"
             => request'[p].word \in words'
    BY <1>1, <2>1 DEF RoundOK, Moves, Begins, Ends, Goes, Commits, Replaces, Same, Changed
  <2>3. \A q \in Requests : q = p
    BY DEF OneAtATime
  <2> QED BY <2>2, <2>3 DEF RoundOK
<1>2. CASE Crash
  BY <1>2 DEF Crash, RoundOK, IdleRequest
<1>3. CASE Boot \/ UNCHANGED vars
  BY <1>3 DEF Boot, vars, database, RoundOK
<1> QED BY <1>1, <1>2, <1>3, NextMoves

(* Between a change and its synchronisation the normalizer may be behind;   *)
(* at any other time it is not.                                             *)
InSync(p) ==
  request[p].pc \in {"idle", "write", "bump", "commit"} \/ request[p].kind = "list"
SyncInv ==
  /\ RoundOK
  /\ (up /\ \A p \in Requests : InSync(p)) => active = words
  /\ ~up => \A p \in Requests : request[p].pc = "idle"

LEMMA InitSync == ASSUME Init PROVE SyncInv
BY DEF Init, SyncInv, RoundOK, IdleRequest

LEMMA NextSync ==
  ASSUME OneAtATime, MaxErrors = 0, IInv, SyncInv, [Next]_vars
  PROVE  SyncInv'
<1>0. RoundOK'
  BY NextRound DEF SyncInv
<1>1. ASSUME NEW p \in Requests, Moves(p) PROVE SyncInv'
  <2>1. \A q \in Requests : q = p
    BY DEF OneAtATime
  <2>2. up' = up
    BY <1>1 DEF Moves
  <2>3. request[p].pc \in PCs /\ (request[p].pc = "replace" => request[p].kind # "list")
    BY RequestFields DEF IInv, RequestOK
  <2>4. ~(MaxErrors > 0)
    OBVIOUS
  <2>5. up /\ InSync(p)' => active' = words'
    <3> SUFFICES ASSUME up, InSync(p)' PROVE active' = words'
      OBVIOUS
    <3>1. InSync(p) => active = words
      BY <2>1 DEF SyncInv
    <3>2. CASE Begins(p)
      BY <3>1, <3>2 DEF Begins, InSync, Same
    <3>3. CASE Ends(p)
      BY <2>4, <3>1, <3>3 DEF Ends, InSync, Same
    <3>4. CASE Goes(p)
      BY <3>1, <3>4 DEF Goes, InSync, Same
    <3>5. CASE Commits(p)
      BY <2>4, <3>5 DEF Commits, InSync, IInv, RequestOK
    <3>6. CASE Replaces(p)
      BY <3>6 DEF Replaces, SyncInv, RoundOK
    <3>7. CASE request'[p] = request[p] /\ Same
      BY <3>1, <3>7 DEF InSync, Same
    <3> QED BY <1>1, <3>2, <3>3, <3>4, <3>5, <3>6, <3>7 DEF Moves
  <2>6. ~up => request'[p].pc = "idle"
    BY <1>1, <2>2 DEF SyncInv, Moves, Begins, Ends, Goes, Commits, Replaces
  <2> QED BY <1>0, <2>1, <2>2, <2>5, <2>6 DEF SyncInv
<1>2. CASE Crash
  BY <1>0, <1>2 DEF Crash, SyncInv, IdleRequest
<1>3. CASE Boot
  BY <1>0, <1>3 DEF Boot, SyncInv, database
<1>4. CASE UNCHANGED vars
  BY <1>0, <1>4 DEF vars, database, SyncInv, InSync
<1> QED BY <1>1, <1>2, <1>3, <1>4, NextMoves

(* With one request at a time and no failing query the normalizer has the   *)
(* words of the database whenever no request is in progress, over crashes.  *)
THEOREM SyncedOneAtATime ==
  ASSUME OneAtATime, MaxErrors = 0
  PROVE  Spec => []SyncedWhenQuiet
<1>1. SyncInv => SyncedWhenQuiet
  BY DEF SyncInv, InSync, SyncedWhenQuiet
<1>2. SyncInv /\ IInv /\ IInv' /\ [Next]_vars => SyncInv'
  BY NextSync
<1> QED BY <1>1, <1>2, InitSync, Invariance, PTL DEF Spec

-----------------------------------------------------------------------------
(* A stop word that is in force.                                            *)

(* Word w is committed, the normalizer has it and will be handed no content *)
(* without it, and nobody is removing it.                                   *)
InForce(w) ==
  /\ w \in words
  /\ up => w \in active
  /\ \A p \in Requests :
       /\ request[p].pc \in {"version", "replace"} => w \in request[p].read
       /\ request[p].kind = "remove" /\ request[p].word = w
            => request[p].pc \notin {"write", "bump", "commit"}

(* A request begins to remove w; it is answered that w was added.           *)
StartsRemoval(w) ==
  \E p \in Requests : /\ request[p].pc = "idle" /\ request'[p].pc = "write"
                      /\ request'[p].kind = "remove" /\ request'[p].word = w
Added(w) ==
  \E p \in Requests : /\ request[p].pc = "replace" /\ request'[p].pc = "idle"
                      /\ request[p].kind = "add" /\ request[p].word = w

(* An added word is in force when its addition is acknowledged.             *)
LEMMA AddedInForce ==
  ASSUME OneAtATime, IInv, RoundOK, Next, up' = up, NEW w, Added(w)
  PROVE  InForce(w)'
<1>1. PICK p \in Requests : /\ request[p].pc = "replace" /\ request'[p].pc = "idle"
                            /\ request[p].kind = "add" /\ request[p].word = w
  BY DEF Added
<1>2. \A q \in Requests : q = p
  BY DEF OneAtATime
<1>3. ~Crash /\ ~Boot
  BY DEF Crash, Boot
<1>4. Moves(p)
  BY <1>2, <1>3, NextMoves
<1>5. words' = words /\ active' = request[p].read
  BY <1>1, <1>4 DEF Moves, Begins, Ends, Goes, Commits, Replaces
<1>6. w \in words /\ request[p].read = words
  BY <1>1 DEF RoundOK
<1> QED BY <1>1, <1>2, <1>5, <1>6 DEF InForce

(* It stays in force until its removal begins, over failures and crashes.   *)
LEMMA StaysInForce ==
  ASSUME OneAtATime, IInv, [Next]_vars, NEW w, InForce(w), ~StartsRemoval(w)
  PROVE  InForce(w)'
<1>1. ASSUME NEW p \in Requests, Moves(p) PROVE InForce(w)'
  <2>1. \A q \in Requests : q = p
    BY DEF OneAtATime
  <2>2. /\ request[p].pc \in PCs /\ request[p].kind \in Kinds
        /\ request[p].pc = "commit" => request[p].kind # "list"
    BY RequestFields DEF IInv, RequestOK
  <2>3. /\ w \in words /\ (up => w \in active)
        /\ request[p].pc \in {"version", "replace"} => w \in request[p].read
        /\ request[p].kind = "remove" /\ request[p].word = w
             => request[p].pc \notin {"write", "bump", "commit"}
    BY DEF InForce
  <2>4. /\ w \in words' /\ (up' => w \in active')
        /\ request'[p].pc \in {"version", "replace"} => w \in request'[p].read
        /\ request'[p].kind = "remove" /\ request'[p].word = w
             => request'[p].pc \notin {"write", "bump", "commit"}
    <3>1. CASE Begins(p)
      BY <1>1, <2>3, <3>1 DEF Begins, Moves, Same, StartsRemoval
    <3>2. CASE Ends(p) \/ Goes(p)
      BY <1>1, <2>3, <3>2 DEF Ends, Goes, Moves, Same
    <3>3. CASE Commits(p)
      BY <1>1, <2>2, <2>3, <3>3 DEF Commits, Moves, Changed, Kinds
    <3>4. CASE Replaces(p)
      BY <1>1, <2>3, <3>4 DEF Replaces, Moves
    <3>5. CASE request'[p] = request[p] /\ Same
      BY <1>1, <2>3, <3>5 DEF Moves, Same
    <3> QED BY <1>1, <3>1, <3>2, <3>3, <3>4, <3>5 DEF Moves
  <2> QED BY <2>1, <2>4 DEF InForce
<1>2. CASE Crash
  <2>1. w \in words'
    <3>1. CASE words' = words
      BY <3>1 DEF InForce
    <3>2. ASSUME NEW p \in Requests, request[p].pc = "commit", words' = Changed(p)
          PROVE  w \in words'
      <4>1. request[p].kind \in {"add", "remove"}
        BY <3>2, RequestFields DEF IInv, RequestOK, Kinds
      <4> QED BY <3>2, <4>1 DEF InForce, Changed
    <3> QED BY <1>2, <3>1, <3>2 DEF Crash
  <2> QED BY <1>2, <2>1 DEF Crash, InForce, IdleRequest
<1>3. CASE Boot
  BY <1>3 DEF Boot, InForce, database
<1>4. CASE UNCHANGED vars
  BY <1>4 DEF vars, database, InForce
<1> QED BY <1>1, <1>2, <1>3, <1>4, NextMoves
=============================================================================
