--------------------------- MODULE SlidingWindow ---------------------------
(* What the ring buffer promises to its callers: the votes of the last W    *)
(* seconds, counted from the newest second that was voted in, and for every *)
(* Snapshot the n best queries of exactly those votes.  There are no slots, *)
(* no running totals, no cache and no lock here; WindowEngine implements    *)
(* this module.                                                             *)
EXTENDS Integers, Sequences, FiniteSets

CONSTANTS Queries,   \* query texts, numbered in string order
          Scores,    \* the weights a vote may carry
          Seconds,   \* the seconds votes may be stamped with
          W,         \* windowSeconds
          Readers,   \* goroutines that call Snapshot
          Sizes      \* the n they ask for

VARIABLES newest,    \* the largest second voted in, 0 before the first vote
          votes,     \* votes[s][q]: weight given to q in second s
          answer     \* answer[r]: the items last returned to reader r

vars == <<newest, votes, answer>>

NoVotes == [q \in Queries |-> 0]

Init == /\ newest = 0
        /\ votes = [s \in Seconds |-> NoVotes]
        /\ answer = [r \in Readers |-> <<>>]

(* The weight of q over all seconds: how many unit votes it has.            *)
Weight(q) == Cardinality(UNION {{s} \X (1..votes[s][q]) : s \in Seconds})

Beats(t, p, q) == t[p] > t[q] \/ (t[p] = t[q] /\ p < q)

(* items is the answer to "the n best queries of the score table t".        *)
IsTop(items, n, t) ==
  LET live   == {q \in Queries : t[q] > 0}
      size   == IF n <= 0 THEN 10 ELSE n
      listed == {items[k].query : k \in DOMAIN items}
  IN  /\ Len(items) = (IF size < Cardinality(live) THEN size ELSE Cardinality(live))
      /\ listed \subseteq live
      /\ \A k \in DOMAIN items : items[k].score = t[items[k].query]
      /\ \A j, k \in DOMAIN items : j < k => Beats(t, items[j].query, items[k].query)
      /\ \A q \in live \ listed, k \in DOMAIN items : Beats(t, items[k].query, q)

(* A vote in second s moves the window when s is newer than all before it,  *)
(* and what the window leaves behind is forgotten.                          *)
Vote(q, score, s) ==
  LET last == IF s > newest THEN s ELSE newest
  IN  /\ s > newest - W
      /\ newest' = last
      /\ votes' = [t \in Seconds |->
                     IF t <= last - W THEN NoVotes
                     ELSE IF t = s THEN [votes[t] EXCEPT ![q] = @ + score]
                     ELSE votes[t]]
      /\ UNCHANGED answer

Answer(r, n) ==
  /\ IsTop(answer'[r], n, [q \in Queries |-> Weight(q)])
  /\ answer' = [answer EXCEPT ![r] = answer'[r]]
  /\ UNCHANGED <<newest, votes>>

Next == \/ \E q \in Queries, score \in Scores, s \in Seconds : Vote(q, score, s)
        \/ \E r \in Readers, n \in Sizes : Answer(r, n)

Spec == Init /\ [][Next]_vars
=============================================================================
