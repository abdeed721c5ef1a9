-------------------------- MODULE AntiFraudPolicy --------------------------
(* The policy the anti-fraud evaluator promises, as a function of the log   *)
(* of everything it was asked before: no maps, no counters, nothing that is *)
(* cleaned up.  AntiFraud implements this module.                           *)
EXTENDS Integers, Sequences, FiniteSets

CONSTANTS Events, NoId, Minute, MaxRequests, IPBlock, ContributionWindow,
          MaxUnique, EntropyWindow, SessionBlock

VARIABLES clock,  \* the wall clock
          log     \* every evaluated event, with its time and verdict

vars == <<clock, log>>

Init == log = <<>>

Ids(e) == {<<"ip", e.ip>>, <<"session", e.session>>}
            \cup (IF e.user = NoId THEN {} ELSE {<<"user", e.user>>})

(* The positions of the log with one of these verdicts.                     *)
With(verdicts) == {i \in DOMAIN log : log[i].verdict \in verdicts}

IPIsBlocked(e) ==
  \E i \in With({"ip_rate"}) : log[i].event.ip = e.ip /\ log[i].at + IPBlock > clock

SessionIsBlocked(e) ==
  \E i \in With({"entropy"}) :
    log[i].event.session = e.session /\ log[i].at + SessionBlock > clock

(* Requests of the address in this minute, this one included.               *)
Requests(e) ==
  1 + Cardinality({i \in With({"ok", "cap", "entropy", "ip_rate"}) :
                     /\ log[i].event.ip = e.ip
                     /\ log[i].at \div Minute = clock \div Minute})

Contributed(e) ==
  \E i \in With({"ok", "entropy"}) : /\ Ids(log[i].event) \cap Ids(e) # {}
                                     /\ log[i].event.query = e.query
                                     /\ log[i].at + ContributionWindow > clock

(* The queries of the session in the trailing window, this one included,    *)
(* counted from its last block on.                                          *)
SessionQueries(e) ==
  {e.query} \cup
  {log[i].event.query :
     i \in {j \in With({"ok"}) :
              /\ log[j].event.session = e.session
              /\ log[j].at >= clock - EntropyWindow
              /\ ~\E k \in With({"entropy"}) : k > j /\ log[k].event.session = e.session}}

Verdict(e) ==
  CASE e.ip = NoId \/ e.session = NoId            -> "missing"
    [] OTHER ->
  IF IPIsBlocked(e) THEN "ip_blocked"
  ELSE IF SessionIsBlocked(e) THEN "session_blocked"
  ELSE IF Requests(e) > MaxRequests THEN "ip_rate"
  ELSE IF Contributed(e) THEN "cap"
  ELSE IF Cardinality(SessionQueries(e)) > MaxUnique THEN "entropy"
  ELSE "ok"

Evaluate(e) ==
  /\ log' = Append(log, [event |-> e, at |-> clock, verdict |-> Verdict(e)])
  /\ UNCHANGED clock

Next == (\E e \in Events : Evaluate(e)) \/ UNCHANGED log

Spec == Init /\ [][Next]_vars
=============================================================================
