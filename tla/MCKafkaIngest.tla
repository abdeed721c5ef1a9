--------------------------- MODULE MCKafkaIngest ---------------------------
(* A small instance of KafkaIngest  for TLC.                                  *)
EXTENDS KafkaIngest

(* A vote, its repeat, a malformed message, a message without a query.      *)
MCLog == <<[id |-> "e1", kind |-> "vote"], [id |-> "e1", kind |-> "vote"],
           [id |-> "e2", kind |-> "malformed"], [id |-> "e3", kind |-> "invalid"]>>
=============================================================================
