----------------------------- MODULE MCService -----------------------------
(* A small instance of Service for TLC.  The one stop word is "buy"; the    *)
(* events both and phone come from one source and are the same query once   *)
(* it is stopped; "x" is one rune, and what is left of the event rune is    *)
(* unusable then.  The stamp of rune is ahead of the clock.                 *)
EXTENDS Service

CONSTANTS r1

MCEvents ==
  [both  |-> [contract |-> "event", source |-> "s", tokens |-> <<"buy", "phone">>, stamp |-> 1],
   phone |-> [contract |-> "event", source |-> "s", tokens |-> <<"phone">>, stamp |-> 0],
   rune  |-> [contract |-> "event", source |-> "t", tokens |-> <<"buy", "x">>, stamp |-> 9],
   bad   |-> [contract |-> "SCHEMA_VALIDATION_FAILED", source |-> "s", tokens |-> <<>>, stamp |-> 0]]
=============================================================================
