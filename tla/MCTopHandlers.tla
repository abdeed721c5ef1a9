--------------------------- MODULE MCTopHandlers ---------------------------
(* A small instance of TopHandlers for TLC.  No request leaves n out: the   *)
(* default of 10 is one more size to ask for.                               *)
EXTENDS TopHandlers

MCQueries == {1, 2}
MCScores == {1}
MCRawSizes == [form : {"garbage"}, value : {0}]
                \cup [form : {"number"}, value : {0, 1, 101}]
=============================================================================
