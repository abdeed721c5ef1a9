--------------------------- MODULE MCWindowEngine ---------------------------
(* Small instances of WindowEngine for TLC.                                 *)
EXTENDS WindowEngine

MCQueries == {0, 1, 2}
MCScores == {0, 1}
MCSizes == {0, 1}

(* A missing stamp and one stamp for each of the seconds 1 to 5.            *)
MCStamps == {0, 2, 4, 7, 8, 10}
MCFewStamps == {0, 4, 8, 10}
=============================================================================
