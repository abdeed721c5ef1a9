---------------------------- MODULE MCAntiFraud ----------------------------
(* Small instances of AntiFraud for TLC.                                    *)
EXTENDS AntiFraud

MCIPs == {"i1", "i2"}
MCSessions == {"s1", "s2"}
MCUsers == {"u1"}
MCQueries == {"q1", "q2"}
MCNoId == ""

E(ip, session, user, query) ==
  [ip |-> ip, session |-> session, user |-> user, query |-> query]

(* Events that share an address, a session or a user with another.          *)
MCEvents == {E("i1", "s1", "", "q1"), E("i1", "s1", "u1", "q2"), E("i2", "s1", "", "q2"),
             E("i2", "s2", "u1", "q2"), E("i1", "", "u1", "q1")}
=============================================================================
