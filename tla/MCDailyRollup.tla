---------------------------- MODULE MCDailyRollup ---------------------------
(***************************************************************************)
(* A small instance of DailyRollup for TLC: two sends of one contact, and  *)
(* events of the first two days that may arrive on any later one.          *)
(***************************************************************************)
EXTENDS DailyRollup

CONSTANTS s1, s2, c1

MCContactOf == [s \in {s1, s2} |-> c1]

Ev(name, type, s, d) == [event |-> name, type |-> type, send |-> s, at |-> d]

MCEvents == {Ev("delivered", "", s1, 1), Ev("delivered", "", s2, 1), Ev("delivered", "", s2, 2),
             Ev("dropped", "Unsubscribed Address", s1, 1), Ev("spamreport", "", s1, 2)}
=============================================================================
