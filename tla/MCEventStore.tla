---------------------------- MODULE MCEventStore ----------------------------
(***************************************************************************)
(* EventStore on the events of one contact: one of the first month, others *)
(* of the second, for which no partition is there unless a maintenance run *)
(* comes first.                                                            *)
(***************************************************************************)
EXTENDS EventStore

MCTables  == <<"events">>
MCMonthOf == [e \in Event |-> IF e = 1 THEN 1 ELSE 2]
MCTableOf == [e \in Event |-> "events"]
=============================================================================
