------------------------------- MODULE MCCargoDB -------------------------------
(***************************************************************************)
(* A small instance of the cargo table: two ids, one of which is a default *)
(* row, and three concurrent handlers.                                     *)
(***************************************************************************)
EXTENDS CargoDB

CONSTANTS t1, t2, t3, none, nan

MCThreads == {t1, t2, t3}
MCIds == {"0", "4"}
MCAmounts == {100, 200}
MCAddrs == {"Ranch", "Farm"}
MCDefaults == [id \in {"0"} |-> [amount |-> 100, addr |-> "Ranch"]]

Event(op, id, amount, addr) == [op |-> op, id |-> id, amount |-> amount, addr |-> addr]

\* Legal and illegal events on a present and an absent id.
MCInputs ==
    {Event("add", "4", 100, "Farm"), Event("add", "4", nan, "Farm"),
     Event("add", "0", 200, "Farm"), Event("modify", "0", none, "Farm"),
     Event("modify", "0", nan, none), Event("delete", "0", none, none),
     Event("query", "4", none, none), Event("query_all", "0", none, none)}
===============================================================================
