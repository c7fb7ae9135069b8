--------------------------- MODULE MCHostRouting ---------------------------
(* Two hosts, the first with twice the weight of the second in the runs     *)
(* that can afford it, one model, and a request that names it beside one    *)
(* that names none.                                                         *)
EXTENDS HostRouting

CONSTANTS a, b, m, chat, ping

MCHostOrder == <<a, b>>
MCWeight == [h \in {a, b} |-> IF h = a THEN 2 ELSE 1]
MCEqualWeight == [h \in {a, b} |-> 1]
MCModelOf == [r \in Requests |-> IF r = chat THEN m ELSE NoModel]
=============================================================================
