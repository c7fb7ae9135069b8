--------------------------- MODULE MCProxyServer ---------------------------
(* A batch client with a cap and several sessions in the low tier; one of   *)
(* its sessions, or an interactive client without a cap, in the high tier;  *)
(* a session without a client_id; on a pool of one to three workers.  All   *)
(* on the main port, or the high tier behind the last of the injection      *)
(* listeners, or behind another one.                                        *)
EXTENDS ProxyServer

CONSTANTS b1, b2, bh, ih, a1, batch, interactive

MCTierOf == [r \in Requests |-> IF r \in {bh, ih} THEN "high" ELSE "low"]
MCClientOf ==
    [r \in Requests |-> CASE r = ih -> interactive [] r = a1 -> None [] OTHER -> batch]
AllOnMain == [r \in Requests |-> "main"]
HighOnLast == [r \in Requests |-> IF r \in {bh, ih} THEN "last" ELSE "main"]
HighOnOther == [r \in Requests |-> IF r \in {bh, ih} THEN "other" ELSE "main"]
CapOfOne == [c \in Clients |-> IF c = batch THEN 1 ELSE 0]
CapOfTwo == [c \in Clients |-> IF c = batch THEN 2 ELSE 0]
MCNBytes == [r \in Requests |-> 1]
MCMaxDepth == [t \in Tiers |-> 1]
=============================================================================
