---------------------------- MODULE MCQueueEvents ----------------------------
(* Two sessions that fill the high tier to its watermark, one in the low    *)
(* tier, two workers, a receiver of two kinds of events.                    *)
EXTENDS QueueEvents

CONSTANTS h1, h2, l1

MCTierOf == [r \in Requests |-> IF r = l1 THEN "low" ELSE "high"]
MCNBytes == [r \in Requests |-> 1]
MCMaxDepth == [t \in Tiers |-> IF t = "high" THEN 2 ELSE 1]
MCWatermark == MCMaxDepth
=============================================================================
