-------------------------- MODULE MCPriorityQueue --------------------------
(* Small instances of PriorityQueue: sessions in all three tiers, of which *)
(* one has a body larger than the whole ceiling.                           *)
EXTENDS PriorityQueue, TLC

CONSTANTS h1, h2, n1, l1, l2

MCTierOf ==
    [r \in Requests |->
        CASE r \in {h1, h2} -> "high" [] r = n1 -> "normal" [] r \in {l1, l2} -> "low"]

\* n1 alone exceeds a ceiling of 2; two others fit in it.
MCNBytes == [r \in Requests |-> IF r = n1 THEN 3 ELSE 1]

\* The high tier holds both of its sessions; the low ones compete for one place.
MCMaxDepth == [t \in Tiers |-> IF t = "high" THEN 2 ELSE 1]
MCWatermark == MCMaxDepth

\* Workers are interchangeable, and so are the sessions of the high tier.
Interchangeable == Permutations(Workers) \union Permutations({h1, h2})
=============================================================================
