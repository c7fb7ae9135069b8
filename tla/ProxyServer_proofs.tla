------------------------- MODULE ProxyServer_proofs -------------------------
(***************************************************************************)
(* Theorems about ClientCaps and ProxyServer, for any number of sessions,  *)
(* workers and clients and any caps.  The lemmas on the semaphore come     *)
(* first: each operation of ClientCaps preserves the soundness of one      *)
(* client's cap.  The server's invariant then ties the caps to what the    *)
(* workers do.                                                             *)
(***************************************************************************)
EXTENDS ProxyServer, PriorityQueue_proofs

-----------------------------------------------------------------------------
(* One client's cap                                                        *)

Parked(c) == ToSet(waiters[c])

\* A task is parked once at most, or inside; the woken ones are still parked; the
\* counters count; every permit is free, inside, or on its way, and beside a free
\* one nobody is left to sleep.
CapSound(c) ==
    /\ \A i, j \in DOMAIN waiters[c] : waiters[c][i] = waiters[c][j] => i = j
    /\ woken[c] \subseteq Parked(c)
    /\ inside[c] \intersect Parked(c) = {}
    /\ inflight[c] = Cardinality(inside[c])
    /\ cap_waiting[c] = Len(waiters[c])
    /\ Cap[c] = 0 => waiters[c] = <<>>
    /\ Cap[c] > 0 =>
          /\ permits[c] + Cardinality(inside[c]) + Cardinality(woken[c]) = Cap[c]
          /\ permits[c] > 0 /\ Sleepers(c, waiters[c]) # {} => woken[c] # {}

CapsInv == CapsTypeOK /\ \A c \in Clients : CapSound(c)

\* What an operation of one client leaves alone.
OthersKept(c) ==
    \A d \in Clients \ {c} :
        /\ waiters'[d] = waiters[d] /\ woken'[d] = woken[d] /\ inside'[d] = inside[d]
        /\ inflight'[d] = inflight[d] /\ cap_waiting'[d] = cap_waiting[d]
        /\ permits'[d] = permits[d]

LEMMA CapsFinite ==
  ASSUME CapsInv, NEW c \in Clients
  PROVE  /\ IsFiniteSet(inside[c]) /\ Cardinality(inside[c]) \in Nat
         /\ IsFiniteSet(woken[c]) /\ Cardinality(woken[c]) \in Nat
         /\ waiters[c] \in Seq(Tasks) /\ Len(waiters[c]) \in Nat
         /\ permits[c] \in Nat /\ Cap[c] \in Nat
         /\ inside[c] \subseteq Tasks /\ woken[c] \subseteq Tasks /\ Parked(c) \subseteq Tasks
  <1>1. /\ inside[c] \in SUBSET Tasks /\ woken[c] \in SUBSET Tasks
        /\ waiters[c] \in Seq(Tasks) /\ permits[c] \in Nat
    BY DEF CapsInv, CapsTypeOK
  <1>2. Parked(c) \subseteq Tasks /\ Len(waiters[c]) \in Nat
    BY <1>1 DEF Parked, ToSet
  <1>. QED BY <1>1, <1>2, TasksAssumption, CapAssumption, FS_Subset, FS_CardinalityType

LEMMA EnterKeeps ==
  ASSUME CapsInv, NEW w \in Tasks, NEW c \in Clients, Enter(w, c)
  PROVE  /\ CapsInv' /\ OthersKept(c)
         /\ Parked(c)' = Parked(c) /\ inside'[c] = inside[c] \union {w}
  <1>0. /\ Cardinality(inside[c]) \in Nat /\ Cardinality(woken[c]) \in Nat
        /\ permits[c] \in Nat /\ Cap[c] \in Nat /\ waiters[c] \in Seq(Tasks)
    BY CapsFinite
  <1>1. /\ w \notin inside[c] /\ w \notin Parked(c)
        /\ inside'[c] = inside[c] \union {w}
        /\ inflight'[c] = inflight[c] + 1
        /\ waiters' = waiters /\ woken' = woken /\ cap_waiting' = cap_waiting
        /\ Cap[c] > 0 => permits[c] # 0 /\ permits'[c] = permits[c] - 1
        /\ Cap[c] > 0 => waiters[c] = <<>>
        /\ OthersKept(c)
    BY DEF Enter, Outside, Capped, Locked, Parked, CapsInv, CapsTypeOK, OthersKept
  <1>2. CapsTypeOK'
    <2>1. inflight' \in [Clients -> Nat] /\ inside' \in [Clients -> SUBSET Tasks]
      BY DEF Enter, CapsInv, CapsTypeOK
    <2>2. permits' \in [Clients -> Nat]
      BY CapAssumption DEF Enter, Capped, Locked, CapsInv, CapsTypeOK
    <2>. QED BY <1>1, <2>1, <2>2 DEF CapsInv, CapsTypeOK
  <1>3. Cardinality(inside'[c]) = Cardinality(inside[c]) + 1
    BY <1>1, CapsFinite, FS_AddElement
  <1>4. CapSound(c)'
    <2>1. /\ \A i, j \in DOMAIN waiters'[c] : waiters'[c][i] = waiters'[c][j] => i = j
          /\ woken'[c] \subseteq Parked(c)' /\ inside'[c] \intersect Parked(c)' = {}
      BY <1>1 DEF CapsInv, CapSound, Parked
    <2>2. /\ inflight'[c] = Cardinality(inside'[c]) /\ cap_waiting'[c] = Len(waiters'[c])
          /\ Cap[c] = 0 => waiters'[c] = <<>>
      BY <1>1, <1>3 DEF CapsInv, CapSound
    <2>3. ASSUME Cap[c] > 0
          PROVE  permits'[c] + Cardinality(inside'[c]) + Cardinality(woken'[c]) = Cap[c]
      <3>1. /\ permits[c] + Cardinality(inside[c]) + Cardinality(woken[c]) = Cap[c]
            /\ permits'[c] = permits[c] - 1 /\ woken'[c] = woken[c]
        BY <1>1, <2>3 DEF CapsInv, CapSound
      <3>. QED BY <1>0, <1>3, <3>1
    <2>4. Cap[c] > 0 => Sleepers(c, waiters[c])' = {}
      BY <1>1 DEF Sleepers, ToSet
    <2>. QED BY <2>1, <2>2, <2>3, <2>4 DEF CapSound
  <1>5. \A d \in Clients \ {c} : CapSound(d)'
    BY <1>1 DEF OthersKept, CapsInv, CapSound, Parked, Sleepers
  <1>. QED BY <1>1, <1>2, <1>4, <1>5 DEF CapsInv, Parked

LEMMA ParkKeeps ==
  ASSUME CapsInv, NEW w \in Tasks, NEW c \in Clients, Park(w, c)
  PROVE  /\ CapsInv' /\ OthersKept(c)
         /\ Parked(c)' = Parked(c) \union {w} /\ inside'[c] = inside[c]
  <1> DEFINE q == waiters[c]
  <1>0. /\ Cardinality(inside[c]) \in Nat /\ Cardinality(woken[c]) \in Nat
        /\ permits[c] \in Nat /\ Cap[c] \in Nat /\ waiters[c] \in Seq(Tasks)
    BY CapsFinite
  <1>1. /\ w \notin inside[c] /\ w \notin Parked(c)
        /\ waiters'[c] = Append(q, w)
        /\ cap_waiting'[c] = cap_waiting[c] + 1
        /\ inflight' = inflight /\ permits' = permits /\ woken' = woken /\ inside' = inside
        /\ Cap[c] > 0 /\ (permits[c] = 0 \/ q # <<>>)
        /\ OthersKept(c)
    BY DEF Park, Outside, Capped, Locked, Parked, CapsInv, CapsTypeOK, OthersKept
  <1>2. CapsTypeOK'
    <2>1. Append(q, w) \in Seq(Tasks)
      BY CapsFinite
    <2>2. waiters' \in [Clients -> Seq(Tasks)] /\ cap_waiting' \in [Clients -> Nat]
      BY <2>1 DEF Park, CapsInv, CapsTypeOK
    <2>. QED BY <1>1, <2>2 DEF CapsInv, CapsTypeOK
  <1>3. /\ Len(Append(q, w)) = Len(q) + 1
        /\ Append(q, w)[Len(q) + 1] = w
        /\ \A i \in 1 .. Len(q) : Append(q, w)[i] = q[i]
    BY CapsFinite
  <1>4. ToSet(Append(q, w)) = Parked(c) \union {w}
    BY <1>3, CapsFinite, AppendFacts DEF Parked, ToSet
  <1>5. CapSound(c)'
    <2>1. \A i, j \in DOMAIN waiters'[c] : waiters'[c][i] = waiters'[c][j] => i = j
      BY <1>1, <1>3, CapsFinite, AppendFacts DEF CapsInv, CapSound, Parked, ToSet
    <2>2. woken'[c] \subseteq Parked(c)' /\ inside'[c] \intersect Parked(c)' = {}
      BY <1>1, <1>4 DEF CapsInv, CapSound, Parked
    <2>3. inflight'[c] = Cardinality(inside'[c]) /\ cap_waiting'[c] = Len(waiters'[c])
      BY <1>1, <1>3 DEF CapsInv, CapSound
    <2>4. permits'[c] + Cardinality(inside'[c]) + Cardinality(woken'[c]) = Cap[c]
      BY <1>1 DEF CapsInv, CapSound
    <2>5. permits[c] > 0 => woken[c] # {}
      <3>1. q # <<>> => Parked(c) # {}
        BY <1>0, TailFacts DEF Parked, ToSet
      <3>2. permits[c] > 0 => q # <<>>
        BY <1>0, <1>1
      <3>3. permits[c] > 0 /\ Sleepers(c, waiters[c]) # {} => woken[c] # {}
        BY <1>1 DEF CapsInv, CapSound
      <3>. QED BY <3>1, <3>2, <3>3 DEF Sleepers, Parked
    <2>6. permits'[c] = permits[c] /\ woken'[c] = woken[c] /\ Cap[c] # 0
      BY <1>1, CapsFinite
    <2>. QED BY <2>1, <2>2, <2>3, <2>4, <2>5, <2>6 DEF CapSound
  <1>6. \A d \in Clients \ {c} : CapSound(d)'
    BY <1>1 DEF OthersKept, CapsInv, CapSound, Parked, Sleepers
  <1>. QED BY <1>1, <1>2, <1>4, <1>5, <1>6 DEF CapsInv, Parked

\* What _wake_up_next() gives away: no more than there is, and nothing is left
\* beside a sleeper unless another task has just been woken.
LEMMA WakeUpFacts ==
  ASSUME CapsInv, NEW c \in Clients, NEW queued \in Seq(Tasks), NEW value \in Nat, NEW n \in Nat,
         n <= value, WakeUp(c, queued, value, n)
  PROVE  \E ws \in SUBSET Sleepers(c, queued) :
            /\ IsFiniteSet(ws) /\ Cardinality(ws) \in Nat
            /\ Cardinality(ws) < n => ws = Sleepers(c, queued)
            /\ woken'[c] = (woken[c] \intersect ToSet(queued)) \union ws
            /\ permits'[c] \in Nat
            /\ permits'[c] = value - Cardinality(ws)
            /\ woken' = [woken EXCEPT ![c] = woken'[c]]
            /\ permits' = [permits EXCEPT ![c] = permits'[c]]
  <1>1. PICK ws \in SUBSET Sleepers(c, queued) :
            /\ AreFirst(ws, c, queued, n)
            /\ woken' = [woken EXCEPT ![c] = (@ \intersect ToSet(queued)) \union ws]
            /\ permits' = [permits EXCEPT ![c] = value - Cardinality(ws)]
    BY DEF WakeUp
  <1> DEFINE asleep == Sleepers(c, queued)
  <1>2. ToSet(queued) \subseteq Tasks
    BY DEF ToSet
  <1>3. IsFiniteSet(asleep) /\ IsFiniteSet(ws) /\ Cardinality(asleep) \in Nat /\ Cardinality(ws) \in Nat
    <2>1. asleep \subseteq Tasks /\ ws \subseteq Tasks
      BY <1>2 DEF Sleepers
    <2>. QED BY <2>1, TasksAssumption, FS_Subset, FS_CardinalityType
  <1>4. Cardinality(ws) = IF Cardinality(asleep) < n THEN Cardinality(asleep) ELSE n
    BY <1>1 DEF AreFirst
  <1>5. Cardinality(ws) < n => ws = asleep
    <2>1. Cardinality(ws) < n => Cardinality(ws) = Cardinality(asleep)
      BY <1>3, <1>4
    <2>. QED BY <1>3, <2>1, FS_Subset
  <1>6. /\ woken'[c] = (woken[c] \intersect ToSet(queued)) \union ws
        /\ permits'[c] = value - Cardinality(ws)
    BY <1>1 DEF CapsInv, CapsTypeOK
  <1>7. permits'[c] \in Nat
    BY <1>3, <1>4, <1>6
  <1>. QED BY <1>1, <1>3, <1>5, <1>6, <1>7

LEMMA UnparkKeeps ==
  ASSUME CapsInv, NEW w \in Tasks, NEW c \in Clients, Unpark(w, c)
  PROVE  /\ CapsInv' /\ OthersKept(c)
         /\ w \in Parked(c) /\ Parked(c)' = Parked(c) \ {w}
         /\ inside'[c] = inside[c] \union {w}
  <1> DEFINE queued == RemoveFirst(waiters[c], w)
  <1>0. /\ Cardinality(inside[c]) \in Nat /\ Cardinality(woken[c]) \in Nat
        /\ permits[c] \in Nat /\ Cap[c] \in Nat /\ waiters[c] \in Seq(Tasks)
        /\ IsFiniteSet(inside[c]) /\ IsFiniteSet(woken[c]) /\ woken[c] \subseteq Tasks
    BY CapsFinite
  <1>1. w \in woken[c] /\ w \in Parked(c) /\ w \notin inside[c]
    BY DEF Unpark, CapsInv, CapSound
  <1>2. /\ queued \in Seq(Tasks) /\ Len(queued) = Len(waiters[c]) - 1
        /\ ToSet(queued) = Parked(c) \ {w}
        /\ \A i, j \in 1 .. Len(queued) : queued[i] = queued[j] => i = j
    <2>1. \A i, j \in 1 .. Len(waiters[c]) : waiters[c][i] = waiters[c][j] => i = j
      BY <1>0 DEF CapsInv, CapSound
    <2>. QED BY <1>0, <1>1, <2>1, RemoveFirstRest DEF Parked
  <1> HIDE DEF queued
  <1>3. Cap[c] > 0 /\ Len(waiters[c]) \in Nat /\ Len(waiters[c]) > 0
    <2>1. waiters[c] # <<>>
      BY <1>0, <1>1 DEF Parked, ToSet
    <2>. QED BY <1>0, <2>1 DEF CapsInv, CapSound
  <1>4. PICK ws \in SUBSET Sleepers(c, queued) :
            /\ IsFiniteSet(ws) /\ Cardinality(ws) \in Nat
            /\ Cardinality(ws) < permits[c] => ws = Sleepers(c, queued)
            /\ woken'[c] = (woken[c] \intersect ToSet(queued)) \union ws
            /\ permits'[c] \in Nat
            /\ permits'[c] = permits[c] - Cardinality(ws)
            /\ woken' = [woken EXCEPT ![c] = woken'[c]]
            /\ permits' = [permits EXCEPT ![c] = permits'[c]]
    <2>1. WakeUp(c, queued, permits[c], permits[c]) /\ permits[c] <= permits[c]
      BY <1>0 DEF Unpark, queued
    <2>. QED BY <1>0, <1>2, <2>1, WakeUpFacts
  <1>5. /\ waiters' = [waiters EXCEPT ![c] = queued]
        /\ inside' = [inside EXCEPT ![c] = @ \union {w}]
        /\ inflight' = [inflight EXCEPT ![c] = @ + 1]
        /\ cap_waiting' = [cap_waiting EXCEPT ![c] = @ - 1]
    BY <1>3 DEF Unpark, queued, CapsInv, CapSound
  <1>6. /\ waiters'[c] = queued /\ inside'[c] = inside[c] \union {w}
        /\ inflight'[c] = inflight[c] + 1 /\ cap_waiting'[c] = cap_waiting[c] - 1
    BY <1>5 DEF CapsInv, CapsTypeOK
  <1>7. OthersKept(c)
    BY <1>4, <1>5 DEF OthersKept, CapsInv, CapsTypeOK
  <1>8. woken'[c] = (woken[c] \ {w}) \union ws
    BY <1>2, <1>4 DEF CapsInv, CapSound
  <1>9. ws \subseteq Parked(c) \ {w} /\ ws \intersect woken[c] = {}
    BY <1>2 DEF Sleepers
  <1>10. /\ Cardinality(inside'[c]) = Cardinality(inside[c]) + 1
         /\ Cardinality(woken'[c]) = Cardinality(woken[c]) - 1 + Cardinality(ws)
    <2>0. IsFiniteSet(inside[c]) /\ w \notin inside[c]
      BY <1>0, <1>1
    <2>1. Cardinality(inside'[c]) = Cardinality(inside[c]) + 1
      <3>1. Cardinality(inside[c] \union {w}) = Cardinality(inside[c]) + 1
        BY <2>0, FS_AddElement
      <3>. QED BY <1>6, <3>1
    <2>2. IsFiniteSet(woken[c] \ {w}) /\ Cardinality(woken[c] \ {w}) = Cardinality(woken[c]) - 1
      BY <1>0, <1>1, FS_RemoveElement
    <2>3. Cardinality(woken'[c]) = Cardinality(woken[c] \ {w}) + Cardinality(ws)
      BY <1>4, <1>8, <1>9, <2>2, DisjointUnion
    <2>. QED BY <2>1, <2>2, <2>3
  <1>11. CapsTypeOK'
    <2>1. waiters' \in [Clients -> Seq(Tasks)] /\ inside' \in [Clients -> SUBSET Tasks]
      BY <1>2, <1>5 DEF CapsInv, CapsTypeOK
    <2>2a. inflight' \in [Clients -> Nat]
      BY <1>5 DEF CapsInv, CapsTypeOK
    <2>2. permits' \in [Clients -> Nat]
      BY <1>4 DEF CapsInv, CapsTypeOK
    <2>3. cap_waiting[c] - 1 \in Nat
      BY <1>3 DEF CapsInv, CapSound
    <2>4. cap_waiting' \in [Clients -> Nat]
      BY <1>5, <2>3 DEF CapsInv, CapsTypeOK
    <2>5. Parked(c) \subseteq Tasks
      BY CapsFinite
    <2>6. woken' \in [Clients -> SUBSET Tasks]
      BY <1>0, <1>4, <1>8, <1>9, <2>5 DEF CapsInv, CapsTypeOK
    <2>. QED BY <2>1, <2>2a, <2>2, <2>4, <2>6 DEF CapsTypeOK
  <1>12. Parked(c)' = Parked(c) \ {w}
    BY <1>2, <1>6 DEF Parked
  <1>13. CapSound(c)'
    <2>1. \A i, j \in DOMAIN waiters'[c] : waiters'[c][i] = waiters'[c][j] => i = j
      BY <1>2, <1>6
    <2>2. woken'[c] \subseteq Parked(c)' /\ inside'[c] \intersect Parked(c)' = {}
      BY <1>6, <1>8, <1>9, <1>12 DEF CapsInv, CapSound
    <2>3. inflight'[c] = Cardinality(inside'[c]) /\ cap_waiting'[c] = Len(waiters'[c])
      BY <1>2, <1>6, <1>10 DEF CapsInv, CapSound
    <2>4. permits'[c] + Cardinality(inside'[c]) + Cardinality(woken'[c]) = Cap[c]
      <3>1. permits[c] + Cardinality(inside[c]) + Cardinality(woken[c]) = Cap[c]
        BY <1>3 DEF CapsInv, CapSound
      <3>. QED BY <1>0, <1>4, <1>10, <3>1
    <2>5. permits'[c] > 0 => Sleepers(c, waiters[c])' = {}
      <3>1. permits'[c] > 0 => ws = Sleepers(c, queued)
        BY <1>0, <1>4
      <3>. QED BY <1>2, <1>6, <1>8, <3>1 DEF Sleepers
    <2>6. Cap[c] # 0
      BY <1>0, <1>3
    <2>. QED BY <2>1, <2>2, <2>3, <2>4, <2>5, <2>6 DEF CapSound
  <1>14. \A d \in Clients \ {c} : CapSound(d)'
    BY <1>7 DEF OthersKept, CapsInv, CapSound, Parked, Sleepers
  <1>. QED BY <1>1, <1>6, <1>7, <1>11, <1>12, <1>13, <1>14 DEF CapsInv

LEMMA LeaveKeeps ==
  ASSUME CapsInv, NEW w \in Tasks, NEW c \in Clients, Leave(w, c)
  PROVE  /\ CapsInv' /\ OthersKept(c)
         /\ w \in inside[c] /\ inside'[c] = inside[c] \ {w}
         /\ Parked(c)' = Parked(c)
  <1>0. /\ Cardinality(inside[c]) \in Nat /\ Cardinality(woken[c]) \in Nat
        /\ permits[c] \in Nat /\ Cap[c] \in Nat /\ waiters[c] \in Seq(Tasks)
        /\ IsFiniteSet(inside[c]) /\ IsFiniteSet(woken[c]) /\ woken[c] \subseteq Tasks
        /\ CapsTypeOK /\ CapSound(c)
    BY CapsFinite DEF CapsInv
  <1>1. /\ w \in inside[c] /\ inflight[c] > 0
        /\ waiters' = waiters /\ cap_waiting' = cap_waiting
        /\ inside' = [inside EXCEPT ![c] = @ \ {w}]
    <2>1. w \in inside[c]
      BY DEF Leave
    <2>2. Cardinality(inside[c]) # 0
      BY <1>0, <2>1, FS_EmptySet
    <2>. QED BY <1>0, <2>1, <2>2 DEF Leave, CapSound
  <1>2. inflight' = [inflight EXCEPT ![c] = @ - 1] /\ inflight[c] - 1 \in Nat
    BY <1>0, <1>1 DEF Leave, CapsTypeOK
  <1>3. /\ inside'[c] = inside[c] \ {w} /\ inflight'[c] = inflight[c] - 1
        /\ inflight' \in [Clients -> Nat] /\ inside' \in [Clients -> SUBSET Tasks]
    BY <1>0, <1>1, <1>2 DEF CapsTypeOK
  <1>4. Cardinality(inside'[c]) = Cardinality(inside[c]) - 1
    BY <1>0, <1>1, <1>3, FS_RemoveElement
  <1>5. Parked(c)' = Parked(c)
    BY <1>1 DEF Parked
  <1>6. /\ permits' = [permits EXCEPT ![c] = permits'[c]] /\ permits'[c] \in Nat
        /\ woken' = [woken EXCEPT ![c] = woken'[c]]
        /\ woken'[c] \subseteq Parked(c)
        /\ Cap[c] > 0 =>
              /\ permits'[c] + Cardinality(inside'[c]) + Cardinality(woken'[c]) = Cap[c]
              /\ permits'[c] > 0 /\ Sleepers(c, waiters[c])' # {} => woken'[c] # {}
    <2>1. CASE Capped(c)
      <3> DEFINE value == permits[c] + 1
      <3>0. value \in Nat /\ 1 <= value /\ WakeUp(c, waiters[c], value, 1)
        BY <1>0, <2>1 DEF Leave
      <3> HIDE DEF value
      <3>1. PICK ws \in SUBSET Sleepers(c, waiters[c]) :
                /\ IsFiniteSet(ws) /\ Cardinality(ws) \in Nat
                /\ Cardinality(ws) < 1 => ws = Sleepers(c, waiters[c])
                /\ woken'[c] = (woken[c] \intersect ToSet(waiters[c])) \union ws
                /\ permits'[c] \in Nat
                /\ permits'[c] = value - Cardinality(ws)
                /\ woken' = [woken EXCEPT ![c] = woken'[c]]
                /\ permits' = [permits EXCEPT ![c] = permits'[c]]
        BY <1>0, <3>0, WakeUpFacts
      <3>2. woken'[c] = woken[c] \union ws /\ ws \intersect woken[c] = {}
        BY <1>0, <3>1 DEF CapSound, Parked, Sleepers
      <3>3. Cardinality(woken'[c]) = Cardinality(woken[c]) + Cardinality(ws)
        BY <1>0, <3>1, <3>2, DisjointUnion
      <3>4. woken'[c] \subseteq Parked(c)
        BY <1>0, <3>2 DEF CapSound, Sleepers, Parked
      <3>5. permits'[c] + Cardinality(inside'[c]) + Cardinality(woken'[c]) = Cap[c]
        <4>1. permits[c] + Cardinality(inside[c]) + Cardinality(woken[c]) = Cap[c]
          BY <1>0, <2>1 DEF CapSound, Capped
        <4>. QED BY <1>0, <1>4, <3>1, <3>3, <4>1 DEF value
      <3>6. Sleepers(c, waiters[c])' # {} => woken'[c] # {}
        <4>1. ws = {} => ws = Sleepers(c, waiters[c])
          BY <3>1, FS_EmptySet
        <4>2. ws = {} => Sleepers(c, waiters[c])' = {}
          BY <1>1, <3>2, <4>1 DEF Sleepers
        <4>. QED BY <3>2, <4>2
      <3>. QED BY <3>1, <3>4, <3>5, <3>6
    <2>2. CASE ~Capped(c)
      <3>1. permits' = permits /\ woken' = woken
        BY <2>2 DEF Leave
      <3>. QED BY <1>0, <2>2, <3>1 DEF Capped, CapsTypeOK, CapSound
    <2>. QED BY <2>1, <2>2
  <1>7. OthersKept(c)
    BY <1>0, <1>1, <1>2, <1>6 DEF OthersKept, CapsTypeOK
  <1>8. CapsTypeOK'
    <2>1. permits' \in [Clients -> Nat]
      BY <1>0, <1>6 DEF CapsTypeOK
    <2>2. Parked(c) \subseteq Tasks
      BY CapsFinite
    <2>3. woken' \in [Clients -> SUBSET Tasks]
      BY <1>0, <1>6, <2>2 DEF CapsTypeOK
    <2>. QED BY <1>0, <1>1, <1>3, <2>1, <2>3 DEF CapsTypeOK
  <1>9. CapSound(c)'
    <2>1. \A i, j \in DOMAIN waiters'[c] : waiters'[c][i] = waiters'[c][j] => i = j
      BY <1>0, <1>1 DEF CapSound
    <2>2. woken'[c] \subseteq Parked(c)' /\ inside'[c] \intersect Parked(c)' = {}
      BY <1>0, <1>3, <1>5, <1>6 DEF CapSound
    <2>3. /\ inflight'[c] = Cardinality(inside'[c]) /\ cap_waiting'[c] = Len(waiters'[c])
          /\ Cap[c] = 0 => waiters'[c] = <<>>
      BY <1>0, <1>1, <1>3, <1>4 DEF CapSound
    <2>. QED BY <1>6, <2>1, <2>2, <2>3 DEF CapSound
  <1>10. \A d \in Clients \ {c} : CapSound(d)'
    BY <1>7 DEF OthersKept, CapsInv, CapSound, Parked, Sleepers
  <1>. QED BY <1>1, <1>3, <1>5, <1>7, <1>8, <1>9, <1>10 DEF CapsInv

LEMMA CapsStart == CapsInit => CapsInv
  <1> SUFFICES ASSUME CapsInit PROVE CapsInv
    OBVIOUS
  <1>1. CapsTypeOK
    BY CapAssumption DEF CapsInit, CapsTypeOK
  <1>2. ASSUME NEW c \in Clients PROVE CapSound(c)
    <2>1. /\ waiters[c] = <<>> /\ woken[c] = {} /\ inside[c] = {} /\ permits[c] = Cap[c]
          /\ inflight[c] = 0 /\ cap_waiting[c] = 0 /\ Cap[c] \in Nat
      BY CapAssumption DEF CapsInit
    <2>2. Parked(c) = {} /\ Sleepers(c, waiters[c]) = {}
      BY <2>1 DEF Parked, Sleepers, ToSet
    <2>3. Cardinality({}) = 0
      BY FS_EmptySet
    <2>. QED BY <2>1, <2>2, <2>3 DEF CapSound
  <1>. QED BY <1>1, <1>2 DEF CapsInv

-----------------------------------------------------------------------------
(* The server's invariant                                                  *)

\* Where one worker stands towards one client's cap.
InCap(w, c) ==
    /\ ~(w \in Parked(c) /\ w \in inside[c])
    /\ (w \in Parked(c) \/ w \in inside[c]) <=> (worker[w] = "busy" /\ Client(w) = c)

LEMMA WorkersInCapsAs == WorkersInCaps <=> \A w \in Workers, c \in Clients : InCap(w, c)
  BY DEF WorkersInCaps, InCap, Parked

LifespanOK ==
    /\ handler \in [Requests -> {"idle", "reading", "awaiting"}]
    /\ server \in [Ports -> {"open", "ending", "ended"}]
    /\ phase \in {"serving", "draining", "stopped"}

\* While the workers run the queue keeps its own invariant; once they are
\* stopped they stay so.
ServerInv ==
    /\ LifespanOK
    /\ CapsInv
    /\ WorkersInCaps
    /\ phase # "stopped" => Held /\ ActiveExact
    /\ phase = "stopped" => worker = [w \in Workers |-> "stopped"]

\* What the step does to the other workers.
OthersStay(w) ==
    \A v \in Workers \ {w} :
        job'[v] = job[v] /\ (worker'[v] = "busy" <=> worker[v] = "busy")

LEMMA OneWorkerMoves ==
  ASSUME WorkersInCaps, NEW w \in Workers, NEW c \in Clients, OthersKept(c), OthersStay(w),
         Parked(c)' \ {w} = Parked(c) \ {w}, inside'[c] \ {w} = inside[c] \ {w},
         \A d \in Clients : InCap(w, d)'
  PROVE  WorkersInCaps'
  <1>0. WorkersInCaps' <=> \A v \in Workers, d \in Clients : InCap(v, d)'
    BY DEF WorkersInCaps, InCap, Parked
  <1> SUFFICES ASSUME NEW v \in Workers \ {w}, NEW d \in Clients PROVE InCap(v, d)'
    BY <1>0
  <1>1. InCap(v, d)
    BY WorkersInCapsAs
  <1>2. (v \in Parked(d)' <=> v \in Parked(d)) /\ (v \in inside'[d] <=> v \in inside[d])
    <2>1. CASE d = c
      BY <2>1
    <2>2. CASE d # c
      BY <2>2 DEF OthersKept, Parked
    <2>. QED BY <2>1, <2>2
  <1>3. (worker'[v] = "busy" <=> worker[v] = "busy") /\ Client(v)' = Client(v)
    BY DEF OthersStay, Client
  <1>. QED BY <1>1, <1>2, <1>3 DEF InCap

\* The request of the worker that moves is in nobody's cap, before and after.
LEMMA UnaccountedKeeps ==
  ASSUME ServerInv, NEW w \in Workers, UNCHANGED capsVars, OthersStay(w),
         worker[w] = "busy" => Client(w) \notin Clients,
         worker'[w] = "busy" => Client(w)' \notin Clients
  PROVE  CapsInv' /\ WorkersInCaps'
  <1>1. CapsInv'
    BY DEF ServerInv, CapsInv, CapsTypeOK, CapSound, Parked, Sleepers, capsVars
  <1>2. ASSUME NEW v \in Workers, NEW c \in Clients PROVE InCap(v, c)'
    <2>1. InCap(v, c)
      BY WorkersInCapsAs DEF ServerInv
    <2>2. (v \in Parked(c)' <=> v \in Parked(c)) /\ (v \in inside'[c] <=> v \in inside[c])
      BY DEF Parked, capsVars
    <2>3. CASE v = w
      BY <2>1, <2>2, <2>3 DEF InCap
    <2>4. CASE v # w
      <3>1. (worker'[v] = "busy" <=> worker[v] = "busy") /\ Client(v)' = Client(v)
        BY <2>4 DEF OthersStay, Client
      <3>. QED BY <2>1, <2>2, <3>1 DEF InCap
    <2>. QED BY <2>3, <2>4
  <1>3. WorkersInCaps' <=> \A v \in Workers, c \in Clients : InCap(v, c)'
    BY DEF WorkersInCaps, InCap, Parked
  <1>. QED BY <1>1, <1>2, <1>3

\* A worker takes a request and is parked, or goes upstream, for its client.
LEMMA StartKeeps ==
  ASSUME ServerInv, NEW w \in Workers, StartDispatch(w)
  PROVE  CapsInv' /\ WorkersInCaps'
  <1>1. PICK t \in Tiers : Dispatch(w, t)
    BY DEF StartDispatch
  <1>2. PICK r \in Requests :
            /\ worker[w] = "ready" /\ job' = [job EXCEPT ![w] = r]
            /\ worker' = [worker EXCEPT ![w] = "busy"]
    BY <1>1 DEF Dispatch
  <1>3. phase # "stopped" /\ TypeOK
    BY <1>2 DEF ServerInv, Held
  <1>4. /\ job'[w] \in Requests /\ worker[w] # "busy" /\ worker'[w] = "busy"
        /\ OthersStay(w)
    BY <1>2, <1>3 DEF TypeOK, OthersStay
  <1>4a. CASE ClientOf[job'[w]] \notin Clients
    <2>1. UNCHANGED capsVars
      BY <1>4a DEF StartDispatch, Acquire
    <2>. QED BY <1>4, <1>4a, <2>1, UnaccountedKeeps DEF Client
  <1> SUFFICES ASSUME ClientOf[job'[w]] \in Clients PROVE CapsInv' /\ WorkersInCaps'
    BY <1>4a
  <1>5a. PICK c \in Clients : c = ClientOf[job'[w]]
    OBVIOUS
  <1>5. w \in Tasks /\ Client(w)' = c
    BY <1>5a, ServerAssumption DEF Client
  <1>6. \A d \in Clients : w \notin Parked(d) /\ w \notin inside[d]
    BY <1>4, WorkersInCapsAs DEF ServerInv, InCap
  <1>7. /\ CapsInv' /\ OthersKept(c)
        /\ \/ Parked(c)' = Parked(c) /\ inside'[c] = inside[c] \union {w}
           \/ Parked(c)' = Parked(c) \union {w} /\ inside'[c] = inside[c]
    <2>1. CapsInv /\ (Enter(w, c) \/ Park(w, c))
      BY <1>5a DEF ServerInv, StartDispatch, Acquire
    <2>2. CASE Enter(w, c)
      BY <1>5, <2>1, <2>2, EnterKeeps
    <2>3. CASE Park(w, c)
      BY <1>5, <2>1, <2>3, ParkKeeps
    <2>. QED BY <2>1, <2>2, <2>3
  <1>8. ASSUME NEW d \in Clients PROVE InCap(w, d)'
    <2>1. CASE d = c
      BY <1>4, <1>5, <1>6, <1>7, <2>1 DEF InCap
    <2>2. CASE d # c
      <3>1. w \notin Parked(d)' /\ w \notin inside'[d]
        BY <1>6, <1>7, <2>2 DEF OthersKept, Parked
      <3>. QED BY <1>5, <2>2, <3>1 DEF InCap
    <2>. QED BY <2>1, <2>2
  <1>9. Parked(c)' \ {w} = Parked(c) \ {w} /\ inside'[c] \ {w} = inside[c] \ {w}
    BY <1>7
  <1>. QED BY <1>4, <1>5, <1>7, <1>8, <1>9, OneWorkerMoves DEF ServerInv

\* The parked worker goes upstream.
LEMMA EnterUpstreamKeeps ==
  ASSUME ServerInv, NEW w \in Workers, EnterUpstream(w)
  PROVE  CapsInv' /\ WorkersInCaps'
  <1>1. worker[w] = "busy" /\ worker' = worker /\ job' = job
    BY DEF EnterUpstream, vars
  <1>2. Client(w) \in Clients /\ w \in Tasks /\ OthersStay(w)
    BY <1>1, ServerAssumption DEF EnterUpstream, OthersStay
  <1>3a. PICK c \in Clients : c = Client(w)
    BY <1>2
  <1>3. Client(w)' = c
    BY <1>1, <1>3a DEF Client
  <1>4. /\ CapsInv' /\ OthersKept(c) /\ w \in Parked(c)
        /\ Parked(c)' = Parked(c) \ {w} /\ inside'[c] = inside[c] \union {w}
    <2>1. CapsInv /\ Unpark(w, c)
      BY <1>3a DEF ServerInv, EnterUpstream
    <2>. QED BY <1>2, <2>1, UnparkKeeps
  <1>5. ASSUME NEW d \in Clients PROVE InCap(w, d)'
    <2>1. CASE d = c
      BY <1>1, <1>3, <1>4, <2>1 DEF InCap
    <2>2. CASE d # c
      <3>1. Parked(d)' = Parked(d) /\ inside'[d] = inside[d]
        BY <1>4, <2>2 DEF OthersKept, Parked
      <3>2. InCap(w, d) /\ Client(w)' = Client(w) /\ worker'[w] = worker[w]
        BY <1>1, <1>3, <1>3a, WorkersInCapsAs DEF ServerInv
      <3>. QED BY <3>1, <3>2 DEF InCap
    <2>. QED BY <2>1, <2>2
  <1>6. Parked(c)' \ {w} = Parked(c) \ {w} /\ inside'[c] \ {w} = inside[c] \ {w}
    BY <1>4
  <1>. QED BY <1>2, <1>4, <1>5, <1>6, OneWorkerMoves DEF ServerInv

\* The worker comes back from upstream and leaves its client's cap.
LEMMA FinishKeeps ==
  ASSUME ServerInv, NEW w \in Workers, FinishDispatch(w)
  PROVE  CapsInv' /\ WorkersInCaps'
  <1>1. PICK outcome \in {"result", "error"} : Complete(w, outcome)
    BY DEF FinishDispatch
  <1>2. worker[w] = "busy" /\ phase # "stopped" /\ Held
    BY <1>1 DEF Complete, ServerInv
  <1>3. job[w] \in Requests /\ worker'[w] # "busy" /\ OthersStay(w)
    BY <1>1, <1>2 DEF Held, TypeOK, JobsSound, Complete, LoopHead, OthersStay
  <1>4. w \in Tasks
    BY ServerAssumption
  <1>4b. CASE Client(w) \notin Clients
    <2>1. UNCHANGED capsVars
      BY <1>4b DEF FinishDispatch, Release
    <2>. QED BY <1>3, <1>4b, <2>1, UnaccountedKeeps
  <1> SUFFICES ASSUME Client(w) \in Clients PROVE CapsInv' /\ WorkersInCaps'
    BY <1>4b
  <1>4a. PICK c \in Clients : c = Client(w)
    OBVIOUS
  <1>5. /\ CapsInv' /\ OthersKept(c) /\ w \in inside[c]
        /\ Parked(c)' = Parked(c) /\ inside'[c] = inside[c] \ {w}
    <2>1. CapsInv /\ Leave(w, c)
      BY <1>4a DEF ServerInv, FinishDispatch, Release
    <2>. QED BY <1>4, <2>1, LeaveKeeps
  <1>6. ASSUME NEW d \in Clients PROVE InCap(w, d)'
    <2>1. InCap(w, d)
      BY WorkersInCapsAs DEF ServerInv
    <2>2. w \notin Parked(d)' /\ w \notin inside'[d]
      <3>1. CASE d = c
        BY <1>5, <2>1, <3>1 DEF InCap
      <3>2. CASE d # c
        <4>1. Parked(d)' = Parked(d) /\ inside'[d] = inside[d]
          BY <1>5, <3>2 DEF OthersKept, Parked
        <4>. QED BY <1>4a, <1>5, <2>1, <3>2, <4>1 DEF InCap
      <3>. QED BY <3>1, <3>2
    <2>. QED BY <1>3, <2>2 DEF InCap
  <1>7. Parked(c)' \ {w} = Parked(c) \ {w} /\ inside'[c] \ {w} = inside[c] \ {w}
    BY <1>5
  <1>. QED BY <1>3, <1>4, <1>5, <1>6, <1>7, OneWorkerMoves DEF ServerInv

\* The queue keeps its invariant through a step of its own.
LEMMA QueueStep ==
  ASSUME ServerInv, [Next]_vars, phase' = phase
  PROVE  phase' # "stopped" => Held' /\ ActiveExact'
  BY HeldStep, ActiveStep DEF ServerInv, Held

\* A step that dispatches nothing and completes nothing.
LEMMA QuietStep ==
  ASSUME ServerInv, [Next]_vars, UNCHANGED capsVars, phase' = phase, LifespanOK',
         job' = job, \A v \in Workers : worker'[v] = "busy" <=> worker[v] = "busy",
         phase = "stopped" => worker' = worker
  PROVE  ServerInv'
  <1>1. CapsInv'
    BY DEF ServerInv, CapsInv, CapsTypeOK, CapSound, Parked, Sleepers, capsVars
  <1>2. WorkersInCaps'
    BY DEF ServerInv, WorkersInCaps, Client, capsVars
  <1>. QED BY <1>1, <1>2, QueueStep DEF ServerInv

LEMMA ServerStep == ServerInv /\ [ServerNext]_allVars => ServerInv'
  <1> SUFFICES ASSUME ServerInv, [ServerNext]_allVars PROVE ServerInv'
    OBVIOUS
  <1>1. ASSUME NEW r \in Requests, Arrive(r) \/ AnswerUnqueued(r) PROVE ServerInv'
    <2>1. UNCHANGED <<vars, capsVars, server, phase>> /\ LifespanOK'
      BY <1>1 DEF Arrive, AnswerUnqueued, ServerInv, LifespanOK
    <2>. QED BY <2>1, QuietStep DEF vars
  <1>2. ASSUME NEW r \in Requests, Submit(r) PROVE ServerInv'
    <2>1. /\ [Next]_vars /\ UNCHANGED <<capsVars, server, phase>> /\ job' = job
          /\ worker' = worker \/ worker' = WakeWorkers
      BY <1>2 DEF Submit, Enqueue, EnqueueRefused, EnqueueAdmitted, Next, Serve
    <2>2. LifespanOK'
      BY <1>2, <2>1 DEF Submit, ServerInv, LifespanOK
    <2>3. \A v \in Workers : worker'[v] = "busy" <=> worker[v] = "busy"
      BY <2>1 DEF WakeWorkers
    <2>4. phase = "stopped" => worker' = worker
      BY <2>1 DEF ServerInv, WakeWorkers
    <2>. QED BY <2>1, <2>2, <2>3, <2>4, QuietStep
  <1>3. ASSUME NEW r \in Requests, Respond(r) PROVE ServerInv'
    <2>1. /\ [Next]_vars /\ UNCHANGED <<capsVars, server, phase>> /\ job' = job
          /\ worker' = worker
      BY <1>3 DEF Respond, Collect, Next, Serve
    <2>2. LifespanOK'
      BY <1>3, <2>1 DEF Respond, ServerInv, LifespanOK
    <2>. QED BY <2>1, <2>2, QuietStep
  <1>4. ASSUME NEW t \in Tiers, MaxWaitElapses(t), UNCHANGED <<capsVars, serverVars>> PROVE ServerInv'
    <2>1. [Next]_vars /\ job' = job /\ worker' = worker
      BY <1>4 DEF MaxWaitElapses, Next, Serve
    <2>2. LifespanOK' /\ phase' = phase
      BY <1>4 DEF ServerInv, LifespanOK, serverVars
    <2>. QED BY <1>4, <2>1, <2>2, QuietStep
  <1>5. ASSUME NEW w \in Workers, OtherPass(w) PROVE ServerInv'
    <2>1. [Next]_vars /\ job' = job /\ worker[w] = "ready"
      BY <1>5 DEF OtherPass, GoIdle, Expire, Next, Serve, WorkerStep
    <2>2. LifespanOK' /\ phase' = phase /\ UNCHANGED capsVars
      BY <1>5 DEF OtherPass, ServerInv, LifespanOK, serverVars
    <2>3. phase # "stopped" /\ TypeOK
      BY <2>1 DEF ServerInv, Held
    <2>4. \A v \in Workers : worker'[v] = "busy" <=> worker[v] = "busy"
      BY <1>5, <2>1, <2>3 DEF OtherPass, GoIdle, Expire, LoopHead, TypeOK
    <2>. QED BY <2>1, <2>2, <2>3, <2>4, QuietStep
  <1>6. ASSUME NEW w \in Workers, StartDispatch(w) \/ EnterUpstream(w) \/ FinishDispatch(w)
        PROVE  ServerInv'
    <2>1. CapsInv' /\ WorkersInCaps'
      BY <1>6, StartKeeps, EnterUpstreamKeeps, FinishKeeps
    <2>2. [Next]_vars /\ UNCHANGED serverVars
      BY <1>6 DEF StartDispatch, EnterUpstream, FinishDispatch, Next, Serve, WorkerStep
    <2>3. LifespanOK' /\ phase' = phase
      BY <2>2 DEF ServerInv, LifespanOK, serverVars
    <2>4. phase # "stopped"
      BY <1>6 DEF StartDispatch, EnterUpstream, FinishDispatch, Dispatch, ServerInv
    <2>. QED BY <2>1, <2>2, <2>3, <2>4, QueueStep DEF ServerInv
  <1>7. CASE Terminate \/ EndListener
    <2>1. UNCHANGED <<vars, capsVars, handler, phase>> /\ LifespanOK'
      BY <1>7 DEF Terminate, EndListener, ServerInv, LifespanOK
    <2>. QED BY <2>1, QuietStep DEF vars
  <1>8. CASE BeginShutdown
    <2>1. UNCHANGED <<vars, capsVars>> /\ LifespanOK' /\ phase = "serving" /\ phase' = "draining"
      BY <1>8 DEF BeginShutdown, ServerInv, LifespanOK
    <2>2. Held' /\ ActiveExact'
      BY <2>1, HeldStep, ActiveStep DEF ServerInv, Held
    <2>3. CapsInv'
      BY <2>1 DEF ServerInv, CapsInv, CapsTypeOK, CapSound, Parked, Sleepers, capsVars
    <2>4. WorkersInCaps'
      BY <2>1 DEF ServerInv, WorkersInCaps, Client, capsVars, vars
    <2>. QED BY <2>1, <2>2, <2>3, <2>4 DEF ServerInv
  <1>9. CASE StopWorkers
    <2>1. LifespanOK' /\ phase' = "stopped" /\ worker' = [w \in Workers |-> "stopped"]
      BY <1>9 DEF StopWorkers, ServerInv, LifespanOK
    <2>2. CapsInit'
      BY <1>9 DEF StopWorkers, CapsInit
    <2>3. CapsInv'
      BY <2>2, CapsStart, PTL
    <2>4. WorkersInCaps'
      BY <2>1, <2>2 DEF WorkersInCaps, CapsInit, ToSet
    <2>. QED BY <2>1, <2>3, <2>4 DEF ServerInv
  <1>10. CASE UNCHANGED allVars
    <2>1. UNCHANGED <<vars, capsVars, serverVars>> /\ LifespanOK'
      BY <1>10 DEF allVars, serverVars, ServerInv, LifespanOK
    <2>. QED BY <2>1, QuietStep DEF vars, serverVars
  <1>. QED BY <1>1, <1>2, <1>3, <1>4, <1>5, <1>6, <1>7, <1>8, <1>9, <1>10
           DEF ServerNext, ServerWorkerStep, Lifespan

LEMMA ServerStart == ServerInit => ServerInv
  <1> SUFFICES ASSUME ServerInit PROVE ServerInv
    OBVIOUS
  <1>1. Held /\ CapsInv
    BY HeldInit, CapsStart DEF ServerInit
  <1>2. LifespanOK /\ phase = "serving"
    BY DEF ServerInit, LifespanOK
  <1>3. \A w \in Workers : worker[w] = "waiting"
    BY DEF ServerInit, Init
  <1>4. WorkersInCaps
    BY <1>3 DEF ServerInit, CapsInit, WorkersInCaps, ToSet
  <1>5. ActiveExact
    <2>1. {w \in Workers : worker[w] = "busy"} = {}
      BY <1>3
    <2>. QED BY <2>1, FS_EmptySet DEF ServerInit, Init, ActiveExact
  <1>. QED BY <1>1, <1>2, <1>4, <1>5 DEF ServerInv

LEMMA ServerInvariant == ServerSpec => []ServerInv
  BY ServerStart, ServerStep, PTL DEF ServerSpec

\* The types of the handlers, the servers and the caps; the semaphore's value is
\* never negative.
THEOREM ServerTypeCorrect == ServerSpec => []ServerTypeOK
  <1>1. ServerInv => ServerTypeOK
    BY DEF ServerInv, LifespanOK, CapsInv, ServerTypeOK
  <1>. QED BY <1>1, ServerInvariant, PTL

\* Never more requests of a client upstream than its cap, on whatever path the
\* permits travelled.
THEOREM CapRespectedCorrect == ServerSpec => []CapRespected
  <1>1. ServerInv => CapRespected
    <2> SUFFICES ASSUME ServerInv, NEW c \in Clients, Cap[c] > 0
                 PROVE  Cardinality(inside[c]) <= Cap[c]
      BY DEF CapRespected
    <2>1. /\ permits[c] \in Nat /\ Cardinality(inside[c]) \in Nat
          /\ Cardinality(woken[c]) \in Nat /\ Cap[c] \in Nat
      BY CapsFinite DEF ServerInv
    <2>2. permits[c] + Cardinality(inside[c]) + Cardinality(woken[c]) = Cap[c]
      BY DEF ServerInv, CapsInv, CapSound
    <2>. QED BY <2>1, <2>2
  <1>. QED BY <1>1, ServerInvariant, PTL

\* inflight and cap_waiting count the tasks they stand for.
THEOREM CapCountersCorrect == ServerSpec => []CapCountersExact
  <1>1. ServerInv => CapCountersExact
    BY DEF ServerInv, CapsInv, CapSound, CapCountersExact
  <1>. QED BY <1>1, ServerInvariant, PTL

\* No permit is lost or made, and none lies free beside a task that only sleeps.
THEOREM PermitsConservedCorrect == ServerSpec => []PermitsConserved
  <1>1. ServerInv => PermitsConserved
    BY DEF ServerInv, CapsInv, CapSound, PermitsConserved
  <1>. QED BY <1>1, ServerInvariant, PTL

\* A worker is in the cap of a registered client exactly while it is inside
\* dispatch_fn() for it.
THEOREM WorkersInCapsCorrect == ServerSpec => []WorkersInCaps
  <1>1. ServerInv => WorkersInCaps
    BY DEF ServerInv
  <1>. QED BY <1>1, ServerInvariant, PTL

-----------------------------------------------------------------------------
(* The published figures                                                   *)

Pending == {r \in Requests : call[r] = "pending"}
Jobs == {job[w] : w \in Busy}

\* The depths of the tiers add up to the requests that wait.
LEMMA DepthsCount ==
  ASSUME Held
  PROVE  Summary.queued = Cardinality(AllWaiting)
  <1> DEFINE key == [r \in AllWaiting |-> TierOf[r]]
  <1>1. IsFiniteSet(AllWaiting) /\ AllWaiting \subseteq Requests
    BY WaitingFinite
  <1>2. key \in [AllWaiting -> Tiers]
    BY <1>1, TierOfAssumption
  <1>3. ASSUME NEW t \in Tiers
        PROVE  QueueDepths[t] = Cardinality({r \in AllWaiting : key[r] = t})
    <2>1. queue[t] \in Seq(Requests) /\ \A i, j \in DOMAIN queue[t] : queue[t][i] = queue[t][j] => i = j
      BY DEF Held, TypeOK, QueuesSound
    <2>2. Cardinality(ToSet(queue[t])) = Len(queue[t])
      BY <2>1, DistinctLength
    <2>3. ToSet(queue[t]) = {r \in AllWaiting : key[r] = t}
      <3>1. \A x : x \in ToSet(queue[t]) <=> \E i \in DOMAIN queue[t] : queue[t][i] = x
        BY DEF ToSet
      <3>2. \A x \in AllWaiting : key[x] = t <=> \E i \in DOMAIN queue[t] : queue[t][i] = x
        BY WaitingMember, QueuedFacts
      <3>3. \A x \in ToSet(queue[t]) : x \in AllWaiting
        BY <3>1, WaitingMember
      <3>. HIDE DEF key
      <3>. QED BY <3>1, <3>2, <3>3
    <2>. QED BY <2>2, <2>3 DEF QueueDepths
  <1> HIDE DEF key
  <1>4. Counts(QueueDepths, Tiers, key, AllWaiting)
    BY <1>3 DEF Counts
  <1>5. IsFiniteSet(Tiers)
    <2>1. IsFiniteSet({"high"}) /\ IsFiniteSet({"high"} \union {"normal"})
          /\ IsFiniteSet(({"high"} \union {"normal"}) \union {"low"})
      BY FS_Singleton, FS_AddElement
    <2>2. Tiers = ({"high"} \union {"normal"}) \union {"low"}
      BY DEF Tiers
    <2>. QED BY <2>1, <2>2
  <1>6. Total(QueueDepths, Tiers) = Cardinality(AllWaiting)
    BY <1>1, <1>2, <1>4, <1>5, TotalOfCounts
  <1>. QED BY <1>6 DEF Summary, Total

\* Those who wait for an answer are the requests that wait and the busy workers.
LEMMA PendingCount ==
  ASSUME Held, ActiveExact
  PROVE  Cardinality(Pending) = Cardinality(AllWaiting) + active
  <1>1. IsFiniteSet(Busy) /\ active = Cardinality(Busy)
    BY WorkersAssumption, FS_Subset DEF Busy, ActiveExact
  <1>2. \A w \in Busy : w \in Workers /\ job[w] \in Requests /\ call[job[w]] = "pending"
    BY DEF Held, TypeOK, JobsSound, Busy
  <1>3. IsFiniteSet(Jobs) /\ Cardinality(Jobs) = active
    <2> DEFINE f == [w \in Busy |-> job[w]]
    <2>1. f \in [Busy -> Requests]
      BY <1>2
    <2>2. Injective(f, Busy)
      BY <1>2 DEF Injective, Held, JobsSound, Busy
    <2>3. Image(f, Busy) = Jobs
      BY DEF Image, Jobs
    <2> HIDE DEF f
    <2>. QED BY <1>1, <2>1, <2>2, <2>3, ImageCardinality
  <1>4. Jobs \intersect AllWaiting = {}
    <2> SUFFICES ASSUME NEW w \in Busy, job[w] \in AllWaiting PROVE FALSE
      BY DEF Jobs
    <2>1. \E t \in Tiers : \E i \in DOMAIN queue[t] : queue[t][i] = job[w]
      BY WaitingMember
    <2>. QED BY <2>1 DEF Held, JobsSound, Busy
  <1>5. Pending = AllWaiting \union Jobs
    <2>1. AllWaiting \subseteq Pending
      BY WaitingMember, QueuedFacts DEF Pending
    <2>2. Jobs \subseteq Pending
      BY <1>2 DEF Jobs, Pending
    <2>3. ASSUME NEW r \in Pending PROVE r \in AllWaiting \union Jobs
      <3>1. TierOf[r] \in Tiers /\ r \in Requests /\ r # None
        BY TierOfAssumption, RequestsAssumption DEF Pending
      <3>2. CASE \E i \in DOMAIN queue[TierOf[r]] : queue[TierOf[r]][i] = r
        BY <3>1, <3>2, WaitingMember
      <3>3. CASE \E w \in Workers : job[w] = r
        BY <3>1, <3>3 DEF Held, JobsSound, Jobs, Busy
      <3>. QED BY <3>1, <3>2, <3>3 DEF Held, PendingHeld, Pending
    <2>. QED BY <2>1, <2>2, <2>3
  <1>. QED BY <1>3, <1>4, <1>5, WaitingFinite, DisjointUnion

\* The counters of the clients add up to the busy workers that serve a registered
\* client.
LEMMA ClientsCount ==
  ASSUME ServerInv, phase # "stopped"
  PROVE  Cardinality(Busy) = ClientMetrics.inflight + ClientMetrics.cap_waiting
                                + Cardinality(Unaccounted)
  <1> DEFINE Accounted == {w \in Busy : Client(w) \in Clients}
             Entered == {w \in Accounted : w \in inside[Client(w)]}
             Asleep == {w \in Accounted : w \in Parked(Client(w))}
  <1>1. \A w \in Accounted : w \in Workers /\ Client(w) \in Clients
    BY DEF Busy
  <1>2. \A w \in Workers, c \in Clients : InCap(w, c)
    BY WorkersInCapsAs DEF ServerInv
  <1>3. Accounted = Entered \union Asleep /\ Entered \intersect Asleep = {}
    BY <1>1, <1>2 DEF InCap, Busy
  <1>3a. Busy = Accounted \union Unaccounted /\ Accounted \intersect Unaccounted = {}
    BY DEF Busy, Unaccounted
  <1>4. /\ IsFiniteSet(Accounted) /\ IsFiniteSet(Unaccounted)
        /\ IsFiniteSet(Entered) /\ IsFiniteSet(Asleep)
    BY WorkersAssumption, FS_Subset DEF Busy, Unaccounted
  <1>5. Total(inflight, Clients) = Cardinality(Entered)
    <2> DEFINE key == [w \in Entered |-> Client(w)]
    <2>1. key \in [Entered -> Clients]
      BY <1>1
    <2>2. ASSUME NEW c \in Clients PROVE inside[c] = {w \in Entered : key[w] = c}
      <3>1. inside[c] \subseteq Workers
        BY CapsFinite, ServerAssumption DEF ServerInv
      <3>. QED BY <1>2, <3>1 DEF InCap, Busy
    <2>3. \A c \in Clients : inflight[c] = Cardinality(inside[c])
      BY DEF ServerInv, CapsInv, CapSound
    <2> HIDE DEF key
    <2>4. Counts(inflight, Clients, key, Entered)
      BY <2>2, <2>3 DEF Counts
    <2> HIDE DEF Entered
    <2>. QED BY <1>4, <2>1, <2>4, ClientsAssumption, TotalOfCounts
  <1>6. Total(cap_waiting, Clients) = Cardinality(Asleep)
    <2> DEFINE key == [w \in Asleep |-> Client(w)]
    <2>1. key \in [Asleep -> Clients]
      BY <1>1
    <2>2. ASSUME NEW c \in Clients PROVE Parked(c) = {w \in Asleep : key[w] = c}
      <3>1. Parked(c) \subseteq Workers
        BY CapsFinite, ServerAssumption DEF ServerInv
      <3>. QED BY <1>2, <3>1 DEF InCap, Busy
    <2>3. ASSUME NEW c \in Clients PROVE cap_waiting[c] = Cardinality(Parked(c))
      <3>1. CapSound(c) /\ waiters[c] \in Seq(Tasks)
        BY CapsFinite DEF ServerInv, CapsInv
      <3>2. Cardinality(ToSet(waiters[c])) = Len(waiters[c])
        BY <3>1, DistinctLength DEF CapSound
      <3>. QED BY <3>1, <3>2 DEF CapSound, Parked
    <2> HIDE DEF key
    <2>4. Counts(cap_waiting, Clients, key, Asleep)
      BY <2>2, <2>3 DEF Counts
    <2> HIDE DEF Asleep
    <2>. QED BY <1>4, <2>1, <2>4, ClientsAssumption, TotalOfCounts
  <1> HIDE DEF Accounted, Entered, Asleep
  <1>7. Cardinality(Accounted) = Cardinality(Entered) + Cardinality(Asleep)
    BY <1>3, <1>4, DisjointUnion
  <1>8. Cardinality(Busy) = Cardinality(Accounted) + Cardinality(Unaccounted)
    BY <1>3a, <1>4, DisjointUnion
  <1>. QED BY <1>5, <1>6, <1>7, <1>8 DEF ClientMetrics, Total

\* What the status endpoints and the metrics publish adds up: the figures of the
\* clients fall short of the active requests by those of unregistered clients, and
\* by nothing else.
THEOREM FiguresAddUpCorrect == ServerSpec => []FiguresAddUp
  <1>1. ServerInv => FiguresAddUp
    <2> SUFFICES ASSUME ServerInv, phase # "stopped"
                 PROVE  /\ Summary.queued + Summary.active = Cardinality(Pending)
                        /\ Summary.active <= Summary.max_concurrent
                        /\ Summary.active = ClientMetrics.inflight + ClientMetrics.cap_waiting
                                               + Cardinality(Unaccounted)
      BY DEF FiguresAddUp, Pending
    <2>1. Held /\ ActiveExact /\ active = Cardinality(Busy)
      BY DEF ServerInv, ActiveExact, Busy
    <2>2. Summary.active = active /\ Summary.max_concurrent = Cardinality(Workers)
      BY DEF Summary
    <2>3. Cardinality(Busy) <= Cardinality(Workers)
      BY WorkersAssumption, FS_Subset DEF Busy
    <2>. QED BY <2>1, <2>2, <2>3, DepthsCount, PendingCount, ClientsCount
  <1>. QED BY <1>1, ServerInvariant, PTL

-----------------------------------------------------------------------------
(* Shutdown                                                                *)

\* The order of a shutdown: the main port closes after the listener that got the
\* signal has answered its requests, and the lifespan ends after the main port
\* has answered its own; only the handler of a request has a call outstanding.
ShutdownOrder ==
    /\ DOMAIN call = Requests
    /\ \A r \in Requests : handler[r] # "awaiting" => call[r] = "idle"
    /\ server["main"] # "open" /\ "last" \in Ports => server["last"] = "ended" /\ Idle("last")
    /\ phase # "serving" => server["main"] # "open" /\ Idle("main")

\* Nothing arrives at a port that is not open.
LEMMA IdleStays ==
  ASSUME ServerInv, [ServerNext]_allVars, NEW p \in Ports, Idle(p), server[p] # "open"
  PROVE  Idle(p)'
  <1> SUFFICES ASSUME NEW r \in Requests, PortOf[r] = p PROVE handler'[r] = "idle"
    BY DEF Idle
  <1>1. handler[r] = "idle" /\ handler \in [Requests -> {"idle", "reading", "awaiting"}]
    BY DEF Idle, ServerInv, LifespanOK
  <1>2. \/ handler' = handler
        \/ \E q \in Requests : \/ Arrive(q)
                               \/ handler[q] = "reading" /\ handler' = [handler EXCEPT ![q] = "idle"]
                               \/ handler[q] = "reading" /\ handler' = [handler EXCEPT ![q] = "awaiting"]
                               \/ handler[q] = "awaiting" /\ handler' = [handler EXCEPT ![q] = "idle"]
    BY DEF ServerNext, AnswerUnqueued, Submit, Respond, ServerWorkerStep, StartDispatch,
           EnterUpstream, FinishDispatch, OtherPass, Terminate, Lifespan, EndListener,
           BeginShutdown, StopWorkers, allVars, serverVars
  <1>. QED BY <1>1, <1>2 DEF Arrive

\* A worker answers only a request whose handler awaits it.
LEMMA AnswersAwaited ==
  ASSUME ServerInv, ShutdownOrder, NEW w \in Workers, ServerWorkerStep(w)
  PROVE  \A r \in Requests : handler'[r] # "awaiting" => call'[r] = "idle"
  <1> SUFFICES ASSUME NEW r \in Requests, handler'[r] # "awaiting" PROVE call'[r] = "idle"
    OBVIOUS
  <1>1. call[r] = "idle"
    BY DEF ShutdownOrder, ServerWorkerStep, StartDispatch, EnterUpstream, FinishDispatch,
           OtherPass, serverVars
  <1>2. CASE StartDispatch(w) \/ EnterUpstream(w) \/ GoIdle(w)
    BY <1>1, <1>2 DEF StartDispatch, Dispatch, EnterUpstream, vars, GoIdle
  <1>3. ASSUME NEW t \in Tiers, Expire(w, t) PROVE call'[r] = "idle"
    <2>1. Held
      BY <1>3 DEF Expire, ServerInv
    <2>2. PICK q \in Requests : Take(t, q) /\ call' = [call EXCEPT ![q] = "expired"]
      BY <1>3 DEF Expire
    <2>3. call[q] = "pending"
      <3>1. queue[t] \in Seq(Requests) /\ queue[t] # <<>> /\ q = queue[t][1]
        BY <2>1, <2>2, TakeFacts DEF Held
      <3>2. 1 \in DOMAIN queue[t]
        BY <3>1, TailFacts
      <3>. QED BY <2>1, <3>1, <3>2, QueuedFacts
    <2>. QED BY <1>1, <2>1, <2>2, <2>3 DEF Held, TypeOK
  <1>4. CASE FinishDispatch(w)
    <2>1. PICK outcome \in {"result", "error"} : Complete(w, outcome)
      BY <1>4 DEF FinishDispatch
    <2>2. Held /\ job[w] # None
      BY <2>1 DEF Complete, ServerInv, Held, JobsSound
    <2>3. call[job[w]] = "pending" /\ call' = [call EXCEPT ![job[w]] = outcome]
      BY <2>1, <2>2 DEF Complete, Held, JobsSound
    <2>. QED BY <1>1, <2>2, <2>3 DEF Held, TypeOK
  <1>. QED BY <1>2, <1>3, <1>4 DEF ServerWorkerStep, OtherPass

LEMMA ShutdownOrderStep ==
  ASSUME Ports \subseteq {"main", "last"}
  PROVE  ServerInv /\ ShutdownOrder /\ [ServerNext]_allVars => ShutdownOrder'
  <1> SUFFICES ASSUME ServerInv, ShutdownOrder, [ServerNext]_allVars PROVE ShutdownOrder'
    OBVIOUS
  <1>1. "main" \in Ports /\ Signalled \in Ports
    BY ServerAssumption DEF Signalled
  <1>0. /\ handler \in [Requests -> {"idle", "reading", "awaiting"}]
        /\ server \in [Ports -> {"open", "ending", "ended"}]
        /\ phase \in {"serving", "draining", "stopped"}
    BY DEF ServerInv, LifespanOK
  <1>2. \A r \in Requests : handler'[r] # "awaiting" => call'[r] = "idle"
    <2>1. ASSUME NEW q \in Requests, Arrive(q) \/ AnswerUnqueued(q)
          PROVE  \A r \in Requests : handler'[r] # "awaiting" => call'[r] = "idle"
      BY <1>0, <2>1 DEF ShutdownOrder, Arrive, AnswerUnqueued, vars
    <2>2. ASSUME NEW q \in Requests, Submit(q)
          PROVE  \A r \in Requests : handler'[r] # "awaiting" => call'[r] = "idle"
      <3>1. \A r \in Requests \ {q} : call'[r] = call[r] /\ handler'[r] = handler[r]
        <4>1. \E answer : call' = [call EXCEPT ![q] = answer]
          BY <2>2 DEF Submit, Enqueue, EnqueueRefused, EnqueueAdmitted
        <4>. QED BY <1>0, <2>2, <4>1 DEF Submit, ShutdownOrder
      <3>. QED BY <1>0, <2>2, <3>1 DEF ShutdownOrder, Submit
    <2>3. ASSUME NEW q \in Requests, Respond(q)
          PROVE  \A r \in Requests : handler'[r] # "awaiting" => call'[r] = "idle"
      <3>1. \A r \in Requests \ {q} : call'[r] = call[r] /\ handler'[r] = handler[r]
        BY <1>0, <2>3 DEF Respond, Collect, ShutdownOrder
      <3>2. call'[q] = "idle"
        BY <2>3 DEF Respond, Collect, ShutdownOrder
      <3>. QED BY <3>1, <3>2 DEF ShutdownOrder
    <2>4. CASE handler' = handler /\ call' = call
      BY <2>4 DEF ShutdownOrder
    <2>. QED BY <2>1, <2>2, <2>3, <2>4, AnswersAwaited
         DEF ServerNext, MaxWaitElapses, Terminate, Lifespan, EndListener, BeginShutdown,
             StopWorkers, allVars, serverVars, vars
  <1>5. DOMAIN call' = Requests
    <2>1. ASSUME NEW r \in Requests, Submit(r) \/ Respond(r) PROVE DOMAIN call' = Requests
      BY <2>1 DEF ShutdownOrder, Submit, Enqueue, EnqueueRefused, EnqueueAdmitted, Respond, Collect
    <2>2. ASSUME NEW w \in Workers, ServerWorkerStep(w) PROVE DOMAIN call' = Requests
      BY <2>2 DEF ShutdownOrder, ServerWorkerStep, StartDispatch, Dispatch, EnterUpstream,
                  FinishDispatch, Complete, OtherPass, GoIdle, Expire, vars
    <2>3. CASE call' = call
      BY <2>3 DEF ShutdownOrder
    <2>. QED BY <2>1, <2>2, <2>3
         DEF ServerNext, Arrive, AnswerUnqueued, MaxWaitElapses, Terminate, Lifespan, EndListener,
             BeginShutdown, StopWorkers, allVars, vars
  <1>3. server'["main"] # "open" /\ "last" \in Ports => server'["last"] = "ended" /\ Idle("last")'
    <2> SUFFICES ASSUME server'["main"] # "open", "last" \in Ports
                 PROVE  server'["last"] = "ended" /\ Idle("last")'
      OBVIOUS
    <2>1. CASE server["main"] # "open"
      <3>1. server["last"] = "ended" /\ Idle("last")
        BY <2>1 DEF ShutdownOrder
      <3>2. Idle("last")'
        BY <3>1, IdleStays
      <3>3. server'["last"] = "ended"
        BY <1>0, <1>1, <3>1
           DEF ServerNext, Arrive, AnswerUnqueued, Submit, Respond, ServerWorkerStep, StartDispatch,
               EnterUpstream, FinishDispatch, OtherPass, Terminate, Lifespan, EndListener,
               BeginShutdown, StopWorkers, allVars, serverVars, Signalled
      <3>. QED BY <3>2, <3>3
    <2>2. CASE server["main"] = "open"
      <3>1. EndListener
        BY <1>0, <1>1, <2>2
           DEF ServerNext, Arrive, AnswerUnqueued, Submit, Respond, ServerWorkerStep, StartDispatch,
               EnterUpstream, FinishDispatch, OtherPass, Terminate, Lifespan,
               BeginShutdown, StopWorkers, allVars, serverVars, Signalled
      <3>. QED BY <3>1 DEF EndListener, Signalled, Idle
    <2>. QED BY <2>1, <2>2
  <1>4. phase' # "serving" => server'["main"] # "open" /\ Idle("main")'
    <2> SUFFICES ASSUME phase' # "serving" PROVE server'["main"] # "open" /\ Idle("main")'
      OBVIOUS
    <2>1. server["main"] # "open" /\ Idle("main")
      BY DEF ShutdownOrder, ServerNext, Arrive, AnswerUnqueued, Submit, Respond, ServerWorkerStep,
             StartDispatch, EnterUpstream, FinishDispatch, OtherPass, Terminate, Lifespan,
             EndListener, BeginShutdown, StopWorkers, allVars, serverVars
    <2>2. Idle("main")'
      BY <1>1, <2>1, IdleStays
    <2>3. server'["main"] # "open"
      BY <1>0, <1>1, <2>1
         DEF ServerNext, Arrive, AnswerUnqueued, Submit, Respond, ServerWorkerStep, StartDispatch,
             EnterUpstream, FinishDispatch, OtherPass, Terminate, Lifespan, EndListener,
             BeginShutdown, StopWorkers, allVars, serverVars
    <2>. QED BY <2>2, <2>3
  <1>. QED BY <1>2, <1>3, <1>4, <1>5 DEF ShutdownOrder

\* With injection listeners of which only the last started serves requests, or
\* with none, a shutdown leaves no handler waiting for an answer that nobody is
\* left to give.  (With requests on another listener it may: the run
\* shutdown_injection.)
THEOREM ShutdownStrandsNobodyCorrect ==
  ASSUME Ports \subseteq {"main", "last"}
  PROVE  ServerSpec => []ShutdownStrandsNobody
  <1>1. ServerInit => ShutdownOrder
    <2> SUFFICES ASSUME ServerInit PROVE ShutdownOrder
      OBVIOUS
    <2>1. "main" \in Ports /\ phase = "serving" /\ \A p \in Ports : server[p] = "open"
      BY ServerAssumption DEF ServerInit
    <2>2. DOMAIN call = Requests /\ \A r \in Requests : call[r] = "idle"
      BY DEF ServerInit, Init
    <2>. QED BY <2>1, <2>2 DEF ShutdownOrder
  <1>2. ServerInv /\ ShutdownOrder => ShutdownStrandsNobody
    <2> SUFFICES ASSUME ServerInv, ShutdownOrder, phase = "stopped", NEW r \in Requests
                 PROVE  call[r] # "pending"
      BY DEF ShutdownStrandsNobody
    <2>1. PortOf[r] = "main" \/ (PortOf[r] = "last" /\ "last" \in Ports)
      BY ServerAssumption
    <2>2. handler[r] = "idle"
      BY <2>1 DEF ShutdownOrder, Idle
    <2>. QED BY <2>2 DEF ShutdownOrder
  <1>. QED BY <1>1, <1>2, ServerInvariant, ShutdownOrderStep, PTL DEF ServerSpec
=============================================================================
