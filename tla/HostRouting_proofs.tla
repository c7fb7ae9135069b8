------------------------- MODULE HostRouting_proofs -------------------------
(***************************************************************************)
(* Proofs about HostRouting, for every list of hosts, all weights and any   *)
(* number of requests and models.                                          *)
(*                                                                         *)
(* What the rotation needs is a fact about the weight-expanded list: each   *)
(* host of it occurs as often as its weight says.  The list is a            *)
(* concatenation, so the fact is one about chains of sequences.            *)
(***************************************************************************)
EXTENDS HostRouting, CountingLemmas

-----------------------------------------------------------------------------
(* The weight-expanded list                                                *)

HostSets == (SUBSET Hosts) \ {{}}

\* What the host at a place of the configured order adds to the list.
Block(S, i) ==
    IF HostOrder[i] \in S THEN [k \in 1 .. Weight[HostOrder[i]] |-> HostOrder[i]] ELSE <<>>

Blocks(S) == [i \in 1 .. Len(HostOrder) |-> Block(S, i)]

LEMMA OrderFacts ==
  /\ Len(HostOrder) \in Nat \ {0}
  /\ DOMAIN HostOrder = 1 .. Len(HostOrder)
  /\ \A i \in 1 .. Len(HostOrder) : HostOrder[i] \in Hosts
  /\ \A h \in Hosts : \E i \in 1 .. Len(HostOrder) : HostOrder[i] = h
  /\ \A i, j \in 1 .. Len(HostOrder) : HostOrder[i] = HostOrder[j] => i = j
  <1>1. Len(HostOrder) \in Nat \ {0} /\ DOMAIN HostOrder = 1 .. Len(HostOrder)
    BY HostsAssumption
  <1>2. \A i, j \in DOMAIN HostOrder : HostOrder[i] = HostOrder[j] => i = j
    BY HostsAssumption DEF IsInjective
  <1>. QED BY <1>1, <1>2 DEF Hosts, Range

\* A block holds one host, as often as its weight says.
LEMMA BlockFacts ==
  ASSUME NEW S \in HostSets, NEW i \in 1 .. Len(HostOrder)
  PROVE  /\ Block(S, i) \in Seq(S)
         /\ \A h \in S : HowMany(Block(S, i), h) = IF HostOrder[i] = h THEN Weight[h] ELSE 0
  <1>1. HostOrder[i] \in Hosts /\ Weight[HostOrder[i]] \in Nat
    BY OrderFacts, HostsAssumption
  <1>2. CASE HostOrder[i] \in S
    <2> DEFINE v == HostOrder[i]
               n == Weight[v]
    <2>1. n \in Nat /\ v \in S
      BY <1>1, <1>2
    <2>2. Block(S, i) = [k \in 1 .. n |-> v]
      BY <1>2 DEF Block
    <2>3. \A h \in S : v = h => Weight[h] = n
      OBVIOUS
    <2>. HIDE DEF v, n
    <2>4. /\ Block(S, i) \in Seq(S) /\ Len(Block(S, i)) = n
          /\ \A k \in 1 .. n : Block(S, i)[k] = v
      BY <2>1, <2>2
    <2>5. \A h \in S : HowMany(Block(S, i), h) = IF h = v THEN n ELSE 0
      BY <2>4, ConstantCount
    <2>. QED BY <2>3, <2>4, <2>5 DEF v
  <1>3. CASE HostOrder[i] \notin S
    <2>1. Block(S, i) = <<>>
      BY <1>3 DEF Block
    <2>2. \A h : HowMany(<<>>, h) = 0
      BY FS_EmptySet DEF HowMany, Occurrences
    <2>. QED BY <1>3, <2>1, <2>2
  <1>. QED BY <1>2, <1>3

\* Each host of the list occurs in it as often as its weight says.
LEMMA WeightedListFacts ==
  ASSUME NEW S \in HostSets
  PROVE  /\ WeightedList[S] \in Seq(S)
         /\ \A h \in S : HowMany(WeightedList[S], h) = Weight[h]
         /\ Len(WeightedList[S]) # 0
  <1> DEFINE n == Len(HostOrder)
  <1>1. n \in Nat \ {0} /\ n \in 1 .. n
    BY OrderFacts
  <1>2. WeightedList[S] = FlattenSeq(Blocks(S))
    BY OrderFacts, Zenon DEF WeightedList, Blocks, Block, HostSets
  <1>3. Blocks(S) \in [1 .. n -> Seq(S)] /\ \A i \in 1 .. n : Blocks(S)[i] = Block(S, i)
    BY BlockFacts DEF Blocks
  <1>. HIDE DEF n
  <1>4. PICK f \in [1 .. n -> Seq(S)] :
            Chain(f, n, Blocks(S)) /\ FlattenSeq(Blocks(S)) = f[n]
    BY <1>1, <1>3, FlattenIs
  <1>5. ASSUME NEW h \in S PROVE HowMany(f[n], h) = Weight[h]
    <2>1. PICK j \in 1 .. n : HostOrder[j] = h
      BY OrderFacts DEF HostSets, n
    <2>2. \A i \in 1 .. n : HowMany(Block(S, i), h) = IF i = j THEN Weight[h] ELSE 0
      BY <2>1, OrderFacts, BlockFacts DEF n
    <2>3. Weight[h] \in Nat
      BY HostsAssumption DEF HostSets
    <2> DEFINE Expected(m) == IF j <= m THEN Weight[h] ELSE 0
               T == {m \in 1 .. n : HowMany(f[m], h) # Expected(m)}
    <2>4. T = {}
      <3>. SUFFICES ASSUME T # {} PROVE FALSE
        OBVIOUS
      <3>1. PICK m \in T : \A k \in T : m <= k
        <4>1. T \subseteq Nat
          OBVIOUS
        <4>. HIDE DEF T
        <4>. QED BY <4>1, LeastNat
      <3>2. CASE m = 1
        <4>1. f[m] = Block(S, m)
          BY <1>3, <1>4, <3>1, <3>2 DEF Chain
        <4>2. HowMany(f[m], h) = Expected(m)
          BY <2>1, <2>2, <3>1, <3>2, <4>1
        <4>. QED BY <3>1, <4>2
      <3>3. CASE m # 1
        <4>1. m \in 1 .. n /\ m - 1 \in 1 .. n /\ m - 1 \notin T
          <5>1. m \in 1 .. n
            OBVIOUS
          <5>. HIDE DEF T
          <5>. QED BY <1>1, <3>1, <3>3, <5>1
        <4>2. f[m] = f[m - 1] \o Block(S, m)
          BY <1>3, <1>4, <3>3, <4>1 DEF Chain
        <4>3. f[m - 1] \in Seq(S) /\ Block(S, m) \in Seq(S)
          BY <1>3, <4>1
        <4>4. HowMany(f[m], h) = HowMany(f[m - 1], h) + HowMany(Block(S, m), h)
          BY <4>2, <4>3, ConcatCount
        <4>5. HowMany(f[m - 1], h) = Expected(m - 1)
          BY <4>1
        <4>6. HowMany(Block(S, m), h) = IF m = j THEN Weight[h] ELSE 0
          BY <2>2, <4>1
        <4>7. HowMany(f[m], h) = Expected(m)
          BY <2>1, <2>3, <4>1, <4>4, <4>5, <4>6
        <4>. QED BY <3>1, <4>7
      <3>. QED BY <3>2, <3>3
    <2>. QED BY <1>1, <2>1, <2>4
  <1>6. f[n] \in Seq(S)
    BY <1>1, <1>4
  <1>7. Len(f[n]) # 0
    <2>1. PICK h \in S : TRUE
      BY DEF HostSets
    <2>2. Weight[h] # 0
      BY HostsAssumption DEF HostSets
    <2>3. Occurrences(f[n], h) # {}
      BY <1>5, <2>2, FS_EmptySet DEF HowMany
    <2>. QED BY <1>6, <2>3 DEF Occurrences
  <1>. QED BY <1>2, <1>4, <1>5, <1>6, <1>7

LEMMA TurnIn ==
  ASSUME NEW S \in HostSets, NEW count \in Nat
  PROVE  Turn(S, count) \in S
  <1> DEFINE list == WeightedList[S]
             l == Len(list)
  <1>1. list \in Seq(S) /\ l \in Nat \ {0}
    BY WeightedListFacts
  <1>2. (count % l) + 1 \in 1 .. l
    <2>. HIDE DEF l
    <2>. QED BY <1>1, DivMod
  <1>3. list[(count % l) + 1] \in S
    <2>. HIDE DEF list
    <2>. QED BY <1>1, <1>2, ElementOfSeq
  <1>. QED BY <1>3 DEF Turn

-----------------------------------------------------------------------------
(* Choosing a host                                                         *)

LEMMA EligibleFacts ==
  ASSUME NEW r, NEW live \in SUBSET Hosts
  PROVE  /\ Eligible(r, live) \in HostSets
         /\ Eligible(r, live) \subseteq Candidates(live)
         /\ live # {} => Candidates(live) = live
  <1>1. Candidates(live) \in HostSets
    <2>1. Hosts # {}
      BY OrderFacts
    <2>. QED BY <2>1 DEF Candidates, HostSets
  <1>. QED BY <1>1 DEF Eligible, Candidates, HostSets

\* The table that Advance() consults, and what is in flight.
TableOK ==
    /\ reachable \subseteq Hosts
    /\ installed \in [Hosts -> SUBSET Models]
    /\ rr_counter \in 0 .. RRPeriod - 1
PollsOK ==
    /\ poll \in [Hosts -> {"sleeping", "answered", "failed"}]
    /\ listed \in [Hosts -> SUBSET Models]
AttemptsOK ==
    /\ dispatch \in [Requests -> Fates \union Endings]
    /\ host \in [Requests -> Hosts \union {NoHost}]
    /\ attempted \in [Requests -> SUBSET Hosts]
    /\ \A r \in Requests : host[r] \in attempted[r] \union {NoHost}
WorldOK ==
    /\ up \subseteq Hosts
    /\ on_disk \in [Hosts -> SUBSET Models]

Sound == TableOK /\ PollsOK /\ AttemptsOK /\ WorldOK

LEMMA SoundIsType == RoutingTypeOK <=> Sound
  BY DEF RoutingTypeOK, Sound, TableOK, PollsOK, AttemptsOK, WorldOK

LEMMA EndedKeeps ==
  ASSUME AttemptsOK, NEW r \in Requests, NEW how \in Endings, Ended(r, how)
  PROVE  AttemptsOK'
  BY DEF AttemptsOK, Ended

\* One turn of the loop picks a host among the candidates; where one is marked
\* reachable it picks such a host.
LEMMA AdvanceFacts ==
  ASSUME AttemptsOK, rr_counter \in 0 .. RRPeriod - 1,
         NEW r \in Requests, NEW live \in SUBSET Hosts, NEW tried \in SUBSET Hosts,
         Advance(r, live, tried)
  PROVE  /\ AttemptsOK'
         /\ rr_counter' \in 0 .. RRPeriod - 1
         /\ \A q \in Requests \ {r} : attempted'[q] = attempted[q]
         /\ \/ attempted'[r] = {}
            \/ live # {} => host'[r] \in live
  <1> DEFINE h == Turn(Eligible(r, live), rr_counter)
  <1>0. RRPeriod \in Nat \ {0} /\ rr_counter \in Nat
    BY PeriodAssumption
  <1>1. h \in Eligible(r, live)
    BY <1>0, EligibleFacts, TurnIn
  <1>2. h \in Hosts /\ (live # {} => h \in live)
    BY <1>1, EligibleFacts DEF HostSets
  <1>3. /\ rr_counter' = (rr_counter + 1) % RRPeriod
        /\ \/ Ended(r, "exhausted")
           \/ /\ dispatch' = [dispatch EXCEPT ![r] = Fate(r, h)]
              /\ host' = [host EXCEPT ![r] = h]
              /\ attempted' = [attempted EXCEPT ![r] = tried \union {h}]
    BY Zenon DEF Advance
  <1>4. Fate(r, h) \in Fates
    <2>1. Fate(r, h) \in {"refused", "missing", "served"}
      BY Zenon DEF Fate
    <2>. QED BY <2>1 DEF Fates
  <1>. HIDE DEF h
  <1>5. rr_counter' \in 0 .. RRPeriod - 1
    BY <1>0, <1>3, DivMod
  <1>6. CASE Ended(r, "exhausted")
    <2>1. AttemptsOK'
      BY <1>6, EndedKeeps DEF Endings
    <2>2. /\ attempted'[r] = {}
          /\ \A q \in Requests \ {r} : attempted'[q] = attempted[q]
      BY <1>6 DEF Ended, AttemptsOK
    <2>. QED BY <1>5, <2>1, <2>2
  <1>7. CASE /\ dispatch' = [dispatch EXCEPT ![r] = Fate(r, h)]
             /\ host' = [host EXCEPT ![r] = h]
             /\ attempted' = [attempted EXCEPT ![r] = tried \union {h}]
    <2>1. AttemptsOK'
      BY <1>2, <1>4, <1>7 DEF AttemptsOK
    <2>2. /\ host'[r] = h
          /\ \A q \in Requests \ {r} : attempted'[q] = attempted[q]
      BY <1>7 DEF AttemptsOK
    <2>. QED BY <1>2, <1>5, <2>1, <2>2
  <1>. QED BY <1>3, <1>6, <1>7

-----------------------------------------------------------------------------
(* The invariant                                                           *)

LEMMA RoutingStart == Init => Sound
  <1>1. RRPeriod \in Nat \ {0}
    BY PeriodAssumption
  <1>. QED BY <1>1 DEF Init, Sound, TableOK, PollsOK, AttemptsOK, WorldOK, Endings

\* What the steps of the failover loop do to the table.
LEMMA MarkedFacts ==
  ASSUME TableOK, NEW h, NEW model
  PROVE  /\ MarkedUnhealthy(h) \in SUBSET Hosts
         /\ Invalidated(h, model) \in [Hosts -> SUBSET Models]
  BY DEF TableOK, MarkedUnhealthy, Invalidated

LEMMA RoutingStep == Sound /\ [Next]_vars => Sound'
  <1>. SUFFICES ASSUME Sound, [Next]_vars PROVE Sound'
    OBVIOUS
  <1>. USE DEF Sound
  <1>1. ASSUME UNCHANGED tableVars PROVE TableOK'
    BY <1>1 DEF tableVars, TableOK
  <1>2. ASSUME UNCHANGED pollVars PROVE PollsOK'
    BY <1>2 DEF pollVars, PollsOK
  <1>3. ASSUME UNCHANGED attemptVars PROVE AttemptsOK'
    BY <1>3 DEF attemptVars, AttemptsOK
  <1>4. ASSUME UNCHANGED worldVars PROVE WorldOK'
    BY <1>4 DEF worldVars, WorldOK
  <1>5. ASSUME NEW r \in Requests, Begin(r) PROVE Sound'
    <2>1. AttemptsOK' /\ rr_counter' \in 0 .. RRPeriod - 1
      BY <1>5, AdvanceFacts DEF Begin, TableOK
    <2>2. TableOK'
      BY <1>5, <2>1 DEF Begin, TableOK
    <2>. QED BY <1>2, <1>4, <1>5, <2>1, <2>2 DEF Begin
  <1>6. ASSUME NEW r \in Requests, Relay(r) PROVE Sound'
    BY <1>1, <1>2, <1>4, <1>6, EndedKeeps DEF Relay, Endings
  <1>7. ASSUME NEW r \in Requests, RelayMissing(r) PROVE Sound'
    <2>1. AttemptsOK'
      BY <1>7, EndedKeeps DEF RelayMissing, Endings
    <2>2. TableOK'
      BY <1>7, MarkedFacts DEF RelayMissing, TableOK
    <2>. QED BY <1>2, <1>4, <1>7, <2>1, <2>2 DEF RelayMissing
  <1>8. ASSUME NEW r \in Requests, FailOver(r) PROVE Sound'
    <2>1. attempted[r] \in SUBSET Hosts
      BY DEF AttemptsOK
    <2>2. AttemptsOK' /\ rr_counter' \in 0 .. RRPeriod - 1
      BY <1>8, <2>1, MarkedFacts, AdvanceFacts DEF FailOver, TableOK
    <2>3. TableOK'
      BY <1>8, <2>2, MarkedFacts DEF FailOver, TableOK
    <2>. QED BY <1>2, <1>4, <1>8, <2>2, <2>3 DEF FailOver
  <1>9. ASSUME NEW r \in Requests, Raise(r) PROVE Sound'
    BY <1>1, <1>2, <1>4, <1>9, EndedKeeps DEF Raise, Endings
  <1>10. ASSUME NEW h \in Hosts, StartPoll(h) PROVE Sound'
    <2>1. PollsOK'
      BY <1>10 DEF StartPoll, PollsOK, WorldOK
    <2>. QED BY <1>1, <1>3, <1>4, <1>10, <2>1 DEF StartPoll
  <1>11. ASSUME NEW h \in Hosts, RecordPoll(h) PROVE Sound'
    <2>1. PollsOK'
      BY <1>11 DEF RecordPoll, PollsOK
    <2>2. TableOK'
      BY <1>11 DEF RecordPoll, TableOK, PollsOK
    <2>. QED BY <1>3, <1>4, <1>11, <2>1, <2>2 DEF RecordPoll
  <1>12. ASSUME NEW h \in Hosts, Crash(h) \/ Return(h) \/ ChangeModels(h) PROVE Sound'
    <2>1. WorldOK'
      BY <1>12 DEF Crash, Return, ChangeModels, WorldOK
    <2>. QED BY <1>1, <1>2, <1>3, <1>12, <2>1 DEF Crash, Return, ChangeModels
  <1>13. CASE LoseAnswer
    <2>1. ASSUME NEW r \in Requests, NEW fate \in {"refused", "broken"},
                 dispatch' = [dispatch EXCEPT ![r] = fate],
                 UNCHANGED <<tableVars, pollVars, host, attempted, worldVars>>
          PROVE  Sound'
      <3>1. AttemptsOK'
        BY <2>1 DEF AttemptsOK, Fates
      <3>. QED BY <1>1, <1>2, <1>4, <2>1, <3>1
    <2>2. ASSUME NEW h \in Hosts \ up, poll' = [poll EXCEPT ![h] = "failed"],
                 listed' = [listed EXCEPT ![h] = {}],
                 UNCHANGED <<tableVars, attemptVars, worldVars>>
          PROVE  Sound'
      <3>1. PollsOK'
        BY <2>2 DEF PollsOK
      <3>. QED BY <1>1, <1>3, <1>4, <2>2, <3>1
    <2>. QED BY <1>13, <2>1, <2>2 DEF LoseAnswer
  <1>14. CASE UNCHANGED vars
    BY <1>1, <1>2, <1>3, <1>4, <1>14 DEF vars
  <1>. QED BY <1>5, <1>6, <1>7, <1>8, <1>9, <1>10, <1>11, <1>12, <1>13, <1>14, Zenon
           DEF Next, Handle

\* The table and the dispatches stay well-formed: the rotation always yields a
\* configured host, whatever the counter and whichever hosts are reachable, and a
\* request is with a host it has on its list of attempts or with none.
THEOREM RoutingTypeCorrect == Spec => []RoutingTypeOK
  BY RoutingStart, RoutingStep, SoundIsType, PTL DEF Spec

\* Wherever the counter stands, the next full round over any set of candidates
\* gives each of them exactly its weight.
THEOREM WeightedShareCorrect == Spec => []WeightedShare
  <1>1. RoutingTypeOK => WeightedShare
    <2>. SUFFICES ASSUME RoutingTypeOK, NEW S \in HostSets, NEW h \in S
                  PROVE  Cardinality({k \in 0 .. Len(WeightedList[S]) - 1 :
                                         Turn(S, rr_counter + k) = h}) = Weight[h]
      BY DEF WeightedShare, HostSets
    <2>1. rr_counter \in Nat
      BY PeriodAssumption DEF RoutingTypeOK
    <2> DEFINE list == WeightedList[S]
    <2>2. /\ list \in Seq(S) /\ Len(list) # 0
          /\ HowMany(list, h) = Weight[h]
      BY WeightedListFacts
    <2>3. {k \in 0 .. Len(list) - 1 : Turn(S, rr_counter + k) = h}
            = {k \in 0 .. Len(list) - 1 : list[((rr_counter + k) % Len(list)) + 1] = h}
      BY DEF Turn
    <2>. HIDE DEF list
    <2>4. Cardinality({k \in 0 .. Len(list) - 1 :
                          list[((rr_counter + k) % Len(list)) + 1] = h}) = HowMany(list, h)
      BY <2>1, <2>2, FullRound
    <2>. QED BY <2>2, <2>3, <2>4 DEF list
  <1>. QED BY <1>1, RoutingTypeCorrect, PTL

\* A failover goes to a host marked unreachable only when none is marked
\* reachable: the host that just failed is unmarked before the next is picked.
THEOREM FailoverPrefersReachableCorrect == Spec => FailoverPrefersReachable
  <1>1. ASSUME RoutingTypeOK, [Next]_vars, NEW r \in Requests,
               attempted'[r] \notin {attempted[r], {}}, host'[r] \notin reachable'
        PROVE  reachable' = {}
    <2>0. TableOK /\ AttemptsOK /\ rr_counter \in 0 .. RRPeriod - 1
      BY <1>1, SoundIsType DEF Sound, TableOK
    <2>1. ASSUME NEW q \in Requests, NEW tried \in SUBSET Hosts, reachable' \in SUBSET Hosts,
                 Advance(q, reachable', tried)
          PROVE  reachable' = {}
      <3>1. /\ \A p \in Requests \ {q} : attempted'[p] = attempted[p]
            /\ attempted'[q] = {} \/ (reachable' # {} => host'[q] \in reachable')
        BY <2>0, <2>1, AdvanceFacts
      <3>2. r = q
        BY <1>1, <3>1
      <3>. QED BY <1>1, <3>1, <3>2
    <2>2. ASSUME NEW q \in Requests, NEW how, Ended(q, how) PROVE FALSE
      BY <1>1, <2>0, <2>2 DEF Ended, AttemptsOK
    <2>3. ASSUME UNCHANGED attempted PROVE FALSE
      BY <1>1, <2>3
    <2>4. ASSUME NEW q \in Requests, Begin(q) PROVE reachable' = {}
      <3>1. reachable' = reachable /\ reachable' \in SUBSET Hosts /\ {} \in SUBSET Hosts
        BY <2>0, <2>4 DEF Begin, TableOK
      <3>2. Advance(q, reachable', {})
        BY <2>4, <3>1 DEF Begin
      <3>. QED BY <2>1, <3>1, <3>2
    <2>5. ASSUME NEW q \in Requests, FailOver(q) PROVE reachable' = {}
      <3>1. reachable' = MarkedUnhealthy(host[q]) /\ reachable' \in SUBSET Hosts
        BY <2>0, <2>5, MarkedFacts DEF FailOver
      <3>2. attempted[q] \in SUBSET Hosts
        BY <2>0 DEF AttemptsOK
      <3>3. Advance(q, reachable', attempted[q])
        BY <2>5, <3>1 DEF FailOver
      <3>. QED BY <2>1, <3>1, <3>2, <3>3
    <2>6. ASSUME NEW q \in Requests, Relay(q) \/ RelayMissing(q) \/ Raise(q) PROVE FALSE
      BY <2>2, <2>6 DEF Relay, RelayMissing, Raise
    <2>7. ASSUME NEW h \in Hosts,
                 StartPoll(h) \/ RecordPoll(h) \/ Crash(h) \/ Return(h) \/ ChangeModels(h)
          PROVE  FALSE
      BY <2>3, <2>7 DEF StartPoll, RecordPoll, Crash, Return, ChangeModels, attemptVars
    <2>8. ASSUME LoseAnswer PROVE FALSE
      BY <2>3, <2>8 DEF LoseAnswer, attemptVars
    <2>9. ASSUME UNCHANGED vars PROVE FALSE
      BY <2>3, <2>9 DEF vars, attemptVars
    <2>. QED BY <1>1, <2>4, <2>5, <2>6, <2>7, <2>8, <2>9 DEF Next, Handle
  <1>2. RoutingTypeOK /\ [Next]_vars =>
            [\A r \in Requests :
                attempted'[r] \notin {attempted[r], {}} /\ host'[r] \notin reachable'
                    => reachable' = {}]_vars
    BY <1>1
  <1>. QED BY <1>2, RoutingTypeCorrect, PTL DEF Spec, FailoverPrefersReachable

=============================================================================
