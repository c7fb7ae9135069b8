------------------------- MODULE AccessGate_proofs -------------------------
(***************************************************************************)
(* Proofs about AccessGate, for every set of configuration files, of        *)
(* addresses and of keys, and for every limit and window.                   *)
(*                                                                         *)
(* What a decision may be follows from the file the proxy was started with, *)
(* which no step changes; the length of an address's list follows from the  *)
(* order in authenticate(): the limit is looked at before a failure is      *)
(* added.                                                                  *)
(***************************************************************************)
EXTENDS AccessGate, FiniteSetTheorems, SequenceTheorems, TLAPS

-----------------------------------------------------------------------------
(* The parts of the invariant                                              *)

FileAccepted == config \in Configs /\ Boots(config)

ListsBounded ==
    /\ DOMAIN failures = Addresses
    /\ \A a \in Addresses : /\ failures[a] \in Seq(0 .. Window)
                            /\ Len(failures[a]) <= MaxFailures

\* A decision on a key of the file has looked at its scope, and where a tier
\* was asked for at its ceiling.
DecisionSound ==
    decision # Nothing =>
        /\ decision.key \in Keys \union {Anyone}
        /\ decision.required \in Scopes
        /\ decision.tier \in Tiers \union {Nothing}
        /\ decision.granted = (decision.key = Anyone \/ Allows(decision.key, decision.required))
        /\ decision.required = "inference" =>
               /\ decision.tier \in Tiers
               /\ decision.key # Anyone =>
                      PriorityOrder[decision.tier] <= PriorityOrder[MaxPriority(decision.key)]

GateInv == FileAccepted /\ ListsBounded /\ DecisionSound

-----------------------------------------------------------------------------
(* Lemmas                                                                  *)

\* Every entry of the accepted file is well-formed.
LEMMA EntriesOfFile ==
  ASSUME FileAccepted
  PROVE  /\ \A k \in Keys : config.keys[k] \in Entries
         /\ config.inject_as \subseteq Keys
  BY ConfigsAssumption DEF FileAccepted, IsFile, Boots, InjectAsKnown, Keys

\* Filtering a list by age yields a list of ages that is not longer.
LEMMA RecentFacts ==
  ASSUME ListsBounded, NEW a \in Addresses
  PROVE  /\ Recent(a) \in Seq(0 .. Window)
         /\ Len(Recent(a)) <= Len(failures[a])
  <1> DEFINE s == failures[a]
             n == Cardinality(Expired(a))
  <1>1. s \in Seq(0 .. Window) /\ Len(s) \in Nat
    BY DEF ListsBounded
  <1>2. n \in Nat
    <2>1. IsFiniteSet(1 .. Len(s))
      BY <1>1, FS_Interval
    <2>2. Expired(a) \subseteq 1 .. Len(s)
      BY <1>1 DEF Expired
    <2>. QED BY <2>1, <2>2, FS_Subset, FS_CardinalityType
  <1>3. Recent(a) = SubSeq(s, n + 1, Len(s))
    BY DEF Recent
  <1>. HIDE DEF s, n
  <1>4. ASSUME NEW i \in n + 1 .. Len(s) PROVE s[i] \in 0 .. Window
    <2>1. i \in 1 .. Len(s)
      BY <1>1, <1>2
    <2>. QED BY <1>1, <2>1, ElementOfSeq
  <1>5. /\ SubSeq(s, n + 1, Len(s)) \in Seq(0 .. Window)
        /\ Len(SubSeq(s, n + 1, Len(s))) <= Len(s)
    <2> DEFINE m == n + 1
               k == Len(s)
    <2>1. m \in Int /\ k \in Int /\ 1 <= m /\ 0 <= k /\ \A i \in m .. k : s[i] \in 0 .. Window
      BY <1>1, <1>2, <1>4
    <2>. HIDE DEF m, k
    <2>2. /\ SubSeq(s, m, k) \in Seq(0 .. Window)
          /\ Len(SubSeq(s, m, k)) = IF m <= k THEN k - m + 1 ELSE 0
      BY <2>1, SubSeqProperties
    <2>3. Len(SubSeq(s, m, k)) <= k
      BY <2>1, <2>2
    <2>. QED BY <2>2, <2>3 DEF m, k
  <1>. QED BY <1>3, <1>5 DEF s

\* Either way of capping a tier yields one at or under the key's ceiling.
LEMMA TiersCapped ==
  ASSUME FileAccepted, NEW k \in Keys, NEW tier \in Tiers
  PROVE  /\ InjectedTier(k, tier) \in Tiers
         /\ PriorityOrder[InjectedTier(k, tier)] <= PriorityOrder[MaxPriority(k)]
         /\ k # Anyone => UnderCeiling(k, tier) = InjectedTier(k, tier)
  <1>1. MaxPriority(k) \in Tiers
    BY EntriesOfFile DEF MaxPriority, Entries
  <1>2. \A t \in Tiers : PriorityOrder[t] \in Nat
    BY DEF Tiers, PriorityOrder
  <1>. QED BY <1>1, <1>2 DEF InjectedTier, UnderCeiling

\* The scope an accepted entry ends up with is the one it writes down; where it
\* writes none, management if it says so and inference if not.
LEMMA ScopeOfEntry ==
  ASSUME FileAccepted, NEW k \in Keys
  PROVE  LET entry == config.keys[k] IN
         /\ EffectiveScope(entry) \in Scopes
         /\ entry.scope # Unset => EffectiveScope(entry) = entry.scope
         /\ entry.scope = Unset =>
                EffectiveScope(entry) = IF entry.management THEN "management" ELSE "inference"
  <1>1. config.keys[k] \in Entries /\ ~Contradicts(config.keys[k])
    BY EntriesOfFile DEF FileAccepted, Boots, Keys
  <1> DEFINE entry == config.keys[k]
  <1>2. entry.management \in BOOLEAN /\ entry.scope \in Scopes \union {Unset}
    BY <1>1 DEF Entries
  <1>3. entry.management => entry.scope \in {Unset, "management"}
    BY <1>1 DEF Contradicts
  <1>. HIDE DEF entry
  <1>4. ASSUME entry.management PROVE EffectiveScope(entry) = "management"
    BY <1>4, Zenon DEF EffectiveScope
  <1>5. ASSUME ~entry.management, entry.scope = Unset PROVE EffectiveScope(entry) = "inference"
    BY <1>5, Zenon DEF EffectiveScope
  <1>6. ASSUME ~entry.management, entry.scope # Unset PROVE EffectiveScope(entry) = entry.scope
    BY <1>6, Zenon DEF EffectiveScope
  <1>7. "management" \in Scopes /\ "inference" \in Scopes
    BY DEF Scopes, ScopeOrder
  <1>. QED BY <1>2, <1>3, <1>4, <1>5, <1>6, <1>7 DEF entry

-----------------------------------------------------------------------------
(* The invariant                                                           *)

LEMMA GateStart == Init => GateInv
  BY RateLimitAssumption DEF Init, GateInv, FileAccepted, ListsBounded, DecisionSound

\* A list that gets its recent part, and one more only below the limit, or
\* nothing, stays bounded.
LEMMA ListKept ==
  ASSUME ListsBounded, NEW a \in Addresses, NEW list \in Seq(0 .. Window),
         Len(list) <= MaxFailures, failures' = [failures EXCEPT ![a] = list]
  PROVE  ListsBounded'
  BY DEF ListsBounded

LEMMA AcceptKeeps ==
  ASSUME ListsBounded, NEW a \in Addresses, NEW k, Accept(a, k)
  PROVE  ListsBounded'
  <1>1. CASE failures' = [failures EXCEPT ![a] = <<>>]
    <2>1. <<>> \in Seq(0 .. Window) /\ Len(<<>>) <= MaxFailures
      BY RateLimitAssumption
    <2>. QED BY <1>1, <2>1, ListKept
  <1>2. CASE UNCHANGED failures
    BY <1>2 DEF ListsBounded
  <1>. QED BY <1>1, <1>2 DEF Accept

\* A decision on a key of the file, with a tier under its ceiling when it asks
\* for inference.
LEMMA DecideKeeps ==
  ASSUME FileAccepted, NEW k \in Keys \union {Anyone}, NEW required \in Scopes, NEW tier,
         tier \in Tiers \/ (tier = Nothing /\ required # "inference"),
         required = "inference" /\ k # Anyone =>
             PriorityOrder[tier] <= PriorityOrder[MaxPriority(k)],
         Decide(k, required, tier)
  PROVE  FileAccepted' /\ DecisionSound'
  BY DEF Decide, FileAccepted, DecisionSound, Keys, Allows, MaxPriority

LEMMA GateStep == GateInv /\ [Next]_vars => GateInv'
  <1>. SUFFICES ASSUME GateInv, [Next]_vars PROVE GateInv'
    OBVIOUS
  <1>. USE DEF GateInv
  <1>1. ASSUME decision' = Nothing, UNCHANGED config PROVE FileAccepted' /\ DecisionSound'
    BY <1>1 DEF FileAccepted, DecisionSound
  <1>2. ASSUME NEW a \in Addresses, RefuseLimited(a) PROVE GateInv'
    <2>1. Len(Recent(a)) \in Nat /\ Len(Recent(a)) <= MaxFailures
      BY RecentFacts, RateLimitAssumption DEF ListsBounded
    <2>2. ListsBounded'
      BY <1>2, <2>1, RecentFacts, ListKept DEF RefuseLimited
    <2>. QED BY <1>1, <1>2, <2>2 DEF RefuseLimited
  <1>3. ASSUME NEW a \in Addresses, RefuseUnknown(a) PROVE GateInv'
    <2>1. Recent(a) \in Seq(0 .. Window) /\ Len(Recent(a)) < MaxFailures
      BY <1>3, RecentFacts, RateLimitAssumption DEF RefuseUnknown, Limited
    <2>2. 0 \in 0 .. Window
      BY RateLimitAssumption
    <2>3. /\ Append(Recent(a), 0) \in Seq(0 .. Window)
          /\ Len(Append(Recent(a), 0)) <= MaxFailures
      BY <2>1, <2>2, AppendProperties, RateLimitAssumption
    <2>4. ListsBounded'
      BY <1>3, <2>3, ListKept DEF RefuseUnknown
    <2>. QED BY <1>1, <1>3, <2>4 DEF RefuseUnknown
  <1>4. ASSUME NEW a \in Addresses, NEW k \in Keys \union {Anyone}, NEW tier \in Tiers,
               Proxy(a, k, tier)
        PROVE  GateInv'
    <2>1. UnderCeiling(k, tier) \in Tiers
      <3>1. CASE k = Anyone
        BY <3>1 DEF UnderCeiling
      <3>2. CASE k # Anyone
        BY <3>2, TiersCapped
      <3>. QED BY <3>1, <3>2
    <2>2. k # Anyone => PriorityOrder[UnderCeiling(k, tier)] <= PriorityOrder[MaxPriority(k)]
      BY TiersCapped
    <2>3. "inference" \in Scopes
      BY DEF Scopes, ScopeOrder
    <2>4. FileAccepted' /\ DecisionSound'
      BY <1>4, <2>1, <2>2, <2>3, DecideKeeps DEF Proxy
    <2>5. ListsBounded'
      BY <1>4, AcceptKeeps DEF Proxy
    <2>. QED BY <2>4, <2>5
  <1>5. ASSUME NEW a \in Addresses, NEW k \in Keys \union {Anyone},
               NEW required \in {"read", "management"}, Route(a, k, required)
        PROVE  GateInv'
    <2>1. required \in Scopes /\ required # "inference"
      BY DEF Scopes, ScopeOrder
    <2>2. FileAccepted' /\ DecisionSound'
      BY <1>5, <2>1, DecideKeeps DEF Route
    <2>3. ListsBounded'
      BY <1>5, AcceptKeeps DEF Route
    <2>. QED BY <2>2, <2>3
  <1>6. ASSUME NEW k \in config.inject_as, NEW tier \in Tiers, Inject(k, tier) PROVE GateInv'
    <2>1. k \in Keys
      BY EntriesOfFile
    <2>2. /\ InjectedTier(k, tier) \in Tiers
          /\ PriorityOrder[InjectedTier(k, tier)] <= PriorityOrder[MaxPriority(k)]
      BY <2>1, TiersCapped
    <2>3. "inference" \in Scopes
      BY DEF Scopes, ScopeOrder
    <2>4. FileAccepted' /\ DecisionSound'
      BY <1>6, <2>1, <2>2, <2>3, DecideKeeps DEF Inject
    <2>5. ListsBounded'
      BY <1>6 DEF Inject, ListsBounded
    <2>. QED BY <2>4, <2>5
  <1>7. CASE Tick
    <2>1. ASSUME NEW a \in Addresses
          PROVE  failures'[a] \in Seq(0 .. Window) /\ Len(failures'[a]) <= MaxFailures
      <3>1. failures[a] \in Seq(0 .. Window) /\ Len(failures[a]) <= MaxFailures
        BY DEF ListsBounded
      <3>2. failures'[a] = [i \in 1 .. Len(failures[a]) |->
                               IF failures[a][i] < Window THEN failures[a][i] + 1 ELSE Window]
        BY <1>7, <3>1 DEF Tick
      <3>3. \A i \in 1 .. Len(failures[a]) :
               (IF failures[a][i] < Window THEN failures[a][i] + 1 ELSE Window) \in 0 .. Window
        BY <3>1, RateLimitAssumption
      <3>4. failures'[a] \in Seq(0 .. Window) /\ Len(failures'[a]) = Len(failures[a])
        BY <3>1, <3>2, <3>3
      <3>. QED BY <3>1, <3>4
    <2>2. ListsBounded'
      BY <1>7, <2>1 DEF Tick, ListsBounded
    <2>. QED BY <1>1, <1>7, <2>2 DEF Tick
  <1>8. CASE UNCHANGED vars
    BY <1>8 DEF vars, FileAccepted, ListsBounded, DecisionSound, Keys, Allows, MaxPriority
  <1>. QED BY <1>2, <1>3, <1>4, <1>5, <1>6, <1>7, <1>8 DEF Next

THEOREM GateInvariant == Spec => []GateInv
  BY GateStart, GateStep, PTL DEF Spec

-----------------------------------------------------------------------------
(* The properties                                                          *)

\* The file stays the accepted one and a decision is about a key of it; the
\* list of an address never outgrows max_failures, because authenticate()
\* leaves before recording a failure when the list is full (auth.py:116-132).
THEOREM GateTypeCorrect == Spec => []GateTypeOK
  <1>1. GateInv => GateTypeOK
    BY DEF GateInv, FileAccepted, ListsBounded, DecisionSound, GateTypeOK, Allows
  <1>. QED BY <1>1, GateInvariant, PTL

\* Nothing that is let through exceeds what its key's entry writes down, on the
\* main port, on a route of the proxy's own and behind an injection listener:
\* from the two ways of capping the tier, the scope gate, and the files that are
\* refused for contradicting themselves.
THEOREM NoElevationCorrect == Spec => []NoElevation
  <1>1. GateInv => NoElevation
    <2>. SUFFICES ASSUME GateInv, decision # Nothing, decision.granted, decision.key # Anyone
                  PROVE  LET entry == config.keys[decision.key] IN
                         /\ entry.scope # Unset =>
                               ScopeOrder[entry.scope] >= ScopeOrder[decision.required]
                         /\ decision.required = "management" =>
                               entry.management \/ entry.scope = "management"
                         /\ decision.required = "inference" =>
                               PriorityOrder[decision.tier] <= PriorityOrder[entry.max_priority]
      BY DEF NoElevation
    <2> DEFINE entry == config.keys[decision.key]
    <2>1. decision.key \in Keys /\ FileAccepted
      BY DEF GateInv, DecisionSound
    <2>2. ScopeOrder[EffectiveScope(entry)] >= ScopeOrder[decision.required]
      BY DEF GateInv, DecisionSound, Allows
    <2>3. /\ EffectiveScope(entry) \in Scopes
          /\ entry.scope # Unset => EffectiveScope(entry) = entry.scope
          /\ entry.scope = Unset =>
                 EffectiveScope(entry) = IF entry.management THEN "management" ELSE "inference"
      BY <2>1, ScopeOfEntry
    <2>4. decision.required = "management" => EffectiveScope(entry) = "management"
      BY <2>2, <2>3 DEF Scopes, ScopeOrder
    <2>5. decision.required = "inference" =>
              PriorityOrder[decision.tier] <= PriorityOrder[entry.max_priority]
      BY DEF GateInv, DecisionSound, MaxPriority
    <2>. HIDE DEF entry
    <2>6. /\ entry.scope # Unset => ScopeOrder[entry.scope] >= ScopeOrder[decision.required]
          /\ decision.required = "management" => entry.management \/ entry.scope = "management"
      BY <2>2, <2>3, <2>4
    <2>. QED BY <2>5, <2>6 DEF entry
  <1>. QED BY <1>1, GateInvariant, PTL

\* A key without a scope is refused nothing but management, and not that if its
\* entry says management: true (config.py:144-148).
THEOREM OldConfigsWorkCorrect == Spec => []OldConfigsWork
  <1>1. GateInv => OldConfigsWork
    <2>. SUFFICES ASSUME GateInv, decision # Nothing, ~decision.granted,
                         config.keys[decision.key].scope = Unset
                  PROVE  /\ decision.required = "management"
                         /\ ~config.keys[decision.key].management
      BY DEF OldConfigsWork
    <2> DEFINE entry == config.keys[decision.key]
    <2>1. /\ decision.key \in Keys /\ FileAccepted /\ decision.required \in Scopes
          /\ ~(ScopeOrder[EffectiveScope(entry)] >= ScopeOrder[decision.required])
      BY DEF GateInv, DecisionSound, Allows
    <2>2. EffectiveScope(entry) = IF entry.management THEN "management" ELSE "inference"
      BY <2>1, ScopeOfEntry
    <2>. QED BY <2>1, <2>2 DEF Scopes, ScopeOrder
  <1>. QED BY <1>1, GateInvariant, PTL

=============================================================================
