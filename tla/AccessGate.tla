----------------------------- MODULE AccessGate -----------------------------
(***************************************************************************)
(* What stands in front of the queue and of the proxy's own routes:        *)
(* AuthManager with its count of recent failures per address (auth.py),    *)
(* the scope of a key, and the ceiling on the tier it may ask for, on the  *)
(* main port and on the injection ports, which apply the two by code of    *)
(* their own (main.py, injection.py).                                      *)
(*                                                                         *)
(* authenticate() holds its lock across no suspension: it is one step.     *)
(***************************************************************************)
EXTENDS KeyConfig, Sequences, SequencesExt

CONSTANTS
    Configs,      \* the configuration files an operator may write
    Addresses,    \* client addresses
    MaxFailures,  \* auth.rate_limit.max_failures
    Window,       \* auth.rate_limit.window_seconds, in ticks of the model's clock
    Anyone,       \* no key: auth is disabled
    Nothing       \* no request has been decided on

ASSUME ConfigsAssumption == \A c \in Configs : IsFile(c)
ASSUME RateLimitAssumption ==
    /\ MaxFailures \in Nat \ {0}
    /\ Window \in Nat \ {0}

VARIABLES
    config,   \* the file the proxy was started with
    failures, \* _failures: per address, the age of each; Window stands for "or more"
    decision  \* what the last request asked for, with which key, and whether it got it

vars == <<config, failures, decision>>

Keys == DOMAIN config.keys

Init ==
    /\ config \in {c \in Configs : Boots(c)}
    /\ failures = [a \in Addresses |-> <<>>]
    /\ decision = Nothing

-----------------------------------------------------------------------------
Expired(a) == {i \in DOMAIN failures[a] : failures[a][i] >= Window}

\* The failures inside the window: what _is_rate_limited() keeps.  A failure is
\* added at the end, so the expired ones are the first.
Recent(a) == SubSeq(failures[a], Cardinality(Expired(a)) + 1, Len(failures[a]))

Limited(a) == Len(Recent(a)) >= MaxFailures

MaxPriority(k) == config.keys[k].max_priority

\* ApiKeyConfig.allows()
Allows(k, required) ==
    ScopeOrder[EffectiveScope(config.keys[k])] >= ScopeOrder[required]

\* The tier a key gets for the one it asks for.
UnderCeiling(k, tier) ==
    IF k # Anyone /\ PriorityOrder[tier] > PriorityOrder[MaxPriority(k)]
    THEN MaxPriority(k)
    ELSE tier

Bug_OnlyHighIsCapped(k, tier) == IF tier = "high" THEN MaxPriority(k) ELSE tier

\* The same, as injection_handler has it.
InjectedTier(k, tier) ==
    IF PriorityOrder[tier] > PriorityOrder[MaxPriority(k)] THEN MaxPriority(k) ELSE tier

-----------------------------------------------------------------------------
(* authenticate(), which decides nothing when auth is disabled             *)

\* A try during the lockout starts it anew.
Bug_LockoutRestarts(a) ==
    /\ config.enabled
    /\ Limited(a)
    /\ failures' = [failures EXCEPT ![a] = [i \in DOMAIN Recent(a) |-> 0]]
    /\ decision' = Nothing
    /\ UNCHANGED config

\* 429: whatever credential comes with it is not looked at, and not counted.
RefuseLimited(a) ==
    /\ config.enabled
    /\ Limited(a)
    /\ failures' = [failures EXCEPT ![a] = Recent(a)]
    /\ decision' = Nothing
    /\ UNCHANGED config

\* The failure is recorded before the limit is looked at.
Bug_CountedFirst(a) ==
    /\ config.enabled
    /\ failures' = [failures EXCEPT ![a] = Append(Recent(a), 0)]
    /\ decision' = Nothing
    /\ UNCHANGED config

\* 401: no credential, or an unknown one.
RefuseUnknown(a) ==
    /\ config.enabled
    /\ ~Limited(a)
    /\ failures' = [failures EXCEPT ![a] = Append(Recent(a), 0)]
    /\ decision' = Nothing
    /\ UNCHANGED config

\* A known key clears the address; with auth disabled everyone passes without.
Accept(a, k) ==
    \/ /\ config.enabled
       /\ ~Limited(a)
       /\ k \in Keys
       /\ failures' = [failures EXCEPT ![a] = <<>>]
    \/ /\ ~config.enabled
       /\ k = Anyone
       /\ UNCHANGED failures

-----------------------------------------------------------------------------
(* The entry points                                                        *)

\* A key whose scope is too low gets 403; where there is no key, there is no
\* scope to look at.
Decide(k, required, tier) ==
    /\ decision' = [key |-> k, required |-> required, tier |-> tier,
                    granted |-> k = Anyone \/ Allows(k, required)]
    /\ UNCHANGED config

\* proxy_handler: the tier is capped, then _enqueue_request() checks the scope.
Proxy(a, k, tier) ==
    /\ Accept(a, k)
    /\ Decide(k, "inference", UnderCeiling(k, tier))

\* A route of the proxy's own, behind require_scope().
Route(a, k, required) ==
    /\ Accept(a, k)
    /\ Decide(k, required, Nothing)

\* injection_handler: no credential is presented and auth may be off; the
\* listener's key is used.
Inject(k, tier) ==
    /\ Decide(k, "inference", InjectedTier(k, tier))
    /\ UNCHANGED failures

\* The clock.
Tick ==
    /\ failures' = [a \in Addresses |->
                       [i \in DOMAIN failures[a] |->
                           IF failures[a][i] < Window THEN failures[a][i] + 1 ELSE Window]]
    /\ decision' = Nothing
    /\ UNCHANGED config

Next ==
    \/ \E a \in Addresses : RefuseLimited(a) \/ RefuseUnknown(a)
    \/ \E a \in Addresses, k \in Keys \union {Anyone}, tier \in Tiers : Proxy(a, k, tier)
    \/ \E a \in Addresses, k \in Keys \union {Anyone}, required \in {"read", "management"} :
           Route(a, k, required)
    \/ \E k \in config.inject_as, tier \in Tiers : Inject(k, tier)
    \/ Tick

Spec == Init /\ [][Next]_vars

\* Time passes.
FairSpec == Spec /\ WF_vars(Tick)

-----------------------------------------------------------------------------
(* Properties                                                              *)

\* The list of an address never outgrows the limit, however often and however
\* long it is tried from: nothing is added to a list that is full.
GateTypeOK ==
    /\ config \in Configs /\ Boots(config)
    /\ \A a \in Addresses : /\ failures[a] \in Seq(0 .. Window)
                            /\ Len(failures[a]) <= MaxFailures
    /\ decision # Nothing =>
           /\ decision.key \in Keys \union {Anyone}
           /\ decision.required \in Scopes
           /\ decision.tier \in Tiers \union {Nothing}
           /\ decision.granted \in BOOLEAN

\* Whatever a key gets, on any port and with auth on or off, is within the scope
\* its entry writes down and under its ceiling: neither the deprecated field nor
\* a listener that injects the key adds to it (README.md:435, a key "can't
\* elevate itself"; injection.py:85-88; config.py:144-148).
NoElevation ==
    decision # Nothing /\ decision.granted /\ decision.key # Anyone =>
        LET entry == config.keys[decision.key] IN
        /\ entry.scope # Unset => ScopeOrder[entry.scope] >= ScopeOrder[decision.required]
        /\ decision.required = "management" =>
               entry.management \/ entry.scope = "management"
        /\ decision.required = "inference" =>
               PriorityOrder[decision.tier] <= PriorityOrder[entry.max_priority]

\* A configuration of before scopes keeps working without an edit (config.py:
\* 108-110, 144): a key that has no scope is refused nothing but management, and
\* not even that if it says management: true.
OldConfigsWork ==
    decision # Nothing /\ ~decision.granted =>
        LET entry == config.keys[decision.key] IN
        entry.scope = Unset => decision.required = "management" /\ ~entry.management

\* A locked address is let in again when the window has passed, even if it never
\* stops trying meanwhile (config.example.yml:159, "rolling window for failure
\* counting"): 401s of the locked time do not prolong it.
LockoutEnds == \A a \in Addresses : Limited(a) ~> ~Limited(a)

=============================================================================
