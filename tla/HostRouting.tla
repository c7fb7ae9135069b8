---------------------------- MODULE HostRouting ----------------------------
(***************************************************************************)
(* RoutingTable (src/src/ollama_queue_proxy/routing.py) and the failover   *)
(* loop of dispatch_request() (proxy.py): per-host reachability and model  *)
(* lists, kept by one poller per host and corrected by the requests that   *)
(* fail, and the weighted round-robin that chooses a host from them.       *)
(*                                                                         *)
(* Polls and requests suspend only while the upstream works on them, so    *)
(* what follows an answer is one step.  An answer is settled when the host *)
(* gives it and recorded later: the world may change in between, which is  *)
(* how a recorded fact becomes stale.                                      *)
(***************************************************************************)
EXTENDS Integers, Sequences, FiniteSets, SequencesExt, Functions

CONSTANTS
    HostOrder,  \* ollama.hosts, in configured order
    Weight,     \* ollama.hosts[].weight
    Models,     \* model names
    Requests,   \* dispatches in progress, one at a time each
    ModelOf,    \* the model a request names, or NoModel
    NoModel,
    NoHost,     \* host of a request that is not being dispatched
    Strategy,   \* routing.strategy
    RRPeriod    \* bound: the round-robin counter is kept modulo this

Hosts == Range(HostOrder)

\* The weight-expanded list of some hosts, in configured order.
WeightedList ==
    [S \in (SUBSET Hosts) \ {{}} |->
        FlattenSeq([i \in DOMAIN HostOrder |->
            IF HostOrder[i] \in S THEN [k \in 1 .. Weight[HostOrder[i]] |-> HostOrder[i]]
                                  ELSE <<>>])]

ASSUME HostsAssumption ==
    /\ HostOrder \in Seq(Hosts) /\ HostOrder # <<>>
    /\ IsInjective(HostOrder)
    /\ NoHost \notin Hosts
    /\ Weight \in [Hosts -> Nat \ {0}]
ASSUME RoutingAssumption ==
    /\ ModelOf \in [Requests -> Models \union {NoModel}]
    /\ NoModel \notin Models
    /\ Strategy \in {"model_aware", "round_robin"}
\* The counter is only ever used modulo the total weight of some candidates.
ASSUME PeriodAssumption ==
    /\ RRPeriod \in Nat \ {0}
    /\ \A S \in (SUBSET Hosts) \ {{}} : RRPeriod % Len(WeightedList[S]) = 0

VARIABLES
    reachable,  \* the hosts whose HostRoutingState.reachable is set
    installed,  \* HostRoutingState.installed_models
    rr_counter, \* _rr_counter
    poll,       \* per host, its poller: sleeping, or the fate of its request
    listed,     \* the models in the answer to a poll
    dispatch,   \* per request: the fate of the current attempt, or how it ended
    host,       \* the host of the current attempt
    attempted,  \* attempted: the hosts tried by the current dispatch
    up,         \* the hosts that answer, each request within its timeout
    on_disk     \* the models each host has pulled

tableVars == <<reachable, installed, rr_counter>>
pollVars == <<poll, listed>>
attemptVars == <<dispatch, host, attempted>>
worldVars == <<up, on_disk>>
vars == <<tableVars, pollVars, attemptVars, worldVars>>

\* How an attempt ends: with a response; with a 404 "model not found"; with an
\* error dispatch_request() catches (ConnectError, a timeout); with a connection
\* that breaks while the host works (ReadError, RemoteProtocolError: not caught).
Fates == {"served", "missing", "refused", "broken"}
Endings == {"relayed", "exhausted", "raised"}
InFlight(r) == dispatch[r] \in Fates

-----------------------------------------------------------------------------
(* Selection                                                               *)

Bug_ReachableOrNot(live) == Hosts

\* _candidates(): reachable hosts, or every host when there is none.
Candidates(live) == IF live = {} THEN Hosts ELSE live

Bug_UnweightedTurn(S, count) ==
    LET hosts == SelectSeq(HostOrder, LAMBDA h : h \in S)
    IN  hosts[(count % Len(hosts)) + 1]

\* The host the counter points at.
Turn(S, count) == WeightedList[S][(count % Len(WeightedList[S])) + 1]

\* The hosts pick() rotates over for a request, when the hosts in live are the
\* reachable ones: model_aware prefers those that have its model; the fallback,
\* any_healthy, takes any candidate.
Eligible(r, live) ==
    LET matching == {h \in Candidates(live) : ModelOf[r] \in installed[h]} IN
    IF Strategy = "model_aware" /\ matching # {} THEN matching ELSE Candidates(live)

\* mark_unhealthy(), and invalidate() after a 404: the new value of the one field
\* that each writes, without the lock that polls take.
MarkedUnhealthy(h) == reachable \ {h}
Invalidated(h, model) == [installed EXCEPT ![h] = @ \ {model}]

\* The fate of what is sent to a host now.
Fate(r, h) ==
    CASE h \notin up -> "refused"
      [] h \in up /\ ModelOf[r] \in Models \ on_disk[h] -> "missing"
      [] OTHER -> "served"

\* dispatch_request() is left, its local variables with it.
Ended(r, how) ==
    /\ dispatch' = [dispatch EXCEPT ![r] = how]
    /\ host' = [host EXCEPT ![r] = NoHost]
    /\ attempted' = [attempted EXCEPT ![r] = {}]

\* attempted.add() is missing.
Bug_ForgetsAttempt(r, live, tried) ==
    LET h == Turn(Eligible(r, live), rr_counter) IN
    /\ rr_counter' = (rr_counter + 1) % RRPeriod
    /\ IF h \in tried
       THEN Ended(r, "exhausted")
       ELSE /\ dispatch' = [dispatch EXCEPT ![r] = Fate(r, h)]
            /\ host' = [host EXCEPT ![r] = h]
            /\ UNCHANGED attempted

\* One turn of the failover loop: pick a host, and send the request there or, if
\* it was tried before, give up with 503 "all upstream hosts failed".
Advance(r, live, tried) ==
    LET h == Turn(Eligible(r, live), rr_counter) IN
    /\ rr_counter' = (rr_counter + 1) % RRPeriod
    /\ IF h \in tried
       THEN Ended(r, "exhausted")
       ELSE /\ dispatch' = [dispatch EXCEPT ![r] = Fate(r, h)]
            /\ host' = [host EXCEPT ![r] = h]
            /\ attempted' = [attempted EXCEPT ![r] = tried \union {h}]

-----------------------------------------------------------------------------
\* After startup_probe(), which ends the process unless some host answered.
Init ==
    /\ up \in (SUBSET Hosts) \ {{}}
    /\ on_disk \in [Hosts -> SUBSET Models]
    /\ reachable = up
    /\ installed = [h \in Hosts |-> IF h \in up THEN on_disk[h] ELSE {}]
    /\ rr_counter = 0
    /\ poll = [h \in Hosts |-> "sleeping"]
    /\ listed = [h \in Hosts |-> {}]
    /\ dispatch = [r \in Requests |-> "relayed"]
    /\ host = [r \in Requests |-> NoHost]
    /\ attempted = [r \in Requests |-> {}]

-----------------------------------------------------------------------------
(* dispatch_request()                                                      *)

Begin(r) ==
    /\ ~InFlight(r)
    /\ Advance(r, reachable, {})
    /\ UNCHANGED <<reachable, installed, pollVars, worldVars>>

\* A response comes back and is passed on.
Relay(r) ==
    /\ dispatch[r] = "served"
    /\ Ended(r, "relayed")
    /\ UNCHANGED <<tableVars, pollVars, worldVars>>

\* The model leaves the host's list; the 404 is passed on.
RelayMissing(r) ==
    /\ dispatch[r] = "missing"
    /\ installed' = Invalidated(host[r], ModelOf[r])
    /\ Ended(r, "relayed")
    /\ UNCHANGED <<reachable, rr_counter, pollVars, worldVars>>

\* On to the next host.
FailOver(r) ==
    /\ dispatch[r] = "refused"
    /\ reachable' = MarkedUnhealthy(host[r])
    /\ Advance(r, MarkedUnhealthy(host[r]), attempted[r])
    /\ UNCHANGED <<installed, pollVars, worldVars>>

\* Any other exception leaves the loop; the handler answers 503 "upstream error".
Raise(r) ==
    /\ dispatch[r] = "broken"
    /\ Ended(r, "raised")
    /\ UNCHANGED <<tableVars, pollVars, worldVars>>

Handle(r) == Relay(r) \/ RelayMissing(r) \/ FailOver(r) \/ Raise(r)

-----------------------------------------------------------------------------
(* _poll_loop() of one host                                                *)

Bug_PollOnlyUnreachable(h) ==
    /\ poll[h] = "sleeping"
    /\ h \notin reachable
    /\ poll' = [poll EXCEPT ![h] = IF h \in up THEN "answered" ELSE "failed"]
    /\ listed' = [listed EXCEPT ![h] = IF h \in up THEN on_disk[h] ELSE {}]
    /\ UNCHANGED <<tableVars, attemptVars, worldVars>>

\* The interval has passed: GET /api/tags, whatever the host's state.
StartPoll(h) ==
    /\ poll[h] = "sleeping"
    /\ poll' = [poll EXCEPT ![h] = IF h \in up THEN "answered" ELSE "failed"]
    /\ listed' = [listed EXCEPT ![h] = IF h \in up THEN on_disk[h] ELSE {}]
    /\ UNCHANGED <<tableVars, attemptVars, worldVars>>

Bug_RecordSuccessOnly(h) ==
    /\ poll[h] # "sleeping"
    /\ installed' = IF poll[h] = "answered" THEN [installed EXCEPT ![h] = listed[h]] ELSE installed
    /\ reachable' = IF poll[h] = "failed" THEN reachable \ {h} ELSE reachable
    /\ poll' = [poll EXCEPT ![h] = "sleeping"]
    /\ listed' = [listed EXCEPT ![h] = {}]
    /\ UNCHANGED <<rr_counter, attemptVars, worldVars>>

\* The answer, or the failure, is recorded; a failure keeps the model list.
RecordPoll(h) ==
    /\ poll[h] # "sleeping"
    /\ IF poll[h] = "answered"
       THEN /\ installed' = [installed EXCEPT ![h] = listed[h]]
            /\ reachable' = reachable \union {h}
       ELSE /\ reachable' = reachable \ {h}
            /\ UNCHANGED installed
    /\ poll' = [poll EXCEPT ![h] = "sleeping"]
    /\ listed' = [listed EXCEPT ![h] = {}]
    /\ UNCHANGED <<rr_counter, attemptVars, worldVars>>

-----------------------------------------------------------------------------
(* The hosts.                                                              *)

Crash(h) ==
    /\ h \in up
    /\ up' = up \ {h}
    /\ UNCHANGED <<tableVars, pollVars, attemptVars, on_disk>>

Return(h) ==
    /\ h \notin up
    /\ up' = up \union {h}
    /\ UNCHANGED <<tableVars, pollVars, attemptVars, on_disk>>

\* A model is pulled or deleted, through the host's own API.
ChangeModels(h) ==
    /\ h \in up
    /\ \E S \in (SUBSET Models) \ {on_disk[h]} : on_disk' = [on_disk EXCEPT ![h] = S]
    /\ UNCHANGED <<tableVars, pollVars, attemptVars, up>>

\* What a crashed host was working on times out or loses its connection.
LoseAnswer ==
    \/ \E r \in Requests :
        /\ dispatch[r] \in {"served", "missing"}
        /\ host[r] \notin up
        /\ \E fate \in {"refused", "broken"} : dispatch' = [dispatch EXCEPT ![r] = fate]
        /\ UNCHANGED <<tableVars, pollVars, host, attempted, worldVars>>
    \/ \E h \in Hosts \ up :
        /\ poll[h] = "answered"
        /\ poll' = [poll EXCEPT ![h] = "failed"]
        /\ listed' = [listed EXCEPT ![h] = {}]
        /\ UNCHANGED <<tableVars, attemptVars, worldVars>>

-----------------------------------------------------------------------------
Next ==
    \/ \E r \in Requests : Begin(r) \/ Handle(r)
    \/ \E h \in Hosts : StartPoll(h) \/ RecordPoll(h)
    \/ \E h \in Hosts : Crash(h) \/ Return(h) \/ ChangeModels(h)
    \/ LoseAnswer

Spec == Init /\ [][Next]_vars

\* Every attempt and every poll ends, by its timeout at the latest, and the
\* sleep between two polls does.
Fairness ==
    /\ \A r \in Requests : WF_vars(Handle(r))
    /\ \A h \in Hosts : WF_vars(StartPoll(h)) /\ WF_vars(RecordPoll(h))

FairSpec == Spec /\ Fairness

-----------------------------------------------------------------------------
(* Properties                                                              *)

RoutingTypeOK ==
    /\ reachable \subseteq Hosts
    /\ installed \in [Hosts -> SUBSET Models]
    /\ rr_counter \in 0 .. RRPeriod - 1
    /\ poll \in [Hosts -> {"sleeping", "answered", "failed"}]
    /\ listed \in [Hosts -> SUBSET Models]
    /\ dispatch \in [Requests -> Fates \union Endings]
    /\ host \in [Requests -> Hosts \union {NoHost}]
    /\ attempted \in [Requests -> SUBSET Hosts]
    /\ \A r \in Requests : host[r] \in attempted[r] \union {NoHost}
    /\ up \subseteq Hosts
    /\ on_disk \in [Hosts -> SUBSET Models]

\* Wherever the shared counter stands, the next full round over any fixed set of
\* candidates gives each of them exactly its weight (README.md:343, "a 2:1 weight
\* ratio means exactly 2 requests to the heavy host for every 1").
WeightedShare ==
    \A S \in (SUBSET Hosts) \ {{}} : \A h \in S :
        Cardinality({k \in 0 .. Len(WeightedList[S]) - 1 : Turn(S, rr_counter + k) = h}) = Weight[h]

\* A failover is never spent on a host known to be down while a host that is
\* believed to work has not been tried: a request goes from one host to another
\* that is marked unreachable only when none is marked reachable.
FailoverPrefersReachable ==
    [][\A r \in Requests :
          attempted'[r] \notin {attempted[r], {}} /\ host'[r] \notin reachable'
              => reachable' = {}]_vars

\* Every dispatch ends, with all hosts down too: the loop over the hosts does not
\* go on for ever.
DispatchEnds == \A r \in Requests : InFlight(r) ~> ~InFlight(r)

\* A host that stays up is found reachable again, whatever stale failures of
\* polls and requests are recorded first (README.md:497-498, "recovers unhealthy
\* hosts without a restart").
HostsRediscovered == \A h \in Hosts : <>[](h \in up) => <>[](h \in reachable)

\* The model list of a host that stays up settles on what the host has, whatever
\* stale answers and 404s are recorded first (README.md:499-500, "a model pulled on
\* a live host becomes visible to the router without a restart too").
ModelsLearned ==
    \A h \in Hosts, S \in SUBSET Models :
        <>[](h \in up /\ on_disk[h] = S) => <>[](installed[h] = S)

\* While all hosts are up, their model lists are right and requests go on that any
\* host may serve, no host is left without any: README.md:345, requests without a
\* model "use weighted round-robin across reachable hosts", and 343, each weight is
\* matched exactly.
NoHostIdle ==
    \A r \in Requests :
        /\ <>[](up = Hosts /\ installed = on_disk /\ Eligible(r, reachable) = Hosts)
        /\ []<>InFlight(r)
        => \A h \in Hosts : []<>(\E x \in Requests : host[x] = h)

\* No request is answered 503 "all upstream hosts failed" while a host that is up
\* was not tried: routing.py:255-256 rules out "503s while a working host sat
\* idle", and the cost of a stale mark is "one extra failover attempt" (226).
ExhaustedMeansAllTried ==
    [][\A r \in Requests :
          dispatch[r] # "exhausted" /\ dispatch'[r] = "exhausted"
              => up \subseteq attempted[r]]_vars

\* A host that fails under a request, before a byte of the response has reached the
\* client, is replaced by another as long as one that works is left (README.md:30,
\* "On host failure, retry on the next configured host transparently").
HostFailureRetried ==
    [][\A r \in Requests :
          dispatch[r] # "raised" /\ dispatch'[r] = "raised"
              => up \subseteq attempted[r]]_vars

=============================================================================
