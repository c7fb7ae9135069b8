# TLA+ models of ollama-queue-proxy

Specifications, model-checking configurations and machine-checked proofs for the
proxy in `src/src/ollama_queue_proxy/`. Paths below are relative to that package
unless they name a file of the repository root (`README.md`, `config.example.yml`).

## 1. The system

The proxy is one Python process on one asyncio event loop. A request arrives on the
main port or on an injection port, is authenticated, may be answered from a cache,
is queued in one of three tiers, is taken by one of `max_concurrent` worker tasks,
passes its client's concurrency cap and is sent to one of several Ollama hosts.

| Component | Source | State | Operations | Talks to |
|---|---|---|---|---|
| Priority queue | `queue.py` | three bounded queues, wake-up event, byte account, in-flight count, paused tiers, watermark flags | `enqueue`, worker loop, `pause`, `resume`, `flush`, `drain`, `start_workers`, `stop_workers` | calls each item's `dispatch_fn`, completes its future, fires events |
| Per-client caps | `concurrency.py` | per client: semaphore, in-flight and waiting counters | `acquire`, `release` | called in `dispatch_fn` |
| Request path and lifespan | `main.py` | `shutting_down`, client statistics, one server per port | `proxy_handler`, `_enqueue_request`, `lifespan`, `run` | everything |
| Injection listeners | `injection.py` | shared reference to the main state | `injection_handler` | `_enqueue_request` |
| Host state and routing | `routing.py` | per host: reachable, installed models, counters; a round-robin counter | poll loop, `mark_unhealthy`, `invalidate`, `pick` | the hosts' `/api/tags` |
| Dispatch and failover | `proxy.py` | hosts attempted by the current dispatch | `dispatch_request` | the hosts, the routing table |
| Authentication | `auth.py` | failure times per address | `authenticate`, `require_scope`, `enforce_priority_ceiling` | both entry points |
| Embedding cache | `cache.py` | entries in a Redis-like store | `get`, `set` | `_enqueue_request` |
| Webhooks | `webhooks.py` | delivery tasks | `fire` | events of the queue |
| Configuration | `config.py` | none at run time | validation | start-up |
| Management endpoints | `routes/queue.py` | none | pause, resume, drain, flush | the queue |
| Status, metrics, dashboard | `routes/status.py`, `routes/dashboard.py` | none | read-only | all counters |
| OpenAI compatibility, request context | `openai_compat.py`, `middleware.py` | none | rewriting | the request path |

What is hard here:

* **Interleaving.** Workers, handlers, pollers and management calls share state and
  interleave at every `await`. A request belongs in turn to a handler, a queue, a
  worker and again the handler; losing it means a caller that waits for ever.
* **Cached facts.** The byte account, the in-flight count, the watermark flags, the
  permits, the reachability marks and the model lists all repeat something that is
  true elsewhere, and every path must keep them in step.
* **Failure in the middle.** Dispatches raise, requests expire, queues are flushed,
  hosts crash with an answer on the way, the process shuts down with work in hand.
* **Ordering and starvation.** Strict priority, FIFO within a tier, a FIFO semaphore,
  weighted round-robin on a shared counter.

For each component, what makes it correct:

* *queue*: every admitted request is answered exactly once; higher tiers first and
  FIFO within one; no worker sleeps beside work; the ceiling bounds what waits and
  never refuses into empty queues; the high tier is always answered.
* *caps*: never more than the cap inside; permits are neither lost nor doubled; a
  waiting task proceeds; one client's cap does not hold up another client.
* *lifespan*: a signal ends the process, and nobody is left waiting when the workers
  are gone. *status*: the figures published side by side add up.
* *routing and failover*: a dispatch ends; marks and lists heal; a live host is not
  passed over; weights are exact.
* *authentication*: the window counts exactly the recent failures, a key's ceiling and
  scope hold on every path, and no configuration grants more than it says. *cache*: a
  hit fits the input, the model and the endpoint asked for; a failing store neither
  fails a request nor holds it up; what a replaced model computed goes away. *events*:
  peaks and drains are announced, and a silent receiver disturbs nothing.

## 2. Modules

| Module | Models | |
|---|---|---|
| `PriorityQueue` | `queue.py` | the core |
| `RequestService` | what the queue promises its callers | abstract specification of `PriorityQueue` |
| `PriorityQueue_proofs` | | inductive invariants and their theorems |
| `PriorityQueue_refinement` | | `PriorityQueue` implements `RequestService` |
| `CountingLemmas` | | facts about numbers, sums, finite sets and sequences that the proofs share |
| `ClientCaps` | `concurrency.py` and `asyncio.Semaphore` | |
| `ProxyServer` | `main.py`, `injection.py`, figures of `routes/status.py` | composes `PriorityQueue` and `ClientCaps` |
| `QueueEvents` | events of `queue.py`, `webhooks.py` | composes `PriorityQueue` and the deliveries |
| `EmbeddingCache` | `cache.py`, its uses in `main.py`, the path rewriting of `openai_compat.py` | |
| `HostRouting` | `routing.py`, the failover loop of `proxy.py` | |
| `KeyConfig` | keys, scopes and listeners in `config.py` | pure definitions |
| `AccessGate` | `auth.py`, the entry points of `main.py` and `injection.py` | extends `KeyConfig` |
| `ProxyServer_proofs`, `QueueEvents_proofs`, `EmbeddingCache_proofs`, `HostRouting_proofs`, `AccessGate_proofs` | | theorems about the module each is named after (`ProxyServer_proofs`: also about `ClientCaps`) |
| `MCPriorityQueue`, `MCQueueEvents`, `MCProxyServer`, `MCHostRouting`, `MCAccessGate`, `MCEmbeddingCache` | | constants of the TLC instances |

A definition called `Bug_...` is not part of a model. It is the form a plausible bug
would give to the definition that follows it, kept so that each property can be tried
against a broken version of the code and seen to fail.

### PriorityQueue

A *request* of the model is a client session that has at most one request at a time.
`call[r]` is its future as its handler sees it: `idle`, `pending`, or the answer that
has not been read yet (`result`, `error`, `expired`, `flushed`, `refused`). `queue`,
`has_items`, `active`, `queued_bytes`, `paused` and `watermark_fired` are the attributes
of the same names with the leading underscore dropped.

On an event loop a step without a suspension is atomic, so the actions are cut at the
two awaits that suspend, `has_items.wait()` and `dispatch_fn()`. A worker is `waiting`
on the event, `ready` at the head of its loop, or `busy` in `dispatch_fn()`, with the
item in `job`. `async with self._semaphore` never blocks because the semaphore has as
many permits as there are workers, and `_active_lock` is never held across a
suspension; `_fire_event` only creates tasks, and `q.put` cannot block after the `full`
test. One pass of the loop is `GoIdle`, `Expire`, or `Dispatch` followed by `Complete`.

| Action | Code |
|---|---|
| `Enqueue` = `EnqueueRefused` or `EnqueueAdmitted` | `enqueue` |
| `Dispatch`, `Complete`, `Expire`, `GoIdle` | `_worker` |
| `Pause`, `Resume`, `Flush`, for one tier or all | the methods of those names |
| `MaxWaitElapses` | the clock: a waiting request outlives `max_wait`, oldest first |
| `Collect` | the handler reads the future and answers |

Time is abstract: `stale` is the set of waiting requests older than their `max_wait`.
The percentage test of the watermark is the constant `Watermark`, the least depth at
which it succeeds. `AccountBound` bounds `queued_bytes`, which the code lets grow
without limit when flushes leak bytes into it: nothing is admitted that takes it past the
bound. The bound is `MaxQueuedBytes` plus the largest body, so flushes can use up the
whole ceiling and every way of being refused is reached.

### ClientCaps and ProxyServer

`ClientCaps` is the semaphore with its FIFO: `permits`, `waiters`, and `woken`, the
waiters that were handed a permit and have not run yet. `Outside`, `Locked`, `Sleepers`,
`AreFirst` and `WakeUp` describe the library (Python 3.12, the version of the
`Dockerfile`): `release()` wakes the first sleeper, and a woken task that leaves the FIFO
wakes as many of the next as there are permits left. Between the two a permit can lie
free beside a sleeper while another task has been woken and has not run, which takes a cap
of two or more; `PermitsConserved` says that this is the only case. `Acquire` and
`Release` are the manager's `acquire` and `release`: for a request whose `client_id` is
absent or not in the key configuration they find no state and do nothing. `Clients` are
the registered ones; the set is empty where no key has a cap, since there is no manager
then. `Enter`, `Park`, `Unpark` and `Leave` are what happens to a registered client.

`ProxyServer` adds the handlers and the lifespan. A worker's `Dispatch` is conjoined
with `Acquire` of the cap, since `dispatch_fn()` acquires before its first suspension;
`EnterUpstream` is a parked worker of a registered client let through; `ClientOf` gives
each session its `client_id`, which may be one of `Clients` or `None` (with auth off,
the default, it is whatever header the caller sends, or nothing); `FinishDispatch` is
the `finally` that releases together with the completion of the future. `Arrive` is the
check of `shutting_down`, `Submit` the enqueue after the body was read: the check is not
repeated. A request answered without the queue (bad body, cache hit, metadata) is
`AnswerUnqueued`.

`Ports` are the uvicorn servers: `main`, the listener started `last`, and any `other`
listener. Each server that starts takes over the signal handlers, so a SIGTERM reaches
the last one (`Signalled`, `Terminate`). A server that ends accepts nothing more and
waits for its own requests (`Idle`). `EndListener` is `serve_all()`: the signalled
listener is the first to return, and all others are told to end. The main server, once
its requests are answered, runs the second half of the lifespan: `BeginShutdown` sets
`shutting_down`, `StopWorkers` follows when the queues are empty or, if `DrainTimesOut`,
at any time. Nothing there waits for the other listeners. With no listener the signal
reaches the main server itself.

`Summary` and `ClientMetrics` are the figures the status routes read; `FiguresAddUp`
relates them: `active` is the clients' in-flight and waiting requests together with the
workers that serve a request without a registered client, `Unaccounted`, which only
`active` counts. With auth off and no keys that is all of them. (The figures count a
worker that waits for a cap as *active*, although `routes/status.py:193` calls the
figure "active upstream requests".)

Management operations and the authentication in front of `Submit` are not part of this
composition.

### QueueEvents

The steps of `PriorityQueue`, each with the events it fires. `_fire_event()` and
`fire()` create tasks and return, so `posts` (the kinds of which a delivery is under
way) grows in the step itself, and `Deliver` ends a delivery at any time or never: no
fairness is assumed of the receiver. Two history variables, which the code does not
have, say what is due: `drained` (the last waiting request left by a dispatch or an expiry,
and since then nothing was admitted and `queue.drained` was not fired; a flush, `Flushes`,
does not count) and `peaked` (the tiers whose
watermark was announced since they were last empty).

`PeaksReported` is about watermarks of two requests or more. Where a single request
reaches the watermark (a `max_depth` of 1, or a very low percentage) the flag is never
reset, as it is reset only by an enqueue that ends below the watermark: such a tier
announces one peak in the life of the process. `queue.drained` is not fired by a flush
that empties the queues, and it is fired while other workers are still in flight.
`host.unhealthy` and `host.recovered`, which `README.md:717-718` and `config.py:73-74`
list, are fired by no code.

### EmbeddingCache

A handler is `idle`, `looking_up` (suspended in `get`), `queued`, or `storing`
(suspended in `set`, before it answers). `Hit`, `Miss`, `Upstream` and `Store` are the
steps between the suspensions; the queue and the hosts are one step, `Upstream`, which
either computes or, only while the hosts do not serve everything, fails. `LeaveStore` is
what ends an operation on the store: `Hit`, `Miss` or `Store`. `entries` is the store
with the ticks each entry has left. The store is outside: `backend` is `up`, `failing`,
or `silent` (it keeps the connection and does not answer, and operations wait for it,
since the client is configured with a timeout for connecting only, `cache.py:156-159`);
it drops entries (`Evict`) and expires them (`Tick`); a write that fails may have been
carried out. `Path` is `rewrite_path()`, which the main port applies and the injection
ports do not: there `/v1/embeddings` goes upstream as it is and is not cached. `Replace`
is a model pulled anew under the same name; `Releases` bounds how often.

The key is made of the endpoint, the model and the input (a string and the list of that
one string are one `text`). A question also has `options`, which stands for the fields of
the body that change the vectors and are not in the key: `dimensions`, `truncate`,
`options`. `Key` drops them, so questions that differ in them share an entry, and a request
may be answered with vectors computed under the options of another. `README.md:372`
documents what the key is made of. `HitFitsInput` therefore promises input, model and
endpoint, and says nothing of the options; in the run, hits with other options than asked
for do occur.

### HostRouting

`reachable`, `installed` and `rr_counter` are the routing table. Each poller is asleep
or has a request whose outcome is settled (`answered` with the model list `listed`, or
`failed`) and not recorded yet; a dispatch likewise has the fate of its current attempt:
`served`, `missing` (404 model not found), `refused` (an error that leads to failover) or
`broken` (a connection error that does not). Splitting *settled* from *recorded* is what
lets stale observations overwrite fresh ones. `Advance` is one turn of the loop, from
`pick()` to the next `client.request()`, which contains no suspension. `up` and
`on_disk` are the hosts themselves; a host that is `up` answers within the timeouts.
`_rr_counter` is kept modulo `RRPeriod`, a multiple of every length the counter is ever
reduced by, so the choice of a host is the code's.

### KeyConfig and AccessGate

`KeyConfig` says which configuration files end the process at startup (`Boots`: a
deprecated `management: true` beside a lower written scope, a key without exactly one
source or with nothing in it, auth without keys, a listener with an unknown
`inject_as`) and which scope an accepted entry ends up with (`EffectiveScope`).
`AccessGate` starts with any accepted file of `Configs`; the properties compare what is
decided with what the file *says*, not with the effective scope.

`failures` holds, per address, the ages of `_failures` instead of its times: `Tick`
makes every failure older, and `Window` stands for every age outside the window, so the
counts are the code's and the state space is finite. A failure is recorded at the end of
its list, so those still inside the window are the end of it (`Recent`).
`authenticate()` takes its lock several times but no other task runs in between (the
lock is never held across a suspension, so it never blocks), hence one action per
outcome: `RefuseLimited` (429), `RefuseUnknown` (401, recorded) and `Accept`, which
clears the address even when the scope check that follows refuses the request with 403,
and which with `auth.enabled` off lets everyone through without a key (`Anyone`).
`Accept` is part of `Proxy` (the catch-all) and `Route` (`require_scope`); `Inject`
enters without it, with the listener's key, whether auth is on or off. `decision` is
what the last request that got that far asked for, with which key and capped to which
tier, and whether it was granted. The tier cap exists twice in the code and in the model
(`UnderCeiling`, `InjectedTier`).

## 3. Runs

| Run | Instance | Shows |
|---|---|---|
| `queue_safety` | sessions h1, h2, n1, l1, one body larger than the ceiling; 2 workers | eleven properties of the queue, among them the refinement |
| `queue_liveness` | `QueueEvents`: h1, h2, l1; 2 workers; watermark of 2 in the high tier; a receiver of `queue.drained` | the high tier is answered; closed queues drain; peaks and drains are announced |
| `server` | b1, b2 (low, main port) and bh (high, behind the one listener) of a client capped at 2, a1 (low, main port) without a `client_id`; 3 workers; drain may time out | the caps, the published figures and the shutdown |
| `routing` | 2 hosts of weights 2 and 1, one model, one dispatch | failover ends, marks and lists heal, weights exact |
| `gate` | 2 addresses; 2 keys, files with every scope, with and without `management`, with and without auth and listeners; 3 failures, a window of 3 ticks | lockouts end; nothing beyond what the file says; old files keep working |
| `cache` | 2 sessions, 5 questions (both endpoints, the OpenAI path on both kinds of port with other options, one too large), a store that fails and falls silent, ttl of 2 ticks, one replacement | hits fit input, model and endpoint; the store fails nothing, and holds nobody up unless silent; old vectors go |
| `flush_bytes` | h1, n1, l1, l2; 1 worker | counterexample to `RefusalJustified` |
| `shutdown_injection` | one session on the listener the signal does not reach; 1 worker | counterexample to `ShutdownStrandsNobody` |
| `cap_blocks` | b1, b2, and ih of an uncapped client; 2 workers | counterexample to `CapBlocksNobodyElse` |
| `exhausted_early` | 2 hosts, 2 dispatches | counterexample to `ExhaustedMeansAllTried` |
| `broken_connection` | 2 hosts, 2 dispatches | counterexample to `HostFailureRetried` |
| `uneven_share` | 2 hosts of equal weight, a request that names a model and one that does not | counterexample to `NoHostIdle` |

Why these bounds are enough to be interesting: with two workers one can sleep or clear
the event while the other works; four sessions over three tiers fill the high tier, put
two requests in FIFO order, hold a lower tier back, and let the oversized body meet both
empty and non-empty queues; sessions repeat for ever, so stale flags, leaked bytes and
late answers meet later requests. A cap of two with three workers and three sessions of that
client (b1, b2, bh) has tasks inside, one in line and a permit on its way while another
lies free; a1 takes a worker that no cap counts. Two hosts of unequal weight
suffice for a failed host, an untried one and a counter that points at either. One
place per tier in `server` is enough, since a request that is refused submits anew. Two
handlers of the cache read and write one key at the same time, across an expiry and a
replacement; a ttl of 2 tells an entry that was renewed from one that was not.
`Interchangeable` (workers, and the two equal high sessions) is used only in
`queue_safety`, which checks no liveness property.
Deadlock is checked except in the runs of `ProxyServer`, where the program stops.

**Fairness.** The event loop runs every runnable task, and `dispatch_fn()` ends because
`client.request` has a timeout: `WF(EventfulWorkerStep(w))` in `QueueEvents`,
`WF(ServerWorkerStep(w))` in `ProxyServer`, there also `WF(Respond(r))` (an answered
handler runs) and `WF(Lifespan)` (the drain ends or times out, the servers are told). In
`HostRouting`, weak fairness of each pending attempt and each poll, both of which have
timeouts, and of the pollers' sleep. In `AccessGate`, only that time passes (`Tick`). In
`EmbeddingCache`, that time passes and that the event loop runs a handler whose
operation on the store has ended (`LeaveStore`, which no operation on a silent store
enables). Neither that the store ends an operation nor that the queue answers a request
is assumed there; `StoreHoldsNobodyUp` has as its premise that the store is silent only
finitely often, and ends where the handler reaches the queue or its answer. Nothing is
assumed of clients, operators, hosts, receivers of events or the clock of the queue:
requests need not arrive, staleness need not set in. `ShutdownCompletes` is stated for
clients that finish sending their bodies, and its run has only a high request on the
signalled listener: a low one there could be starved by the main port, which stays open
meanwhile, and delay the shutdown.

### What the violations mean

1. `flush()` leaves the bytes of what it drops in `_queued_bytes`. They are never
   released: the ceiling shrinks for the life of the process.
2. A request on a listener that the signal did not reach can be enqueued after the
   workers have been cancelled, or be in flight when they are: nobody completes its
   future. It takes two listeners or more.
3. The cap is acquired by the worker, so capped requests occupy workers while they wait,
   and an interactive request waits behind another client's cap.
4. Failover ends when `pick()` repeats a host, which it can do while another host that
   is up has not been tried.
5. A connection that breaks during the request (`ReadError`, `RemoteProtocolError`) is
   not caught by the failover loop.
6. One round-robin counter serves all sets of candidates: an alternating load can keep it
   at the same parity for one kind of request, which then never reaches one of the hosts.

## 4. Proofs

Every safety property that a passing run checks, invariant or action property, is also a
theorem: it holds for all values of the constants, from the named assumptions on them
only (finite sets of sessions, workers and clients, at least one worker, positive depths,
weights and limits, hosts that differ). One theorem has a hypothesis of its own, see
`ShutdownStrandsNobodyCorrect`. The runs are where each formula was tried first, and where
it is seen to fail on a broken form of the code.

A run's invariant is seldom inductive. What it is strengthened by is a named definition at
the head of its proofs, and says *why* the code is right:

| Module | Inductive invariant | Theorems |
|---|---|---|
| `PriorityQueue_proofs` | `Awake`: beside waiting work the event is set and nobody sleeps | `NoLostWakeupCorrect` |
| | `Held`: *where* each pending request is | `HeldExactlyOnceCorrect`, `AnsweredOnceCorrect`, `StrictPriorityCorrect`, `NoOvertakingCorrect`, `EmptyQueuesAdmitCorrect` |
| | `ActiveExact` with the types | `ActiveExactCorrect` |
| | `Covered`: the account is at least what waits | `MemoryCeilingCorrect`, `OnlyFlushDriftsCorrect` |
| `PriorityQueue_refinement` | `Held` | `Refinement` |
| `QueueEvents_proofs` | `FlagsCurrent`: what a set watermark flag stands for | `EventsChangeNothing`, `PeaksReportedCorrect` |
| `ProxyServer_proofs` | `ServerInv`, with `CapSound` for each client | `ServerTypeCorrect`, `CapRespectedCorrect`, `CapCountersCorrect`, `PermitsConservedCorrect`, `WorkersInCapsCorrect`, `FiguresAddUpCorrect` |
| | `ShutdownOrder` | `ShutdownStrandsNobodyCorrect` |
| `EmbeddingCache_proofs` | `CacheInv` | `CacheTypeCorrect`, `HitFitsInputCorrect`, `OnlyHostsFailCorrect` |
| `AccessGate_proofs` | `GateInv` | `GateTypeCorrect`, `NoElevationCorrect`, `OldConfigsWorkCorrect` |
| `HostRouting_proofs` | the types | `RoutingTypeCorrect`, `WeightedShareCorrect`, `FailoverPrefersReachableCorrect` |

The arguments, where they are not the obvious ones:

* *No lost wake-up.* An enqueue sets the event and wakes everyone, and the one action that
  clears it does so with all queues empty, in the same atomic step.
* *Held exactly once.* Cardinalities say nothing of which places hold a request. `Held` says
  that queue positions hold pairwise different pending requests of their tier, that a
  worker holds a request if and only if it is busy, that workers' requests differ from
  each other and from the queued ones, and that every pending request is in one of these
  places. That nothing is answered twice follows: only a holder completes a future, and
  holders hold pending requests.
* *The ceiling.* `enqueue()` compares the account, not what waits. The account never falls
  below what waits, because the two move together in every step but a flush, and a flush
  only removes waiting bytes; so what is admitted under the account's ceiling is under the
  real one, and the exemption for empty queues leaves a single request.
* *Order within a tier.* A step appends at one end, takes the head, or empties a tier;
  requests in a queue are pairwise different, so each has one position.
* *Refinement.* Under the mapping *waiting* = all queued requests, *running* = the workers'
  jobs, *answer* = `call`, every step of the manager is a step of `RequestService` or a
  stutter. The bound on running requests is the bound on workers.
* *Peaks.* Where a single request does not reach the watermark, the enqueue that ends the
  emptiness of a tier resets the flag, so a flag that is set while the tier is not empty
  was set, and announced, in the present peak.
* *Caps.* Each operation of `ClientCaps` preserves `CapSound` of its client: a task is
  parked once at most or inside, woken tasks are parked, the counters count, permits that
  are free, held and handed over add up to the cap, and beside a free one either some task
  is woken or none sleeps. `ServerInv` adds that a worker is in its client's cap exactly
  while it is in `dispatch_fn()`, which no step of another worker changes.
* *Figures.* The workers in `dispatch_fn()` are those without a registered client
  (`Unaccounted`) and the disjoint union, over the clients, of those inside and those
  parked; pending requests are those queued and those with workers.
  `CountingLemmas` has the sums.
* *Shutdown.* `ShutdownOrder`: the main server closes only after the listener that got the
  signal has answered its requests, the lifespan ends only after the main server has, and
  a server that is not open accepts nothing. `ShutdownStrandsNobodyCorrect` supposes
  `Ports \subseteq {"main", "last"}`, proxies with at most one listener, since with others
  the property is false: that is the run `shutdown_injection`.
* *The cache.* `CacheInv`: an entry is a success for its key, and so is what a handler is
  about to store, for the key it is going to use.
* *The gate.* `DecisionSound`: a decision has looked at the effective scope and at one of
  the two ceilings, and the file, which no step changes, is one that was accepted. Files
  whose two fields contradict each other are refused, which is what makes the effective
  scope the written one. `ListsBounded`: `authenticate()` leaves before it records when
  the list is full.
* *Weighted shares.* The weight-expanded list is a concatenation of blocks, so by induction
  over the configured order a host occurs in it as often as its weight says; as many
  numbers in a row as the list is long have different remainders, so a full round visits
  every place once.

The library's induction theorems take an operator as a parameter and cannot be used;
induction is by a least counterexample instead (`LeastNat`, from the well-foundedness of
the numbers): so for the sums and the concatenations, which the library defines
recursively, existence and value are proved for every finite input.

Only model-checked: the liveness properties (`HighAnswered`, `PausedQueuesDrain`,
`DrainAnnounced`, `CapWaitersProceed`, `HighAnsweredInServer`, `ShutdownCompletes`,
`LockoutEnds`, `StoreHoldsNobodyUp`, `ReplacementShows`, `DispatchEnds`,
`HostsRediscovered`, `ModelsLearned`), since fairness is outside the prover's reach. The
properties of the six violation runs are refuted, not proved.

## 5. Not modelled

As listed in `PROJECT.json`: the text formats and host figures of the read-only
endpoints, the static dashboard page, stateless rewriting of bodies and headers, the
address check of the webhook URL (DNS), and the rules of the configuration that concern
ports, binds, caps above `proxy.max_concurrent` and the environment. Within the modelled
parts: tier statistics and `retry_after` (which can be 0, `queue.py:232-236`); expiry of a
low request under high traffic without end, which `README.md:449` documents as evaluated
on pick-up only; cancellation of a handler (no path of the program cancels one before the
loop is torn down); the fairness bypass of the caps, which no caller uses; a host that is
up but slower than the timeouts; two entries with one credential or one `client_id`, of
which the last one wins (`auth.py:60`, `concurrency.py:64-69`, `main.py:534`);
values that the configuration accepts and the assumptions on the constants exclude:
`proxy.max_concurrent` 0 (nothing is served), `max_depth` 0 (the watermark divides by
zero), `max_failures` 0 (every address counts as locked, always);
a credential with characters outside ASCII, at which `hmac.compare_digest` raises
(`auth.py:90`) and the request ends as a 500 without a recorded failure; an unknown tier
name, answered 400; a body in the store that is not JSON, at which `json.loads` raises
(`main.py:347`), where the model's store holds only what the proxy wrote; `keep_alive`
rewriting. `OldConfigsWork` speaks of configurations with which the process starts: one
that `Boots` refuses, such as `management: true` beside a lower scope, grants nothing.

## 6. Plan

Done: the queue, its abstract specification, runs and proofs; its events; the caps; the
lifespan with its servers; routing, failover and the shared counter; authentication,
scopes and ceilings from the configuration file on; the embedding cache; and theorems about
all of them.

Of the safety properties the runs check, each is proved. Next: abstract specifications of
the other components, with proofs that the models implement them (a per-client counting
semaphore for `ClientCaps` in `ProxyServer`; a table of questions and answers for
`EmbeddingCache`), the step properties behind `DispatchEnds` (a failover only adds hosts to
those it has tried, so it is bounded by their number), and the queue's refinement carried
over to `ProxyServer` while it is not stopped.

Then, the model: management operations during a shutdown, and three hosts in
`HostRouting`, where the instance stays within reach.
