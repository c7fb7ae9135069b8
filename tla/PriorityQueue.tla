--------------------------- MODULE PriorityQueue ---------------------------
(***************************************************************************)
(* PriorityQueueManager (src/src/ollama_queue_proxy/queue.py): three       *)
(* bounded FIFO tiers, a pool of worker tasks that serves them in strict   *)
(* priority order, a ceiling on the bytes waiting, per-tier pause, flush   *)
(* and expiry.                                                             *)
(*                                                                         *)
(* The manager lives on one asyncio event loop, so a step that contains no *)
(* await that really suspends is atomic.  A worker suspends in two places  *)
(* only: on the has_items event, and inside dispatch_fn().  Locks that are *)
(* never held across a suspension, and a semaphore with as many permits as *)
(* there are workers, never block and are not part of the state.           *)
(*                                                                         *)
(* A request stands for one client session at a time: it is submitted, is  *)
(* refused or waits on its future, is answered, and may be submitted anew. *)
(***************************************************************************)
EXTENDS Integers, Sequences, FiniteSets, FiniteSetsExt, SequencesExt, Functions

CONSTANTS
    Requests,       \* client sessions, each with at most one request at a time
    Workers,        \* worker tasks; proxy.max_concurrent of them
    TierOf,         \* the tier a session's requests are queued in
    NBytes,         \* the size of a session's request body
    MaxDepth,       \* queue.<tier>.max_depth
    MaxQueuedBytes, \* queue.max_queued_mb, in bytes
    Watermark,      \* least depth whose percentage reaches high_watermark_pct
    AccountBound,   \* bound: nothing is admitted that takes _queued_bytes past it
    None            \* "no item": the local variable of a worker without one

Tiers == {"high", "normal", "low"}

ASSUME WorkersAssumption == Workers # {} /\ IsFiniteSet(Workers)
ASSUME RequestsAssumption == IsFiniteSet(Requests) /\ None \notin Requests
ASSUME TierOfAssumption == TierOf \in [Requests -> Tiers]
ASSUME NBytesAssumption == NBytes \in [Requests -> Nat]
ASSUME LimitsAssumption ==
    /\ MaxDepth \in [Tiers -> Nat \ {0}]
    /\ MaxQueuedBytes \in Nat
    /\ Watermark \in [Tiers -> Nat]
    /\ AccountBound \in Nat

VARIABLES
    queue,           \* _queues: the requests waiting in each tier
    has_items,       \* _has_items: the event the workers sleep on
    worker,          \* where each worker task stands
    job,             \* the item a busy worker holds
    active,          \* _active: the count reported as in flight
    queued_bytes,    \* _queued_bytes: the bytes accounted as waiting
    paused,          \* _paused
    watermark_fired, \* _watermark_fired
    stale,           \* queued requests older than their tier's max_wait
    call             \* what the submitting handler sees of each request

vars == <<queue, has_items, worker, job, active, queued_bytes, paused,
          watermark_fired, stale, call>>

Answers == {"result", "error", "expired", "flushed", "refused"}

-----------------------------------------------------------------------------
(* Helpers.  A definition named Bug_... is not part of the model: it is the *)
(* form a plausible bug would give to the definition that follows it, and   *)
(* the properties are tried against it.                                     *)

Waiting(t) == Range(queue[t])
AllWaiting == UNION {Waiting(t) : t \in Tiers}
AllEmpty == \A t \in Tiers : queue[t] = <<>>

\* The bytes really held by waiting requests.
WaitingBytes == MapThenSumSet(LAMBDA r : NBytes[r], AllWaiting)

\* The tiers TIERS lists before t.
Higher(t) ==
    CASE t = "high" -> {} [] t = "normal" -> {"high"} [] t = "low" -> {"high", "normal"}

Bug_AnyNonEmptyTier(t) == queue[t] # <<>>

\* t is the tier whose head a worker takes now.
Selected(t) == queue[t] # <<>> /\ \A u \in Higher(t) : queue[u] = <<>>

Bug_NoEmptyExemption(r) == queued_bytes + NBytes[r] > MaxQueuedBytes
Bug_ComparedBeforeAdding(r) == queued_bytes > MaxQueuedBytes /\ ~AllEmpty

\* The ceiling, with the exemption for empty queues.
OverCapacity(r) == queued_bytes + NBytes[r] > MaxQueuedBytes /\ ~AllEmpty

Bug_WakeNobody == worker

\* Event.set(): every sleeping worker becomes runnable.
WakeWorkers ==
    [w \in Workers |-> IF worker[w] = "waiting" THEN "ready" ELSE worker[w]]

Bug_SleepUntilNextSet == "waiting"

\* Where a worker stands when it is back at has_items.wait().
LoopHead == IF has_items THEN "ready" ELSE "waiting"

\* Bytes released on the way to a dispatch only: what queue.py:167-171 warns of.
Bug_ReleasedUnlessStale(r) ==
    IF r \in stale THEN queued_bytes ELSE queued_bytes - NBytes[r]

\* max(0, _queued_bytes - nbytes)
Released(r) ==
    IF queued_bytes >= NBytes[r] THEN queued_bytes - NBytes[r] ELSE 0

Bug_NeverRearmed(t, depth) ==
    IF depth >= Watermark[t] THEN watermark_fired \union {t} ELSE watermark_fired

\* The watermark flags after an enqueue that leaves tier t at this depth.
WatermarkAfter(t, depth) ==
    IF depth >= Watermark[t] THEN watermark_fired \union {t}
                             ELSE watermark_fired \ {t}

-----------------------------------------------------------------------------
Init ==
    /\ queue = [t \in Tiers |-> <<>>]
    /\ has_items = FALSE
    /\ worker = [w \in Workers |-> "waiting"]
    /\ job = [w \in Workers |-> None]
    /\ active = 0
    /\ queued_bytes = 0
    /\ paused = {}
    /\ watermark_fired = {}
    /\ stale = {}
    /\ call = [r \in Requests |-> "idle"]

-----------------------------------------------------------------------------
(* enqueue(): one atomic step.                                             *)

\* raise QueuePaused, QueueFull or QueueOverCapacity.
EnqueueRefused(r) ==
    LET t == TierOf[r] IN
    /\ call[r] = "idle"
    /\ t \in paused \/ Len(queue[t]) >= MaxDepth[t] \/ OverCapacity(r)
    /\ call' = [call EXCEPT ![r] = "refused"]
    /\ UNCHANGED <<queue, has_items, worker, job, active, queued_bytes, paused,
                   watermark_fired, stale>>

\* The item is put, accounted, announced to the workers, and may trip the
\* watermark of its tier.
EnqueueAdmitted(r) ==
    LET t == TierOf[r] IN
    /\ call[r] = "idle"
    /\ t \notin paused
    /\ Len(queue[t]) < MaxDepth[t]
    /\ ~OverCapacity(r)
    /\ queued_bytes + NBytes[r] <= AccountBound
    /\ queue' = [queue EXCEPT ![t] = Append(@, r)]
    /\ queued_bytes' = queued_bytes + NBytes[r]
    /\ has_items' = TRUE
    /\ worker' = WakeWorkers
    /\ watermark_fired' = WatermarkAfter(t, Len(queue[t]) + 1)
    /\ call' = [call EXCEPT ![r] = "pending"]
    /\ UNCHANGED <<job, active, paused, stale>>

Enqueue(r) == EnqueueRefused(r) \/ EnqueueAdmitted(r)

\* The handler reads its answer and responds; the session may submit again.
Collect(r) ==
    /\ call[r] \in Answers
    /\ call' = [call EXCEPT ![r] = "idle"]
    /\ UNCHANGED <<queue, has_items, worker, job, active, queued_bytes, paused,
                   watermark_fired, stale>>

\* Time passes: a waiting request outlives max_wait, never before the requests
\* of its tier that were enqueued earlier.
MaxWaitElapses(t) ==
    \E i \in DOMAIN queue[t] :
        /\ queue[t][i] \notin stale
        /\ \A j \in 1 .. i - 1 : queue[t][j] \in stale
        /\ stale' = stale \union {queue[t][i]}
        /\ UNCHANGED <<queue, has_items, worker, job, active, queued_bytes, paused,
                       watermark_fired, call>>

-----------------------------------------------------------------------------
(* _worker(): one pass of its loop, or one half of a pass that dispatches. *)

\* Nothing to take: the event is cleared and the worker sleeps on it.
GoIdle(w) ==
    /\ worker[w] = "ready"
    /\ AllEmpty
    /\ has_items' = FALSE
    /\ worker' = [worker EXCEPT ![w] = "waiting"]
    /\ UNCHANGED <<queue, job, active, queued_bytes, paused, watermark_fired, stale, call>>

Bug_TakeNewest(t, r) ==
    /\ Selected(t)
    /\ r = Last(queue[t])
    /\ queue' = [queue EXCEPT ![t] = Front(@)]
    /\ queued_bytes' = Released(r)

Bug_TakeWithoutRemoving(t, r) ==
    Selected(t) /\ r = Head(queue[t]) /\ queued_bytes' = Released(r) /\ UNCHANGED queue

\* The head of the selected tier leaves its queue and its bytes are released.
Take(t, r) ==
    /\ Selected(t)
    /\ r = Head(queue[t])
    /\ queue' = [queue EXCEPT ![t] = Tail(@)]
    /\ queued_bytes' = Released(r)

\* The head is young enough: dispatch_fn() starts, the worker suspends in it.
Dispatch(w, t) ==
    \E r \in Requests :
        /\ worker[w] = "ready"
        /\ Take(t, r)
        /\ r \notin stale
        /\ active' = active + 1
        /\ job' = [job EXCEPT ![w] = r]
        /\ worker' = [worker EXCEPT ![w] = "busy"]
        /\ UNCHANGED <<has_items, paused, watermark_fired, stale, call>>

\* The head outlived max_wait: its future fails; active goes up and down again
\* without a suspension in between.
Expire(w, t) ==
    \E r \in Requests :
        /\ worker[w] = "ready"
        /\ Take(t, r)
        /\ r \in stale
        /\ stale' = stale \ {r}
        /\ call' = [call EXCEPT ![r] = "expired"]
        /\ worker' = [worker EXCEPT ![w] = LoopHead]
        /\ UNCHANGED <<has_items, job, active, paused, watermark_fired>>

\* Everything after dispatch_fn() inside the try: lost when it raises.
Bug_CompleteOnlyOnSuccess(w, outcome) ==
    /\ worker[w] = "busy"
    /\ call' = [call EXCEPT ![job[w]] = outcome]
    /\ active' = IF outcome = "result" THEN active - 1 ELSE active
    /\ job' = [job EXCEPT ![w] = None]
    /\ worker' = [worker EXCEPT ![w] = LoopHead]
    /\ UNCHANGED <<queue, has_items, queued_bytes, paused, watermark_fired, stale>>

\* The bytes released at dequeue are released again on completion.
Bug_CompleteReleasesBytes(w, outcome) ==
    /\ worker[w] = "busy"
    /\ call' = [call EXCEPT ![job[w]] = outcome]
    /\ queued_bytes' = queued_bytes - NBytes[job[w]]
    /\ active' = active - 1
    /\ job' = [job EXCEPT ![w] = None]
    /\ worker' = [worker EXCEPT ![w] = LoopHead]
    /\ UNCHANGED <<queue, has_items, paused, watermark_fired, stale>>

\* dispatch_fn() returned or raised: the future is completed and the worker goes
\* round its loop.
Complete(w, outcome) ==
    /\ worker[w] = "busy"
    /\ call' = [call EXCEPT ![job[w]] = outcome]
    /\ active' = active - 1
    /\ job' = [job EXCEPT ![w] = None]
    /\ worker' = [worker EXCEPT ![w] = LoopHead]
    /\ UNCHANGED <<queue, has_items, queued_bytes, paused, watermark_fired, stale>>

WorkerStep(w) ==
    \/ GoIdle(w)
    \/ \E t \in Tiers : Dispatch(w, t) \/ Expire(w, t)
    \/ \E outcome \in {"result", "error"} : Complete(w, outcome)

-----------------------------------------------------------------------------
(* The management operations; their argument is one tier or all of them.   *)

TierArguments == {{t} : t \in Tiers} \union {Tiers}

Pause(ts) ==
    /\ paused' = paused \union ts
    /\ UNCHANGED <<queue, has_items, worker, job, active, queued_bytes,
                   watermark_fired, stale, call>>

Resume(ts) ==
    /\ paused' = paused \ ts
    /\ UNCHANGED <<queue, has_items, worker, job, active, queued_bytes,
                   watermark_fired, stale, call>>

\* The futures fail, the items stay.
Bug_FlushKeepsItems(ts) ==
    /\ call' = [r \in Requests |->
                   IF r \in UNION {Waiting(t) : t \in ts} THEN "flushed" ELSE call[r]]
    /\ UNCHANGED <<queue, has_items, worker, job, active, queued_bytes, paused,
                   watermark_fired, stale>>

\* Every item of the tiers is dropped and its future fails.  The byte account
\* and the event are left as they are.
Flush(ts) ==
    LET dropped == UNION {Waiting(t) : t \in ts} IN
    /\ queue' = [t \in Tiers |-> IF t \in ts THEN <<>> ELSE queue[t]]
    /\ call' = [r \in Requests |-> IF r \in dropped THEN "flushed" ELSE call[r]]
    /\ stale' = stale \ dropped
    /\ UNCHANGED <<has_items, worker, job, active, queued_bytes, paused,
                   watermark_fired>>

Manage == \E ts \in TierArguments : Pause(ts) \/ Resume(ts) \/ Flush(ts)

-----------------------------------------------------------------------------
Serve ==
    \/ \E r \in Requests : Enqueue(r) \/ Collect(r)
    \/ \E t \in Tiers : MaxWaitElapses(t)
    \/ \E w \in Workers : WorkerStep(w)

Next == Serve \/ Manage

Spec == Init /\ [][Next]_vars

-----------------------------------------------------------------------------
(* Invariants                                                              *)

TypeOK ==
    /\ queue \in [Tiers -> Seq(Requests)]
    /\ has_items \in BOOLEAN
    /\ worker \in [Workers -> {"waiting", "ready", "busy"}]
    /\ job \in [Workers -> Requests \union {None}]
    /\ active \in Int
    /\ queued_bytes \in Nat
    /\ paused \subseteq Tiers
    /\ watermark_fired \subseteq Tiers
    /\ stale \subseteq Requests
    /\ call \in [Requests -> {"idle", "pending"} \union Answers]

\* queue.py:176-179 fears an item that nobody picks up until the next enqueue.
\* No such state exists: while anything waits, the event is set and every
\* worker is awake.
NoLostWakeup ==
    ~AllEmpty => has_items /\ \A w \in Workers : worker[w] # "waiting"

\* Where a request is held: a position of its tier's queue, or a worker.
Places(r) ==
    {<<TierOf[r], i>> : i \in {k \in DOMAIN queue[TierOf[r]] : queue[TierOf[r]][k] = r}}
    \union {<<w>> : w \in {v \in Workers : job[v] = r}}

\* A request whose handler awaits its future is in exactly one queue position
\* or with exactly one worker, and a request that is not awaited is nowhere:
\* none is lost (a handler that waits forever), duplicated (a request sent
\* upstream twice) or served after it was answered.
HeldExactlyOnce ==
    \A r \in Requests :
        Cardinality(Places(r)) = IF call[r] = "pending" THEN 1 ELSE 0

\* The in-flight figure the status endpoints publish is the number of workers
\* inside dispatch_fn(), on every path out of it.
ActiveExact == active = Cardinality({w \in Workers : worker[w] = "busy"})

\* The ceiling bounds the bytes really waiting; the one exception is a single
\* body admitted against empty queues.
MemoryCeiling ==
    WaitingBytes <= MaxQueuedBytes \/ Cardinality(AllWaiting) = 1

-----------------------------------------------------------------------------
(* Action properties                                                       *)

\* The index of a waiting request in its tier.
Position(q, r) == CHOOSE i \in DOMAIN q : q[i] = r

\* A worker never starts a request while a higher tier has one waiting
\* (README.md:420, "Workers dispatch high before normal before low").
StrictPriority ==
    [][\A w \in Workers :
          job[w] = None /\ job'[w] # None
              => \A u \in Higher(TierOf[job'[w]]) : queue[u] = <<>>]_vars

\* First come, first served inside a tier: a request leaves its queue only
\* together with, or after, those enqueued before it.
NoOvertaking ==
    [][\A t \in Tiers :
          \A i, j \in DOMAIN queue[t] :
              i < j /\ queue[t][i] \in Range(queue'[t])
                  => /\ queue[t][j] \in Range(queue'[t])
                     /\ Position(queue'[t], queue[t][i])
                            < Position(queue'[t], queue[t][j])]_vars

\* A future is completed once: whatever answered a request first (a worker,
\* expiry, a flush), nothing answers it again before its handler has read it.
\* A second set_exception() would raise InvalidStateError in the worker.
AnsweredOnce ==
    [][\A r \in Requests :
          call[r] \in Answers => call'[r] \in {call[r], "idle"}]_vars

\* The account behind the ceiling follows what is really waiting: only flush()
\* makes the two drift apart (no path of a worker does, expiry included).
OnlyFlushDrifts ==
    [][queued_bytes' - WaitingBytes' # queued_bytes - WaitingBytes
          => \E r \in Requests : call[r] = "pending" /\ call'[r] = "flushed"]_vars

\* However large its body, a request of a tier that is not paused is never turned
\* away from empty queues: queue.py:118-123 calls that a deadlock dressed as
\* backpressure.
EmptyQueuesAdmit ==
    [][\A r \in Requests :
          call[r] = "idle" /\ call'[r] = "refused" /\ TierOf[r] \notin paused
              => ~AllEmpty]_vars

\* A request of a tier that is not paused is turned away only when its tier is
\* at its depth limit, or something is waiting and the waiting bytes and its
\* own really exceed the ceiling (README.md:469-471).
RefusalJustified ==
    [][\A r \in Requests :
          call[r] = "idle" /\ call'[r] = "refused" /\ TierOf[r] \notin paused
              => \/ Len(queue[TierOf[r]]) = MaxDepth[TierOf[r]]
                 \/ ~AllEmpty /\ WaitingBytes + NBytes[r] > MaxQueuedBytes]_vars

-----------------------------------------------------------------------------
(* Liveness                                                                *)

\* Every request of the high tier is answered, whatever the other tiers do.
HighAnswered ==
    \A r \in Requests :
        TierOf[r] = "high" => (call[r] = "pending" ~> call[r] # "pending")

\* What drain() relies on: once no tier admits anything the queues empty.
PausedQueuesDrain == <>[](paused = Tiers) => <>[]AllEmpty

-----------------------------------------------------------------------------
(* Refinement                                                              *)

\* The waiting requests are those in the queues, the running ones those the
\* workers hold, and the callers see the same answers.
FreeWorker(running) == Cardinality(running) < Cardinality(Workers)

Service == INSTANCE RequestService WITH
    Precedes <- Higher,
    HasRoom  <- FreeWorker,
    waiting  <- AllWaiting,
    running  <- {job[w] : w \in Workers} \ {None},
    answer   <- call

\* The manager implements what it promises its callers, management operations
\* included: exactly-once answers, bounded parallelism, priority order.
ImplementsService == Service!Spec

=============================================================================
