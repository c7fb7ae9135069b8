----------------------------- MODULE QueueEvents -----------------------------
(***************************************************************************)
(* The events of PriorityQueue and the tasks that carry them to the        *)
(* webhook (queue.py, webhooks.py).  _fire_event() and fire() only create  *)
(* tasks: the step that fires an event does not wait for its delivery, and *)
(* a receiver may take any event, refuse it, or keep a delivery open until *)
(* it times out.                                                           *)
(***************************************************************************)
EXTENDS PriorityQueue

CONSTANT Subscribed \* webhooks.events; empty if webhooks are not enabled

EventKinds == {"queue.full", "queue.over_capacity", "queue.high_watermark", "queue.drained"}

ASSUME SubscribedAssumption == Subscribed \subseteq EventKinds

VARIABLES
    posts,   \* the kinds of which a delivery is under way
    drained, \* history: a worker took the last item waiting, to dispatch it or to
             \* fail it as expired, and since then nothing was admitted and
             \* queue.drained was not fired
    peaked   \* history: the tiers whose watermark was announced since they were
             \* last empty

eventVars == <<posts, drained, peaked>>
allVars == <<vars, eventVars>>

EventInit ==
    /\ Init
    /\ posts = {}
    /\ drained = FALSE
    /\ peaked = {}

-----------------------------------------------------------------------------
\* The step waits until the delivery before has ended.
Bug_DeliveryAwaited(events) ==
    /\ events \intersect Subscribed # {} => posts = {}
    /\ posts' = posts \union (events \intersect Subscribed)

\* fire() of the webhook: a delivery for what is subscribed to.
Post(events) == posts' = posts \union (events \intersect Subscribed)

\* The step is a flush that drops something.
Flushes == \E r \in Requests : call[r] # "flushed" /\ call'[r] = "flushed"

\* The events of a step, and what they are worth to the histories.  What empties
\* the queues is a flush, or a worker that takes the last item.
Fire(events) ==
    /\ Post(events)
    /\ drained' = ("queue.drained" \notin events /\ AllEmpty'
                      /\ (drained \/ (~AllEmpty /\ ~Flushes)))
    /\ peaked' = {t \in Tiers :
                     /\ queue'[t] # <<>>
                     /\ \/ t \in peaked
                        \/ "queue.high_watermark" \in events /\ t \notin watermark_fired
                                                             /\ t \in watermark_fired'}

-----------------------------------------------------------------------------
(* The steps of the manager with the events they fire                      *)

EventfulEnqueue(r) ==
    LET t == TierOf[r] IN
    /\ Enqueue(r)
    /\ Fire(CASE call'[r] = "pending" ->
                     IF t \in watermark_fired' \ watermark_fired
                     THEN {"queue.high_watermark"} ELSE {}
              [] call'[r] = "refused" /\ t \in paused -> {}
              [] call'[r] = "refused" /\ t \notin paused ->
                     IF Len(queue[t]) >= MaxDepth[t]
                     THEN {"queue.full"} ELSE {"queue.over_capacity"})

\* Workers look at the queues after a dispatch that succeeded only.
Bug_DrainedAfterSuccess(w) ==
    \/ GoIdle(w) /\ Fire({})
    \/ \E t \in Tiers : (Dispatch(w, t) \/ Expire(w, t)) /\ Fire({})
    \/ Complete(w, "result") /\ Fire(IF AllEmpty' THEN {"queue.drained"} ELSE {})
    \/ Complete(w, "error") /\ Fire({})

\* The expiry of an item goes on with the next pass at once.
Bug_ExpirySkipsCheck(w) ==
    \/ GoIdle(w) /\ Fire({})
    \/ \E t \in Tiers : (Dispatch(w, t) \/ Expire(w, t)) /\ Fire({})
    \/ \E outcome \in {"result", "error"} :
          Complete(w, outcome) /\ Fire(IF AllEmpty' THEN {"queue.drained"} ELSE {})

\* The end of a pass that answered something looks whether anything is left.
EventfulWorkerStep(w) ==
    \/ GoIdle(w) /\ Fire({})
    \/ \E t \in Tiers : Dispatch(w, t) /\ Fire({})
    \/ /\ \/ \E t \in Tiers : Expire(w, t)
          \/ \E outcome \in {"result", "error"} : Complete(w, outcome)
       /\ Fire(IF AllEmpty' THEN {"queue.drained"} ELSE {})

\* _deliver() ends: the receiver answered, or it failed, which is logged.
Deliver(e) ==
    /\ e \in posts
    /\ posts' = posts \ {e}
    /\ UNCHANGED <<vars, drained, peaked>>

Silent ==
    \/ \E r \in Requests : Collect(r)
    \/ \E t \in Tiers : MaxWaitElapses(t)
    \/ Manage

EventNext ==
    \/ \E r \in Requests : EventfulEnqueue(r)
    \/ \E w \in Workers : EventfulWorkerStep(w)
    \/ Silent /\ Fire({})
    \/ \E e \in EventKinds : Deliver(e)

EventSpec == EventInit /\ [][EventNext]_allVars

\* The event loop runs every runnable worker, and every dispatch ends: the HTTP
\* client has timeouts on each of its operations.  Nothing is assumed of the
\* receiver.
FairEventSpec == EventSpec /\ \A w \in Workers : WF_allVars(EventfulWorkerStep(w))

-----------------------------------------------------------------------------
(* Properties                                                              *)

\* A tier that is at its watermark has announced it since it was last empty: the
\* flag that keeps queue.high_watermark from being fired twice does not outlive
\* the peak it stands for, although only enqueue() resets it (config.example.yml:66,
\* "fire queue.high_watermark webhook at this % of max_depth").  Where a single
\* request reaches the watermark there is no enqueue below it to reset the flag.
PeaksReported ==
    \A t \in Tiers :
        Watermark[t] > 1 /\ queue[t] # <<>> /\ Len(queue[t]) >= Watermark[t] => t \in peaked

\* When workers have emptied the queues, queue.drained is fired, unless more
\* arrives first, whichever way the last requests end: by a result, by an error
\* or expired in the worker's hands (config.example.yml:85).  A flush that empties
\* them is not announced.
DrainAnnounced == drained ~> ~drained

=============================================================================
