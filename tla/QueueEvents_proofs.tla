------------------------- MODULE QueueEvents_proofs -------------------------
(***************************************************************************)
(* Proofs about QueueEvents, for every set of sessions and workers, every   *)
(* limit and watermark and every subscription.                             *)
(*                                                                         *)
(* Firing an event is part of the manager's own step, so a behaviour with   *)
(* events is one of the manager and its invariants hold.  That a watermark  *)
(* is announced once per peak rests on what a set flag means while its tier *)
(* is not empty.                                                           *)
(***************************************************************************)
EXTENDS QueueEvents, PriorityQueue_proofs

LEMMA EventStepIsStep == [EventNext]_allVars => [Next]_vars
  <1>1. ASSUME NEW r \in Requests, EventfulEnqueue(r) PROVE Next
    BY <1>1 DEF EventfulEnqueue, Next, Serve
  <1>2. ASSUME NEW w \in Workers, EventfulWorkerStep(w) PROVE Next
    <2>1. WorkerStep(w)
      BY <1>2 DEF EventfulWorkerStep, WorkerStep
    <2>. QED BY <2>1 DEF Next, Serve
  <1>3. ASSUME Silent PROVE Next
    BY <1>3 DEF Silent, Next, Serve
  <1>4. ASSUME NEW e \in EventKinds, Deliver(e) PROVE UNCHANGED vars
    BY <1>4 DEF Deliver
  <1>5. ASSUME UNCHANGED allVars PROVE UNCHANGED vars
    BY <1>5 DEF allVars
  <1>. QED BY <1>1, <1>2, <1>3, <1>4, <1>5 DEF EventNext

\* Neither events nor a receiver that keeps a delivery open change what the
\* manager does: what holds of it holds with them (_fire_event() only creates a
\* task, queue.py:82-86).
THEOREM EventsChangeNothing == EventSpec => Spec
  BY EventStepIsStep, PTL DEF EventSpec, EventInit, Spec

-----------------------------------------------------------------------------
(* Peaks                                                                   *)

\* A tier at its watermark has its flag set.  Where a single request does not
\* reach the watermark, the flag of a tier that is not empty was set in the
\* present peak: the enqueue that ended the emptiness reset it.
FlagsCurrent ==
    \A t \in Tiers :
        queue[t] # <<>> =>
            /\ Len(queue[t]) >= Watermark[t] => t \in watermark_fired
            /\ Watermark[t] > 1 /\ t \in watermark_fired => t \in peaked

\* Steps that only take from the queues.
Takes ==
    /\ \A t \in Tiers : \/ queue'[t] \in {queue[t], <<>>}
                        \/ queue[t] # <<>> /\ queue'[t] = Tail(queue[t])
    /\ UNCHANGED watermark_fired

LEMMA TakingKeeps ==
  ASSUME TypeOK, FlagsCurrent, Takes, NEW events, Fire(events)
  PROVE  FlagsCurrent'
  <1>. SUFFICES ASSUME NEW t \in Tiers, queue'[t] # <<>>
                PROVE  /\ Len(queue'[t]) >= Watermark[t] => t \in watermark_fired'
                       /\ Watermark[t] > 1 /\ t \in watermark_fired' => t \in peaked'
    BY DEF FlagsCurrent
  <1>1. queue[t] \in Seq(Requests) /\ Len(queue[t]) \in Nat /\ Watermark[t] \in Nat
    BY LimitsAssumption DEF TypeOK
  <1>2. queue[t] # <<>> /\ Len(queue'[t]) \in Nat /\ Len(queue'[t]) <= Len(queue[t])
    <2>1. CASE queue'[t] = queue[t]
      BY <1>1, <2>1
    <2>2. CASE queue[t] # <<>> /\ queue'[t] = Tail(queue[t])
      <3>1. Len(Tail(queue[t])) = Len(queue[t]) - 1 /\ Len(queue[t]) # 0
        BY <1>1, <2>2
      <3>. QED BY <1>1, <2>2, <3>1
    <2>. QED BY <2>1, <2>2 DEF Takes
  <1>3. t \in peaked => t \in peaked'
    BY DEF Fire
  <1>4. watermark_fired' = watermark_fired
    BY DEF Takes
  <1>. QED BY <1>1, <1>2, <1>3, <1>4 DEF FlagsCurrent

\* An enqueue fires queue.high_watermark when it sets the flag, and resets the
\* flag when it leaves the tier below its watermark.
LEMMA EnqueueKeeps ==
  ASSUME TypeOK, FlagsCurrent, NEW r \in Requests, EventfulEnqueue(r)
  PROVE  FlagsCurrent'
  <1> DEFINE u == TierOf[r]
  <1>1. CASE EnqueueRefused(r)
    <2>1. Takes
      BY <1>1 DEF EnqueueRefused, Takes
    <2>2. \E events : Fire(events)
      BY Zenon DEF EventfulEnqueue
    <2>. QED BY <2>1, <2>2, TakingKeeps
  <1>2. CASE EnqueueAdmitted(r)
    <2>1. u \in Tiers
      BY TierOfAssumption
    <2>2. call'[r] = "pending"
      BY <1>2 DEF EnqueueAdmitted, TypeOK
    <2>3. Fire(IF u \in watermark_fired' \ watermark_fired THEN {"queue.high_watermark"} ELSE {})
      BY <2>2, Zenon DEF EventfulEnqueue
    <2>. HIDE DEF u
    <2>4. /\ queue' = [queue EXCEPT ![u] = Append(queue[u], r)]
          /\ watermark_fired' = WatermarkAfter(u, Len(queue[u]) + 1)
      BY <1>2 DEF EnqueueAdmitted, u
    <2>. SUFFICES ASSUME NEW t \in Tiers, queue'[t] # <<>>
                  PROVE  /\ Len(queue'[t]) >= Watermark[t] => t \in watermark_fired'
                         /\ Watermark[t] > 1 /\ t \in watermark_fired' => t \in peaked'
      BY DEF FlagsCurrent
    <2>5. t \in peaked \/ (t = u /\ u \in watermark_fired' \ watermark_fired) => t \in peaked'
      BY <2>3, Zenon DEF Fire
    <2>6. queue[t] \in Seq(Requests) /\ Len(queue[t]) \in Nat /\ Watermark[t] \in Nat
      BY LimitsAssumption DEF TypeOK
    <2>7. CASE t # u
      <3>1. queue'[t] = queue[t]
        BY <2>1, <2>4, <2>7 DEF TypeOK
      <3>2. t \in watermark_fired' <=> t \in watermark_fired
        BY <2>4, <2>7 DEF WatermarkAfter
      <3>. QED BY <2>5, <3>1, <3>2 DEF FlagsCurrent
    <2>8. CASE t = u
      <3>1. queue'[u] = Append(queue[u], r)
        BY <2>1, <2>4 DEF TypeOK
      <3>2. Len(queue'[t]) = Len(queue[t]) + 1
        BY <2>6, <2>8, <3>1
      <3>3. t \in watermark_fired' <=> Len(queue[t]) + 1 >= Watermark[t]
        BY <2>4, <2>8 DEF WatermarkAfter
      <3>4. queue[t] = <<>> => Len(queue[t]) = 0
        OBVIOUS
      <3>5. ASSUME Watermark[t] > 1, t \in watermark_fired' PROVE t \in peaked'
        <4>1. CASE t \notin watermark_fired
          BY <2>5, <2>8, <3>5, <4>1
        <4>2. CASE t \in watermark_fired
          <5>1. queue[t] # <<>>
            BY <2>6, <3>3, <3>4, <3>5
          <5>. QED BY <2>5, <3>5, <4>2, <5>1 DEF FlagsCurrent
        <4>. QED BY <4>1, <4>2
      <3>. QED BY <3>2, <3>3, <3>5
    <2>. QED BY <2>7, <2>8
  <1>. QED BY <1>1, <1>2 DEF EventfulEnqueue, Enqueue

LEMMA TakeTakes ==
  ASSUME TypeOK, NEW t \in Tiers, NEW r, Take(t, r), UNCHANGED watermark_fired
  PROVE  Takes
  <1>1. queue' = [queue EXCEPT ![t] = Tail(queue[t])] /\ queue[t] # <<>>
    BY DEF Take, Selected
  <1>. QED BY <1>1 DEF TypeOK, Takes

LEMMA FlagsStep == TypeOK /\ FlagsCurrent /\ [EventNext]_allVars => FlagsCurrent'
  <1>. SUFFICES ASSUME TypeOK, FlagsCurrent, [EventNext]_allVars PROVE FlagsCurrent'
    OBVIOUS
  <1>1. ASSUME NEW r \in Requests, EventfulEnqueue(r) PROVE FlagsCurrent'
    BY <1>1, EnqueueKeeps
  <1>2. ASSUME NEW w \in Workers, EventfulWorkerStep(w) PROVE FlagsCurrent'
    <2>1. \E events : Fire(events)
      BY <1>2, Zenon DEF EventfulWorkerStep
    <2>2. ASSUME NEW t \in Tiers, Dispatch(w, t) PROVE Takes
      BY <2>2, TakeTakes DEF Dispatch
    <2>3. ASSUME NEW t \in Tiers, Expire(w, t) PROVE Takes
      BY <2>3, TakeTakes DEF Expire
    <2>4. ASSUME NEW outcome, Complete(w, outcome) PROVE Takes
      BY <2>4 DEF Complete, Takes
    <2>5. CASE GoIdle(w)
      BY <2>1, <2>5, TakingKeeps DEF GoIdle, Takes
    <2>. QED BY <1>2, <2>1, <2>2, <2>3, <2>4, <2>5, TakingKeeps DEF EventfulWorkerStep
  <1>3. ASSUME Silent, Fire({}) PROVE FlagsCurrent'
    <2>1. ASSUME NEW r \in Requests, Collect(r) PROVE Takes
      BY <2>1 DEF Collect, Takes
    <2>2. ASSUME NEW t \in Tiers, MaxWaitElapses(t) PROVE Takes
      BY <2>2 DEF MaxWaitElapses, Takes
    <2>3. ASSUME Manage PROVE Takes
      BY <2>3 DEF Manage, Pause, Resume, Flush, Takes
    <2>. QED BY <1>3, <2>1, <2>2, <2>3, TakingKeeps DEF Silent
  <1>4. ASSUME NEW e \in EventKinds, Deliver(e) PROVE FlagsCurrent'
    BY <1>4 DEF Deliver, vars, FlagsCurrent
  <1>5. CASE UNCHANGED allVars
    BY <1>5 DEF allVars, eventVars, vars, FlagsCurrent
  <1>. QED BY <1>1, <1>2, <1>3, <1>4, <1>5 DEF EventNext

\* A tier at its watermark has announced the peak it is in, and the flag that
\* keeps the event from being fired twice never hides a new one.
THEOREM PeaksReportedCorrect == EventSpec => []PeaksReported
  <1>1. EventInit => FlagsCurrent
    BY DEF EventInit, Init, FlagsCurrent
  <1>2. FlagsCurrent => PeaksReported
    BY DEF FlagsCurrent, PeaksReported
  <1>. QED BY <1>1, <1>2, FlagsStep, EventsChangeNothing, TypeCorrect, PTL DEF EventSpec

=============================================================================
