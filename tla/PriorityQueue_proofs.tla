------------------------ MODULE PriorityQueue_proofs ------------------------
(***************************************************************************)
(* Theorems about PriorityQueue, for any number of sessions and workers    *)
(* and any limits, with the management operations.                         *)
(***************************************************************************)
EXTENDS PriorityQueue, CountingLemmas

LEMMA TypeInit == Init => TypeOK
  <1> SUFFICES ASSUME Init PROVE TypeOK
    OBVIOUS
  <1>1. queue \in [Tiers -> Seq(Requests)]
    BY DEF Init
  <1>2. has_items \in BOOLEAN
    BY DEF Init
  <1>3. active \in Int /\ queued_bytes \in Nat
    BY DEF Init
  <1>4. /\ worker \in [Workers -> {"waiting", "ready", "busy"}]
        /\ job \in [Workers -> Requests \union {None}]
        /\ call \in [Requests -> {"idle", "pending"} \union Answers]
    BY DEF Init
  <1>5. paused \subseteq Tiers /\ watermark_fired \subseteq Tiers /\ stale \subseteq Requests
    BY DEF Init
  <1>. QED BY <1>1, <1>2, <1>3, <1>4, <1>5 DEF TypeOK

LEMMA TakeType ==
  ASSUME TypeOK, NEW t \in Tiers, NEW r \in Requests, Take(t, r)
  PROVE  /\ queue' \in [Tiers -> Seq(Requests)]
         /\ queued_bytes' \in Nat
  <1>1. queue[t] \in Seq(Requests) /\ queue[t] # <<>>
    BY DEF TypeOK, Take, Selected
  <1>2. Tail(queue[t]) \in Seq(Requests)
    BY <1>1
  <1>3. queue' = [queue EXCEPT ![t] = Tail(queue[t])]
    BY DEF Take
  <1>4. queue' \in [Tiers -> Seq(Requests)]
    BY <1>2, <1>3 DEF TypeOK
  <1>5. queued_bytes' \in Nat
    BY NBytesAssumption DEF TypeOK, Take, Released
  <1>. QED BY <1>4, <1>5

LEMMA TypeStep == TypeOK /\ [Next]_vars => TypeOK'
  <1> SUFFICES ASSUME TypeOK, [Next]_vars PROVE TypeOK'
    OBVIOUS
  <1>1. ASSUME NEW r \in Requests, EnqueueRefused(r) PROVE TypeOK'
    BY <1>1 DEF EnqueueRefused, TypeOK, Answers
  <1>2. ASSUME NEW r \in Requests, EnqueueAdmitted(r) PROVE TypeOK'
    <2>1. TierOf[r] \in Tiers /\ NBytes[r] \in Nat
      BY TierOfAssumption, NBytesAssumption
    <2>2. queue' \in [Tiers -> Seq(Requests)]
      BY <1>2, <2>1 DEF EnqueueAdmitted, TypeOK
    <2>3. watermark_fired' \subseteq Tiers
      BY <1>2, <2>1 DEF EnqueueAdmitted, TypeOK, WatermarkAfter
    <2>4. worker' \in [Workers -> {"waiting", "ready", "busy"}]
      BY <1>2 DEF EnqueueAdmitted, TypeOK, WakeWorkers
    <2>. QED BY <1>2, <2>1, <2>2, <2>3, <2>4 DEF EnqueueAdmitted, TypeOK, Answers
  <1>3. ASSUME NEW r \in Requests, Collect(r) PROVE TypeOK'
    BY <1>3 DEF Collect, TypeOK
  <1>4. ASSUME NEW t \in Tiers, MaxWaitElapses(t) PROVE TypeOK'
    BY <1>4 DEF MaxWaitElapses, TypeOK
  <1>5. ASSUME NEW w \in Workers, GoIdle(w) PROVE TypeOK'
    BY <1>5 DEF GoIdle, TypeOK
  <1>6. ASSUME NEW w \in Workers, NEW t \in Tiers, Dispatch(w, t) PROVE TypeOK'
    BY <1>6, TakeType DEF Dispatch, TypeOK
  <1>7. ASSUME NEW w \in Workers, NEW t \in Tiers, Expire(w, t) PROVE TypeOK'
    <2> PICK r \in Requests :
              /\ Take(t, r)
              /\ stale' = stale \ {r}
              /\ call' = [call EXCEPT ![r] = "expired"]
              /\ worker' = [worker EXCEPT ![w] = LoopHead]
              /\ UNCHANGED <<has_items, job, active, paused, watermark_fired>>
      BY <1>7 DEF Expire
    <2>1. queue' \in [Tiers -> Seq(Requests)] /\ queued_bytes' \in Nat
      BY TakeType
    <2>. QED BY <2>1 DEF TypeOK, LoopHead, Answers
  <1>8. ASSUME NEW w \in Workers, NEW outcome \in {"result", "error"}, Complete(w, outcome)
        PROVE  TypeOK'
    <2>1. call' \in [Requests -> {"idle", "pending"} \union Answers]
      BY <1>8 DEF Complete, TypeOK, Answers
    <2>. QED BY <1>8, <2>1 DEF Complete, TypeOK, LoopHead
  <1>9. ASSUME NEW ts \in TierArguments, Pause(ts) PROVE TypeOK'
    BY <1>9 DEF Pause, TypeOK, TierArguments
  <1>10. ASSUME NEW ts \in TierArguments, Resume(ts) PROVE TypeOK'
    BY <1>10 DEF Resume, TypeOK, TierArguments
  <1>11. ASSUME NEW ts \in TierArguments, Flush(ts) PROVE TypeOK'
    BY <1>11 DEF Flush, TypeOK, Answers
  <1>12. ASSUME UNCHANGED vars PROVE TypeOK'
    BY <1>12 DEF vars, TypeOK
  <1>. QED
    BY <1>1, <1>2, <1>3, <1>4, <1>5, <1>6, <1>7, <1>8, <1>9, <1>10, <1>11, <1>12
    DEF Next, Serve, Manage, Enqueue, WorkerStep

\* Every variable keeps its type: the manager's account of bytes never goes
\* negative and every counter stays in its range.
THEOREM TypeCorrect == Spec => []TypeOK
  BY TypeInit, TypeStep, PTL DEF Spec

-----------------------------------------------------------------------------
(* The queues as sequences                                                 *)

LEMMA AppendFacts ==
  ASSUME NEW S, NEW q \in Seq(S), NEW x \in S
  PROVE  /\ DOMAIN Append(q, x) = DOMAIN q \union {Len(q) + 1}
         /\ \A i \in DOMAIN q : Append(q, x)[i] = q[i]
         /\ Append(q, x)[Len(q) + 1] = x
         /\ Len(q) + 1 \notin DOMAIN q
         /\ Append(q, x) # <<>>
  OBVIOUS

LEMMA TailFacts ==
  ASSUME NEW S, NEW q \in Seq(S), q # <<>>
  PROVE  /\ 1 \in DOMAIN q
         /\ Head(q) = q[1]
         /\ \A i \in DOMAIN Tail(q) : i \in Nat /\ i + 1 \in DOMAIN q /\ Tail(q)[i] = q[i + 1]
         /\ \A i \in DOMAIN Tail(q) : i + 1 # 1
         /\ \A i \in DOMAIN q : i # 1 => i - 1 \in DOMAIN Tail(q) /\ Tail(q)[i - 1] = q[i]
  OBVIOUS

LEMMA TakeFacts ==
  ASSUME TypeOK, NEW t \in Tiers, NEW r \in Requests, Take(t, r)
  PROVE  /\ queue[t] \in Seq(Requests) /\ queue[t] # <<>>
         /\ r = queue[t][1]
         /\ queue'[t] = Tail(queue[t])
         /\ \A u \in Tiers \ {t} : queue'[u] = queue[u]
  <1>1. queue[t] \in Seq(Requests) /\ queue[t] # <<>>
    BY DEF TypeOK, Take, Selected
  <1>2. r = queue[t][1]
    BY <1>1, TailFacts DEF Take
  <1>. QED BY <1>1, <1>2 DEF Take, TypeOK

-----------------------------------------------------------------------------
(* No wakeup is lost                                                       *)

\* The event is the whole truth about sleepers: set, nobody sleeps; clear,
\* nothing waits.
Awake ==
    /\ has_items => \A w \in Workers : worker[w] # "waiting"
    /\ ~AllEmpty => has_items

LEMMA AwakeStep == TypeOK /\ Awake /\ [Next]_vars => Awake'
  <1> SUFFICES ASSUME TypeOK, Awake, [Next]_vars PROVE Awake'
    OBVIOUS
  <1>1. ASSUME NEW r \in Requests, EnqueueRefused(r) PROVE Awake'
    BY <1>1 DEF EnqueueRefused, Awake, AllEmpty
  <1>2. ASSUME NEW r \in Requests, EnqueueAdmitted(r) PROVE Awake'
    BY <1>2 DEF EnqueueAdmitted, Awake, WakeWorkers
  <1>3. ASSUME NEW r \in Requests, Collect(r) PROVE Awake'
    BY <1>3 DEF Collect, Awake, AllEmpty
  <1>4. ASSUME NEW t \in Tiers, MaxWaitElapses(t) PROVE Awake'
    BY <1>4 DEF MaxWaitElapses, Awake, AllEmpty
  <1>5. ASSUME NEW w \in Workers, GoIdle(w) PROVE Awake'
    BY <1>5 DEF GoIdle, Awake, AllEmpty
  <1>6. ASSUME NEW w \in Workers, NEW t \in Tiers, Dispatch(w, t) PROVE Awake'
    <2>1. ~AllEmpty
      BY <1>6 DEF Dispatch, Take, Selected, AllEmpty
    <2>. QED BY <1>6, <2>1 DEF Dispatch, Awake, TypeOK
  <1>7. ASSUME NEW w \in Workers, NEW t \in Tiers, Expire(w, t) PROVE Awake'
    <2>1. ~AllEmpty
      BY <1>7 DEF Expire, Take, Selected, AllEmpty
    <2>. QED BY <1>7, <2>1 DEF Expire, Awake, LoopHead, TypeOK
  <1>8. ASSUME NEW w \in Workers, NEW outcome \in {"result", "error"}, Complete(w, outcome)
        PROVE  Awake'
    BY <1>8 DEF Complete, Awake, LoopHead, AllEmpty, TypeOK
  <1>9. ASSUME NEW ts \in TierArguments, Pause(ts) PROVE Awake'
    BY <1>9 DEF Pause, Awake, AllEmpty
  <1>10. ASSUME NEW ts \in TierArguments, Resume(ts) PROVE Awake'
    BY <1>10 DEF Resume, Awake, AllEmpty
  <1>11. ASSUME NEW ts \in TierArguments, Flush(ts) PROVE Awake'
    BY <1>11 DEF Flush, Awake, AllEmpty
  <1>12. ASSUME UNCHANGED vars PROVE Awake'
    BY <1>12 DEF vars, Awake, AllEmpty
  <1>. QED
    BY <1>1, <1>2, <1>3, <1>4, <1>5, <1>6, <1>7, <1>8, <1>9, <1>10, <1>11, <1>12
    DEF Next, Serve, Manage, Enqueue, WorkerStep

\* While any request waits, the event is set and no worker sleeps on it: the
\* race that the comment at queue.py:176-179 describes cannot happen.
THEOREM NoLostWakeupCorrect == Spec => []NoLostWakeup
  <1>1. Init => Awake
    BY DEF Init, Awake, AllEmpty
  <1>2. Awake => NoLostWakeup
    BY DEF Awake, NoLostWakeup
  <1>. QED BY <1>1, <1>2, AwakeStep, TypeCorrect, PTL DEF Spec

-----------------------------------------------------------------------------
(* Every awaited request is held in exactly one place                      *)

\* A queue holds pending requests of its tier, each once.
QueuesSound ==
    \A t \in Tiers :
        /\ \A i \in DOMAIN queue[t] :
              TierOf[queue[t][i]] = t /\ call[queue[t][i]] = "pending"
        /\ \A i, j \in DOMAIN queue[t] : queue[t][i] = queue[t][j] => i = j

\* A worker is busy with a pending request of its own that no queue holds.
JobsSound ==
    \A w \in Workers :
        /\ worker[w] = "busy" <=> job[w] # None
        /\ job[w] # None =>
              /\ call[job[w]] = "pending"
              /\ \A t \in Tiers : \A i \in DOMAIN queue[t] : queue[t][i] # job[w]
              /\ \A v \in Workers : job[v] = job[w] => v = w

\* A pending request is queued, or some worker has it.
PendingHeld ==
    \A r \in Requests :
        call[r] = "pending" =>
            \/ \E i \in DOMAIN queue[TierOf[r]] : queue[TierOf[r]][i] = r
            \/ \E w \in Workers : job[w] = r

Held == TypeOK /\ QueuesSound /\ JobsSound /\ PendingHeld

LEMMA HeldAdmit == ASSUME Held, NEW r \in Requests, EnqueueAdmitted(r) PROVE Held'
  <1> DEFINE t == TierOf[r]
             q == queue[t]
  <1>1. t \in Tiers /\ q \in Seq(Requests) /\ r # None
    BY TierOfAssumption, RequestsAssumption DEF Held, TypeOK
  <1>2. /\ queue'[t] = Append(q, r)
        /\ \A u \in Tiers \ {t} : queue'[u] = queue[u]
        /\ call[r] = "idle" /\ call'[r] = "pending"
        /\ \A x \in Requests \ {r} : call'[x] = call[x]
        /\ job' = job
    BY <1>1 DEF EnqueueAdmitted, Held, TypeOK
  <1>3. \A u \in Tiers : \A i \in DOMAIN queue[u] : queue[u][i] \in Requests \ {r}
    <2> SUFFICES ASSUME NEW u \in Tiers, NEW i \in DOMAIN queue[u]
                 PROVE  queue[u][i] \in Requests \ {r}
      OBVIOUS
    <2>1. queue[u] \in Seq(Requests)
      BY DEF Held, TypeOK
    <2>2. queue[u][i] \in Requests
      BY <2>1
    <2>3. call[queue[u][i]] = "pending"
      BY DEF Held, QueuesSound
    <2>. QED BY <2>2, <2>3, <1>2
  <1>4. /\ DOMAIN queue'[t] = DOMAIN q \union {Len(q) + 1}
        /\ \A i \in DOMAIN q : queue'[t][i] = q[i]
        /\ queue'[t][Len(q) + 1] = r
        /\ Len(q) + 1 \notin DOMAIN q
    BY <1>1, <1>2, AppendFacts
  <1>5. \A w \in Workers : job[w] # None => job[w] \in Requests \ {r}
    BY <1>2 DEF Held, JobsSound, TypeOK
  <1>6. TypeOK'
    BY TypeStep DEF Held, Next, Serve, Enqueue
  <1>7. QueuesSound'
    <2> SUFFICES ASSUME NEW u \in Tiers
                 PROVE  /\ \A i \in DOMAIN queue'[u] :
                              TierOf[queue'[u][i]] = u /\ call'[queue'[u][i]] = "pending"
                        /\ \A i, j \in DOMAIN queue'[u] :
                              queue'[u][i] = queue'[u][j] => i = j
      BY DEF QueuesSound
    <2>1. CASE u = t
      BY <2>1, <1>1, <1>2, <1>3, <1>4 DEF Held, QueuesSound
    <2>2. CASE u # t
      BY <2>2, <1>2, <1>3 DEF Held, QueuesSound
    <2>. QED BY <2>1, <2>2
  <1>8. JobsSound'
    <2>1. \A w \in Workers : worker'[w] = "busy" <=> worker[w] = "busy"
      BY DEF EnqueueAdmitted, WakeWorkers, Held, TypeOK
    <2>2. \A w \in Workers : job[w] # None =>
             \A u \in Tiers : \A i \in DOMAIN queue'[u] : queue'[u][i] # job[w]
      BY <1>1, <1>2, <1>4, <1>5 DEF Held, JobsSound
    <2>. QED BY <2>1, <2>2, <1>2, <1>5 DEF Held, JobsSound
  <1>9. PendingHeld'
    <2> SUFFICES ASSUME NEW x \in Requests, call'[x] = "pending"
                 PROVE  \/ \E i \in DOMAIN queue'[TierOf[x]] : queue'[TierOf[x]][i] = x
                        \/ \E w \in Workers : job'[w] = x
      BY DEF PendingHeld
    <2>0. TierOf[x] \in Tiers
      BY TierOfAssumption
    <2>1. CASE x = r
      BY <2>1, <1>4
    <2>2. CASE x # r /\ TierOf[x] = t
      BY <2>2, <1>2, <1>4 DEF Held, PendingHeld
    <2>3. CASE x # r /\ TierOf[x] # t
      BY <2>0, <2>3, <1>2 DEF Held, PendingHeld
    <2>. QED BY <2>1, <2>2, <2>3
  <1>. QED BY <1>6, <1>7, <1>8, <1>9 DEF Held

\* The queues after the head r of tier t has left.
LEMMA HeldTake ==
  ASSUME Held, NEW t \in Tiers, NEW r \in Requests, Take(t, r)
  PROVE  /\ TierOf[r] = t /\ call[r] = "pending"
         /\ \A w \in Workers : job[w] # r
         /\ \A u \in Tiers : \A i \in DOMAIN queue'[u] :
              /\ queue'[u][i] \in Requests \ {r}
              /\ TierOf[queue'[u][i]] = u
              /\ call[queue'[u][i]] = "pending"
              /\ \A w \in Workers : job[w] # queue'[u][i]
              /\ \A j \in DOMAIN queue'[u] : queue'[u][i] = queue'[u][j] => i = j
         /\ \A x \in Requests \ {r} :
              (\E i \in DOMAIN queue[TierOf[x]] : queue[TierOf[x]][i] = x)
                 => \E i \in DOMAIN queue'[TierOf[x]] : queue'[TierOf[x]][i] = x
  <1> DEFINE q == queue[t]
  <1>1. /\ q \in Seq(Requests) /\ q # <<>>
        /\ r = q[1]
        /\ queue'[t] = Tail(q)
        /\ \A u \in Tiers \ {t} : queue'[u] = queue[u]
    BY TakeFacts DEF Held
  <1>2. /\ 1 \in DOMAIN q
        /\ \A i \in DOMAIN Tail(q) : i \in Nat /\ i + 1 \in DOMAIN q /\ Tail(q)[i] = q[i + 1]
        /\ \A i \in DOMAIN Tail(q) : i + 1 # 1
        /\ \A i \in DOMAIN q : i # 1 => i - 1 \in DOMAIN Tail(q) /\ Tail(q)[i - 1] = q[i]
    BY <1>1, TailFacts
  <1>3. TierOf[r] = t /\ call[r] = "pending"
    BY <1>1, <1>2 DEF Held, QueuesSound
  <1>4. \A w \in Workers : job[w] # r
    <2> SUFFICES ASSUME NEW w \in Workers, job[w] # None PROVE job[w] # r
      BY RequestsAssumption
    <2>. QED BY <1>1, <1>2 DEF Held, JobsSound
  <1>5. ASSUME NEW u \in Tiers, NEW i \in DOMAIN queue'[u]
        PROVE  /\ queue'[u][i] \in Requests \ {r}
               /\ TierOf[queue'[u][i]] = u
               /\ call[queue'[u][i]] = "pending"
               /\ \A w \in Workers : job[w] # queue'[u][i]
               /\ \A j \in DOMAIN queue'[u] : queue'[u][i] = queue'[u][j] => i = j
    <2>0. \A v \in Tiers : \A k \in DOMAIN queue[v] :
            queue[v][k] \in Requests /\ \A w \in Workers : job[w] # queue[v][k]
      <3> SUFFICES ASSUME NEW v \in Tiers, NEW k \in DOMAIN queue[v]
                   PROVE  queue[v][k] \in Requests /\ \A w \in Workers : job[w] # queue[v][k]
        OBVIOUS
      <3>1. queue[v] \in Seq(Requests)
        BY DEF Held, TypeOK
      <3>2. queue[v][k] \in Requests
        BY <3>1
      <3>3. queue[v][k] # None
        BY <3>2, RequestsAssumption
      <3>4. ASSUME NEW w \in Workers
            PROVE  job[w] # queue[v][k]
        <4>1. CASE job[w] = None
          BY <4>1, <3>3
        <4>2. CASE job[w] # None
          BY <4>2 DEF Held, JobsSound
        <4>. QED BY <4>1, <4>2
      <3>. QED BY <3>2, <3>4
    <2>1. CASE u = t
      <3>1. i + 1 \in DOMAIN q /\ queue'[u][i] = q[i + 1] /\ i + 1 # 1 /\ i \in Nat
        BY <2>1, <1>1, <1>2
      <3>2. \A j \in DOMAIN queue'[u] :
               j \in Nat /\ j + 1 \in DOMAIN q /\ queue'[u][j] = q[j + 1]
        BY <2>1, <1>1, <1>2
      <3>3. \A k, l \in DOMAIN q : q[k] = q[l] => k = l
        BY DEF Held, QueuesSound
      <3>4. \A j \in DOMAIN queue'[u] : queue'[u][i] = queue'[u][j] => i = j
        <4> SUFFICES ASSUME NEW j \in DOMAIN queue'[u], queue'[u][i] = queue'[u][j]
                     PROVE  i = j
          OBVIOUS
        <4>1. i + 1 = j + 1
          BY <3>1, <3>2, <3>3
        <4>. QED BY <4>1, <3>1, <3>2
      <3>5. queue'[u][i] # r
        BY <3>1, <3>3, <1>1, <1>2
      <3>. QED BY <2>0, <2>1, <3>1, <3>4, <3>5 DEF Held, QueuesSound
    <2>2. CASE u # t
      <3>1. queue'[u] = queue[u]
        BY <1>1, <2>2
      <3>2. queue[u][i] # r
        BY <3>1, <2>2, <1>3 DEF Held, QueuesSound
      <3>. QED BY <2>0, <3>1, <3>2 DEF Held, QueuesSound
    <2>. QED BY <2>1, <2>2
  <1>6. ASSUME NEW x \in Requests \ {r}, NEW i \in DOMAIN queue[TierOf[x]],
               queue[TierOf[x]][i] = x
        PROVE  \E k \in DOMAIN queue'[TierOf[x]] : queue'[TierOf[x]][k] = x
    <2>0. TierOf[x] \in Tiers
      BY TierOfAssumption
    <2>1. CASE TierOf[x] = t
      <3>1. i # 1
        BY <2>1, <1>1, <1>6
      <3>2. i - 1 \in DOMAIN queue'[TierOf[x]] /\ queue'[TierOf[x]][i - 1] = x
        BY <2>1, <3>1, <1>1, <1>2, <1>6
      <3>. QED BY <3>2
    <2>2. CASE TierOf[x] # t
      BY <2>0, <2>2, <1>1, <1>6
    <2>. QED BY <2>1, <2>2
  <1>. QED BY <1>3, <1>4, <1>5, <1>6

LEMMA HeldDispatch ==
  ASSUME Held, NEW w \in Workers, NEW t \in Tiers, Dispatch(w, t)
  PROVE  Held'
  <1> PICK r \in Requests :
        /\ worker[w] = "ready"
        /\ Take(t, r)
        /\ job' = [job EXCEPT ![w] = r]
        /\ worker' = [worker EXCEPT ![w] = "busy"]
        /\ call' = call
    BY DEF Dispatch
  <1> USE RequestsAssumption
  <1>1. TypeOK'
    BY TypeStep DEF Held, Next, Serve, WorkerStep
  <1>2. QueuesSound'
    BY HeldTake DEF QueuesSound
  <1>3. JobsSound'
    <2>1. \A v \in Workers : job'[v] = IF v = w THEN r ELSE job[v]
      BY DEF Held, TypeOK
    <2>2. \A v \in Workers : worker'[v] = IF v = w THEN "busy" ELSE worker[v]
      BY DEF Held, TypeOK
    <2>3. call[r] = "pending" /\ \A v \in Workers : job[v] # r
      BY HeldTake
    <2>4. \A u \in Tiers : \A i \in DOMAIN queue'[u] :
             queue'[u][i] # r /\ \A v \in Workers : job[v] # queue'[u][i]
      BY HeldTake
    <2>. QED BY <2>1, <2>2, <2>3, <2>4 DEF Held, JobsSound
  <1>4. PendingHeld'
    <2> SUFFICES ASSUME NEW x \in Requests, call[x] = "pending"
                 PROVE  \/ \E i \in DOMAIN queue'[TierOf[x]] : queue'[TierOf[x]][i] = x
                        \/ \E v \in Workers : job'[v] = x
      BY DEF PendingHeld
    <2>1. CASE x = r
      BY <2>1 DEF Held, TypeOK
    <2>2. CASE x # r /\ \E i \in DOMAIN queue[TierOf[x]] : queue[TierOf[x]][i] = x
      BY <2>2, HeldTake
    <2>3. CASE \E v \in Workers : job[v] = x
      <3> PICK v \in Workers : job[v] = x
        BY <2>3
      <3>1. v # w
        BY DEF Held, JobsSound
      <3>. QED BY <3>1 DEF Held, TypeOK
    <2>. QED BY <2>1, <2>2, <2>3 DEF Held, PendingHeld
  <1>. QED BY <1>1, <1>2, <1>3, <1>4 DEF Held

LEMMA HeldExpire ==
  ASSUME Held, NEW w \in Workers, NEW t \in Tiers, Expire(w, t)
  PROVE  Held'
  <1> PICK r \in Requests :
        /\ worker[w] = "ready"
        /\ Take(t, r)
        /\ call' = [call EXCEPT ![r] = "expired"]
        /\ worker' = [worker EXCEPT ![w] = LoopHead]
        /\ job' = job
    BY DEF Expire
  <1>0. \A x \in Requests : call'[x] = IF x = r THEN "expired" ELSE call[x]
    BY DEF Held, TypeOK
  <1>1. TypeOK'
    BY TypeStep DEF Held, Next, Serve, WorkerStep
  <1>2. QueuesSound'
    BY <1>0, HeldTake DEF QueuesSound
  <1>3. JobsSound'
    <2>1. \A v \in Workers : worker'[v] = "busy" <=> worker[v] = "busy"
      BY DEF Held, TypeOK, LoopHead
    <2>2. \A v \in Workers : job[v] # r
      BY HeldTake
    <2>3. \A v \in Workers : job[v] # None => job[v] \in Requests
      BY DEF Held, TypeOK
    <2>4. \A u \in Tiers : \A i \in DOMAIN queue'[u] :
             \A v \in Workers : job[v] # queue'[u][i]
      BY HeldTake
    <2>. QED BY <1>0, <2>1, <2>2, <2>3, <2>4 DEF Held, JobsSound
  <1>4. PendingHeld'
    <2> SUFFICES ASSUME NEW x \in Requests, call'[x] = "pending"
                 PROVE  \/ \E i \in DOMAIN queue'[TierOf[x]] : queue'[TierOf[x]][i] = x
                        \/ \E v \in Workers : job'[v] = x
      BY DEF PendingHeld
    <2>1. x # r /\ call[x] = "pending"
      BY <1>0
    <2>2. CASE \E i \in DOMAIN queue[TierOf[x]] : queue[TierOf[x]][i] = x
      BY <2>1, <2>2, HeldTake
    <2>3. CASE \E v \in Workers : job[v] = x
      BY <2>3
    <2>. QED BY <2>1, <2>2, <2>3 DEF Held, PendingHeld
  <1>. QED BY <1>1, <1>2, <1>3, <1>4 DEF Held

LEMMA HeldComplete ==
  ASSUME Held, NEW w \in Workers, NEW outcome \in {"result", "error"}, Complete(w, outcome)
  PROVE  Held'
  <1>0. /\ job[w] \in Requests
        /\ \A x \in Requests : call'[x] = IF x = job[w] THEN outcome ELSE call[x]
        /\ \A v \in Workers : job'[v] = IF v = w THEN None ELSE job[v]
        /\ \A v \in Workers : worker'[v] = IF v = w THEN LoopHead ELSE worker[v]
        /\ queue' = queue
        /\ LoopHead # "busy"
    BY DEF Complete, Held, TypeOK, JobsSound, LoopHead
  <1>1. TypeOK'
    BY TypeStep DEF Held, Next, Serve, WorkerStep
  <1>2. QueuesSound'
    <2>1. \A u \in Tiers : \A i \in DOMAIN queue[u] :
             queue[u][i] \in Requests /\ queue[u][i] # job[w]
      <3> SUFFICES ASSUME NEW u \in Tiers, NEW i \in DOMAIN queue[u]
                   PROVE  queue[u][i] \in Requests /\ queue[u][i] # job[w]
        OBVIOUS
      <3>1. queue[u] \in Seq(Requests)
        BY DEF Held, TypeOK
      <3>. QED BY <1>0, <3>1, RequestsAssumption DEF Held, JobsSound
    <2>. QED BY <1>0, <2>1 DEF Held, QueuesSound
  <1>3. JobsSound'
    <2>1. \A v \in Workers : v # w /\ job[v] # None => job[v] \in Requests /\ job[v] # job[w]
      BY <1>0, RequestsAssumption DEF Held, TypeOK, JobsSound
    <2>. QED BY <1>0, <2>1, RequestsAssumption DEF Held, JobsSound
  <1>4. PendingHeld'
    <2> SUFFICES ASSUME NEW x \in Requests, call'[x] = "pending"
                 PROVE  \/ \E i \in DOMAIN queue[TierOf[x]] : queue[TierOf[x]][i] = x
                        \/ \E v \in Workers : job'[v] = x
      BY <1>0 DEF PendingHeld
    <2>1. x # job[w] /\ call[x] = "pending"
      BY <1>0
    <2>. QED BY <1>0, <2>1 DEF Held, PendingHeld
  <1>. QED BY <1>1, <1>2, <1>3, <1>4 DEF Held

LEMMA HeldFlush == ASSUME Held, NEW ts \in TierArguments, Flush(ts) PROVE Held'
  <1> DEFINE dropped == UNION {Waiting(t) : t \in ts}
  <1>0. ts \subseteq Tiers
    BY DEF TierArguments
  <1>1. TypeOK'
    BY TypeStep DEF Held, Next, Manage
  <1>2. /\ \A t \in Tiers : queue'[t] = IF t \in ts THEN <<>> ELSE queue[t]
        /\ \A x \in Requests : call'[x] = IF x \in dropped THEN "flushed" ELSE call[x]
        /\ job' = job /\ worker' = worker
    BY DEF Flush
  <1>3. \A x \in dropped : \E t \in ts : \E i \in DOMAIN queue[t] : queue[t][i] = x
    BY DEF Waiting, Range
  <1>4. \A t \in ts : \A i \in DOMAIN queue[t] : queue[t][i] \in dropped
    BY DEF Waiting, Range
  <1>5. \A x \in dropped : TierOf[x] \in ts /\ \A w \in Workers : job[w] # x
    <2> SUFFICES ASSUME NEW x \in dropped
                 PROVE  TierOf[x] \in ts /\ \A w \in Workers : job[w] # x
      OBVIOUS
    <2>1. PICK t \in ts : \E i \in DOMAIN queue[t] : queue[t][i] = x
      BY <1>3
    <2>2. PICK i \in DOMAIN queue[t] : queue[t][i] = x
      BY <2>1
    <2>3. queue[t] \in Seq(Requests) /\ t \in Tiers
      BY <1>0 DEF Held, TypeOK
    <2>4. x \in Requests /\ x # None
      BY <2>2, <2>3, RequestsAssumption
    <2>. QED BY <2>2, <2>3, <2>4 DEF Held, QueuesSound, JobsSound
  <1>6. QueuesSound'
    <2> SUFFICES ASSUME NEW t \in Tiers
                 PROVE  /\ \A i \in DOMAIN queue'[t] :
                              TierOf[queue'[t][i]] = t /\ call'[queue'[t][i]] = "pending"
                        /\ \A i, j \in DOMAIN queue'[t] :
                              queue'[t][i] = queue'[t][j] => i = j
      BY DEF QueuesSound
    <2>1. CASE t \in ts
      BY <2>1, <1>2
    <2>2. CASE t \notin ts
      <3>1. queue'[t] = queue[t] /\ queue[t] \in Seq(Requests)
        BY <2>2, <1>2 DEF Held, TypeOK
      <3>2. \A i \in DOMAIN queue[t] : queue[t][i] \in Requests /\ TierOf[queue[t][i]] = t
        BY <3>1 DEF Held, QueuesSound
      <3>3. \A i \in DOMAIN queue[t] : call'[queue[t][i]] = call[queue[t][i]]
        BY <2>2, <3>2, <1>2, <1>5
      <3>. QED BY <3>1, <3>3 DEF Held, QueuesSound
    <2>. QED BY <2>1, <2>2
  <1>7. JobsSound'
    <2>1. \A w \in Workers : job[w] # None => call'[job[w]] = call[job[w]]
      BY <1>2, <1>5 DEF Held, TypeOK
    <2>2. \A t \in Tiers : \A i \in DOMAIN queue'[t] :
             i \in DOMAIN queue[t] /\ queue'[t][i] = queue[t][i]
      <3> SUFFICES ASSUME NEW t \in Tiers, NEW i \in DOMAIN queue'[t]
                   PROVE  i \in DOMAIN queue[t] /\ queue'[t][i] = queue[t][i]
        OBVIOUS
      <3>1. t \notin ts
        <4>1. t \in ts => DOMAIN queue'[t] = {}
          BY <1>2
        <4>. QED BY <4>1
      <3>. QED BY <3>1, <1>2
    <2>. QED BY <1>2, <2>1, <2>2 DEF Held, JobsSound
  <1>8. PendingHeld'
    <2> SUFFICES ASSUME NEW x \in Requests, call'[x] = "pending"
                 PROVE  \/ \E i \in DOMAIN queue'[TierOf[x]] : queue'[TierOf[x]][i] = x
                        \/ \E w \in Workers : job[w] = x
      BY <1>2 DEF PendingHeld
    <2>1. x \notin dropped /\ call[x] = "pending" /\ TierOf[x] \in Tiers
      BY <1>2, TierOfAssumption
    <2>2. CASE TierOf[x] \in ts
      BY <2>1, <2>2, <1>4 DEF Held, PendingHeld
    <2>3. CASE TierOf[x] \notin ts
      BY <2>1, <2>3, <1>2 DEF Held, PendingHeld
    <2>. QED BY <2>2, <2>3
  <1>. QED BY <1>1, <1>6, <1>7, <1>8 DEF Held

LEMMA HeldStep == Held /\ [Next]_vars => Held'
  <1> SUFFICES ASSUME Held, [Next]_vars PROVE Held'
    OBVIOUS
  <1>0. TypeOK'
    BY TypeStep DEF Held
  <1>1. ASSUME NEW r \in Requests, EnqueueRefused(r) \/ Collect(r)
        PROVE  Held'
    <2>1. /\ queue' = queue /\ job' = job /\ worker' = worker
          /\ call[r] # "pending" /\ call'[r] # "pending"
          /\ \A x \in Requests \ {r} : call'[x] = call[x]
      BY <1>1 DEF EnqueueRefused, Collect, Answers, Held, TypeOK
    <2>2. \A t \in Tiers : \A i \in DOMAIN queue[t] : queue[t][i] \in Requests \ {r}
      <3> SUFFICES ASSUME NEW t \in Tiers, NEW i \in DOMAIN queue[t]
                   PROVE  queue[t][i] \in Requests \ {r}
        OBVIOUS
      <3>1. queue[t] \in Seq(Requests)
        BY DEF Held, TypeOK
      <3>. QED BY <2>1, <3>1 DEF Held, QueuesSound
    <2>3. \A w \in Workers : job[w] # None => job[w] \in Requests \ {r}
      BY <2>1 DEF Held, TypeOK, JobsSound
    <2>4. QueuesSound'
      BY <2>1, <2>2 DEF Held, QueuesSound
    <2>5. JobsSound'
      BY <2>1, <2>3 DEF Held, JobsSound
    <2>6. PendingHeld'
      BY <2>1 DEF Held, PendingHeld
    <2>. QED BY <1>0, <2>4, <2>5, <2>6 DEF Held
  <1>2. ASSUME NEW r \in Requests, EnqueueAdmitted(r) PROVE Held'
    BY <1>2, HeldAdmit
  <1>3. ASSUME NEW w \in Workers, GoIdle(w) PROVE Held'
    <2>1. /\ queue' = queue /\ job' = job /\ call' = call
          /\ \A v \in Workers : worker'[v] = "busy" <=> worker[v] = "busy"
      BY <1>3 DEF GoIdle, Held, TypeOK
    <2>. QED BY <1>0, <2>1 DEF Held, QueuesSound, JobsSound, PendingHeld
  <1>4. ASSUME NEW w \in Workers, NEW t \in Tiers, Dispatch(w, t) PROVE Held'
    BY <1>4, HeldDispatch
  <1>5. ASSUME NEW w \in Workers, NEW t \in Tiers, Expire(w, t) PROVE Held'
    BY <1>5, HeldExpire
  <1>6. ASSUME NEW w \in Workers, NEW outcome \in {"result", "error"}, Complete(w, outcome)
        PROVE  Held'
    BY <1>6, HeldComplete
  <1>7. ASSUME NEW ts \in TierArguments, Flush(ts) PROVE Held'
    BY <1>7, HeldFlush
  <1>8. ASSUME UNCHANGED <<queue, job, call, worker>> PROVE Held'
    BY <1>0, <1>8 DEF Held, QueuesSound, JobsSound, PendingHeld
  <1>9. ASSUME NEW t \in Tiers, MaxWaitElapses(t) PROVE UNCHANGED <<queue, job, call, worker>>
    BY <1>9 DEF MaxWaitElapses
  <1>10. ASSUME NEW ts \in TierArguments, Pause(ts) \/ Resume(ts)
         PROVE  UNCHANGED <<queue, job, call, worker>>
    BY <1>10 DEF Pause, Resume
  <1>11. ASSUME UNCHANGED vars PROVE UNCHANGED <<queue, job, call, worker>>
    BY <1>11 DEF vars
  <1>. QED
    BY <1>1, <1>2, <1>3, <1>4, <1>5, <1>6, <1>7, <1>8, <1>9, <1>10, <1>11
    DEF Next, Serve, Manage, Enqueue, WorkerStep

LEMMA HeldInit == Init => Held
  <1> SUFFICES ASSUME Init PROVE Held
    OBVIOUS
  <1>1. \A t \in Tiers : DOMAIN queue[t] = {}
    BY DEF Init
  <1>2. /\ \A w \in Workers : job[w] = None /\ worker[w] # "busy"
        /\ \A r \in Requests : call[r] # "pending"
    BY DEF Init
  <1>. QED BY <1>1, <1>2, TypeInit DEF Held, QueuesSound, JobsSound, PendingHeld

\* From the parts to the count.
LEMMA HeldImplies == Held => HeldExactlyOnce
  <1> SUFFICES ASSUME Held, NEW r \in Requests
               PROVE  Cardinality(Places(r)) = IF call[r] = "pending" THEN 1 ELSE 0
    BY DEF HeldExactlyOnce
  <1> DEFINE t == TierOf[r]
  <1>1. t \in Tiers /\ r # None /\ queue[t] \in Seq(Requests)
    BY TierOfAssumption, RequestsAssumption DEF Held, TypeOK
  <1>2. CASE call[r] # "pending"
    <2>1. \A i \in DOMAIN queue[t] : queue[t][i] # r
      BY <1>1, <1>2 DEF Held, QueuesSound
    <2>2. \A w \in Workers : job[w] # r
      BY <1>1, <1>2 DEF Held, JobsSound
    <2>3. Places(r) = {}
      BY <2>1, <2>2 DEF Places
    <2>. QED BY <1>2, <2>3, FS_EmptySet
  <1>3. CASE call[r] = "pending" /\ \E i \in DOMAIN queue[t] : queue[t][i] = r
    <2>1. PICK i \in DOMAIN queue[t] : queue[t][i] = r
      BY <1>3
    <2>2. \A j \in DOMAIN queue[t] : queue[t][j] = r => j = i
      BY <1>1, <2>1 DEF Held, QueuesSound
    <2>3. \A w \in Workers : job[w] # r
      BY <1>1, <2>1 DEF Held, JobsSound
    <2>4. Places(r) = {<<t, i>>}
      BY <2>1, <2>2, <2>3 DEF Places
    <2>. QED BY <1>3, <2>4, FS_Singleton
  <1>4. CASE call[r] = "pending" /\ \E w \in Workers : job[w] = r
    <2>1. PICK w \in Workers : job[w] = r
      BY <1>4
    <2>2. \A v \in Workers : job[v] = r => v = w
      BY <1>1, <2>1 DEF Held, JobsSound
    <2>3. \A i \in DOMAIN queue[t] : queue[t][i] # r
      BY <1>1, <2>1 DEF Held, JobsSound
    <2>4. Places(r) = {<<w>>}
      BY <2>1, <2>2, <2>3 DEF Places
    <2>. QED BY <1>4, <2>4, FS_Singleton
  <1>. QED BY <1>2, <1>3, <1>4 DEF Held, PendingHeld

\* Every request whose handler awaits its future is in exactly one queue
\* position or with exactly one worker; any other request is nowhere.  No
\* request is lost, sent upstream twice, or served after it was answered.
THEOREM HeldExactlyOnceCorrect == Spec => []HeldExactlyOnce
  BY HeldInit, HeldStep, HeldImplies, PTL DEF Spec

-----------------------------------------------------------------------------
(* Consequences for the steps                                              *)

\* A future is completed once: no step answers a request that is answered.
THEOREM AnsweredOnceCorrect == Spec => AnsweredOnce
  <1> DEFINE Once == \A r \in Requests : call[r] \in Answers => call'[r] \in {call[r], "idle"}
  <1>1. Held /\ [Next]_vars => [Once]_vars
    <2> SUFFICES ASSUME Held, [Next]_vars, NEW r \in Requests, call[r] \in Answers
                 PROVE  call'[r] \in {call[r], "idle"}
      OBVIOUS
    <2>0. call[r] # "idle" /\ call[r] # "pending"
      BY DEF Answers
    <2>1. ASSUME NEW x \in Requests, Enqueue(x) \/ Collect(x) PROVE call'[r] \in {call[r], "idle"}
      BY <2>0, <2>1 DEF Enqueue, EnqueueRefused, EnqueueAdmitted, Collect,
                        Held, TypeOK
    <2>2. ASSUME NEW w \in Workers, NEW t \in Tiers, Expire(w, t)
          PROVE  call'[r] = call[r]
      <3> PICK x \in Requests : Take(t, x) /\ call' = [call EXCEPT ![x] = "expired"]
        BY <2>2 DEF Expire
      <3>1. call[x] = "pending"
        BY HeldTake
      <3>. QED BY <2>0, <3>1 DEF Held, TypeOK
    <2>3. ASSUME NEW w \in Workers, NEW outcome \in {"result", "error"}, Complete(w, outcome)
          PROVE  call'[r] = call[r]
      <3>1. call[job[w]] = "pending"
        BY <2>3 DEF Complete, Held, JobsSound
      <3>. QED BY <2>0, <2>3, <3>1 DEF Complete, Held, TypeOK
    <2>4. ASSUME NEW ts \in TierArguments, Flush(ts) PROVE call'[r] = call[r]
      <3>1. ASSUME NEW t \in ts, r \in Waiting(t) PROVE FALSE
        <4>1. PICK i \in DOMAIN queue[t] : queue[t][i] = r
          BY <3>1 DEF Waiting, Range
        <4>. QED BY <2>0, <4>1 DEF TierArguments, Held, QueuesSound
      <3>. QED BY <2>4, <3>1 DEF Flush
    <2>5. ASSUME UNCHANGED call PROVE call'[r] = call[r]
      BY <2>5
    <2>. QED BY <2>1, <2>2, <2>3, <2>4, <2>5
         DEF Next, Serve, Manage, WorkerStep, MaxWaitElapses, GoIdle, Dispatch, Pause, Resume, vars
  <1>. QED BY <1>1, HeldInit, HeldStep, PTL DEF Spec, AnsweredOnce

\* A worker never starts a request while a higher tier has one waiting.
THEOREM StrictPriorityCorrect == Spec => StrictPriority
  <1> DEFINE Strict == \A w \in Workers :
                job[w] = None /\ job'[w] # None
                    => \A u \in Higher(TierOf[job'[w]]) : queue[u] = <<>>
  <1>1. Held /\ [Next]_vars => [Strict]_vars
    <2> SUFFICES ASSUME Held, [Next]_vars,
                        NEW w \in Workers, job[w] = None, job'[w] # None
                 PROVE  \A u \in Higher(TierOf[job'[w]]) : queue[u] = <<>>
      OBVIOUS
    <2>1. ASSUME NEW v \in Workers, NEW t \in Tiers, Dispatch(v, t)
          PROVE  \A u \in Higher(TierOf[job'[w]]) : queue[u] = <<>>
      <3> PICK r \in Requests : Take(t, r) /\ job' = [job EXCEPT ![v] = r]
        BY <2>1 DEF Dispatch
      <3>1. job'[w] = r
        BY DEF Held, TypeOK
      <3>2. TierOf[r] = t
        BY HeldTake
      <3>. QED BY <3>1, <3>2 DEF Take, Selected
    <2>2. ASSUME NEW v \in Workers, NEW outcome \in {"result", "error"}, Complete(v, outcome)
          PROVE  FALSE
      BY <2>2 DEF Complete, Held, TypeOK
    <2>3. ASSUME UNCHANGED job PROVE FALSE
      BY <2>3
    <2>. QED BY <2>1, <2>2, <2>3
         DEF Next, Serve, Manage, Enqueue, EnqueueRefused, EnqueueAdmitted,
             Collect, MaxWaitElapses, WorkerStep, GoIdle, Expire, Pause, Resume, Flush, vars
  <1>. QED BY <1>1, HeldInit, HeldStep, PTL DEF Spec, StrictPriority

-----------------------------------------------------------------------------
(* The in-flight count                                                     *)

Busy == {w \in Workers : worker[w] = "busy"}

LEMMA ActiveStep == TypeOK /\ ActiveExact /\ [Next]_vars => ActiveExact'
  <1> SUFFICES ASSUME TypeOK, active = Cardinality(Busy), [Next]_vars
               PROVE  active' = Cardinality(Busy')
    BY DEF ActiveExact, Busy
  <1>0. IsFiniteSet(Busy)
    BY WorkersAssumption, FS_Subset DEF Busy
  <1>1. ASSUME UNCHANGED active, \A w \in Workers : worker'[w] = "busy" <=> worker[w] = "busy"
        PROVE  active' = Cardinality(Busy')
    <2>1. Busy' = Busy
      BY <1>1 DEF Busy
    <2>. QED BY <1>1, <2>1
  <1>2. ASSUME NEW r \in Requests, Enqueue(r) \/ Collect(r)
        PROVE  UNCHANGED active /\ \A w \in Workers : worker'[w] = "busy" <=> worker[w] = "busy"
    BY <1>2 DEF Enqueue, EnqueueRefused, EnqueueAdmitted, WakeWorkers, Collect,
                TypeOK
  <1>3. ASSUME NEW w \in Workers, GoIdle(w)
        PROVE  UNCHANGED active /\ \A v \in Workers : worker'[v] = "busy" <=> worker[v] = "busy"
    BY <1>3 DEF GoIdle, TypeOK
  <1>4. ASSUME NEW w \in Workers, NEW t \in Tiers, Expire(w, t)
        PROVE  UNCHANGED active /\ \A v \in Workers : worker'[v] = "busy" <=> worker[v] = "busy"
    BY <1>4 DEF Expire, LoopHead, TypeOK
  <1>5. ASSUME NEW w \in Workers, NEW t \in Tiers, Dispatch(w, t)
        PROVE  active' = Cardinality(Busy')
    <2>1. w \notin Busy /\ Busy' = Busy \union {w}
      BY <1>5 DEF Dispatch, Busy, TypeOK
    <2>2. active' = active + 1
      BY <1>5 DEF Dispatch
    <2>. QED BY <1>0, <2>1, <2>2, FS_AddElement
  <1>6. ASSUME NEW w \in Workers, NEW outcome \in {"result", "error"}, Complete(w, outcome)
        PROVE  active' = Cardinality(Busy')
    <2>1. w \in Busy /\ Busy' = Busy \ {w}
      BY <1>6 DEF Complete, LoopHead, Busy, TypeOK
    <2>2. active' = active - 1
      BY <1>6 DEF Complete
    <2>. QED BY <1>0, <2>1, <2>2, FS_RemoveElement
  <1>7. ASSUME UNCHANGED <<active, worker>> PROVE active' = Cardinality(Busy')
    BY <1>7 DEF Busy
  <1>. QED BY <1>1, <1>2, <1>3, <1>4, <1>5, <1>6, <1>7
       DEF Next, Serve, Manage, MaxWaitElapses, WorkerStep, Pause, Resume, Flush, vars

\* The published in-flight count is the number of workers inside dispatch_fn().
THEOREM ActiveExactCorrect == Spec => []ActiveExact
  <1>1. Init => ActiveExact
    <2> SUFFICES ASSUME Init PROVE ActiveExact
      OBVIOUS
    <2>1. {w \in Workers : worker[w] = "busy"} = {}
      BY DEF Init
    <2>. QED BY <2>1, FS_EmptySet DEF Init, ActiveExact
  <1>. QED BY <1>1, ActiveStep, TypeCorrect, PTL DEF Spec

-----------------------------------------------------------------------------
(* The set of waiting requests                                             *)

LEMMA WaitingMember ==
  ASSUME NEW x
  PROVE  x \in AllWaiting <=> \E t \in Tiers : \E i \in DOMAIN queue[t] : queue[t][i] = x
  BY DEF AllWaiting, Waiting, Range

LEMMA WaitingMemberNext ==
  ASSUME NEW x
  PROVE  x \in AllWaiting' <=> \E t \in Tiers : \E i \in DOMAIN queue'[t] : queue'[t][i] = x
  BY DEF AllWaiting, Waiting, Range

LEMMA QueuedFacts ==
  ASSUME Held, NEW t \in Tiers, NEW i \in DOMAIN queue[t]
  PROVE  /\ queue[t][i] \in Requests /\ TierOf[queue[t][i]] = t
         /\ call[queue[t][i]] = "pending"
  <1>1. queue[t] \in Seq(Requests)
    BY DEF Held, TypeOK
  <1>. QED BY <1>1 DEF Held, QueuesSound

\* What waits are sessions; there are finitely many.
LEMMA WaitingFinite == Held => AllWaiting \subseteq Requests /\ IsFiniteSet(AllWaiting)
  <1> SUFFICES ASSUME Held PROVE AllWaiting \subseteq Requests /\ IsFiniteSet(AllWaiting)
    OBVIOUS
  <1>1. AllWaiting \subseteq Requests
    BY WaitingMember, QueuedFacts
  <1>. QED BY <1>1, RequestsAssumption, FS_Subset

LEMMA AdmitWaiting ==
  ASSUME Held, NEW r \in Requests, EnqueueAdmitted(r)
  PROVE  AllWaiting' = AllWaiting \union {r} /\ r \notin AllWaiting
  <1> DEFINE t == TierOf[r]
             q == queue[t]
  <1>1. t \in Tiers /\ q \in Seq(Requests)
    BY TierOfAssumption DEF Held, TypeOK
  <1>2. /\ queue'[t] = Append(q, r)
        /\ \A u \in Tiers \ {t} : queue'[u] = queue[u]
        /\ call[r] = "idle" /\ call' = [call EXCEPT ![r] = "pending"]
        /\ job' = job
    BY <1>1 DEF EnqueueAdmitted, Held, TypeOK
  <1>3. /\ DOMAIN queue'[t] = DOMAIN q \union {Len(q) + 1}
        /\ \A i \in DOMAIN q : queue'[t][i] = q[i]
        /\ queue'[t][Len(q) + 1] = r
    BY <1>1, <1>2, AppendFacts
  <1>4. ASSUME NEW x PROVE x \in AllWaiting' <=> x \in AllWaiting \union {r}
    <2>1. ASSUME x \in AllWaiting' PROVE x \in AllWaiting \union {r}
      <3>1. PICK u \in Tiers : \E i \in DOMAIN queue'[u] : queue'[u][i] = x
        BY <2>1, WaitingMemberNext
      <3>2. CASE u = t
        BY <3>1, <3>2, <1>1, <1>3, WaitingMember
      <3>3. CASE u # t
        BY <3>1, <3>3, <1>2, WaitingMember
      <3>. QED BY <3>2, <3>3
    <2>2. ASSUME x \in AllWaiting PROVE x \in AllWaiting'
      <3>1. PICK u \in Tiers : \E i \in DOMAIN queue[u] : queue[u][i] = x
        BY <2>2, WaitingMember
      <3>2. \E i \in DOMAIN queue'[u] : queue'[u][i] = x
        BY <3>1, <1>2, <1>3
      <3>. QED BY <3>2, WaitingMemberNext
    <2>3. r \in AllWaiting'
      BY <1>1, <1>3, WaitingMemberNext
    <2>. QED BY <2>1, <2>2, <2>3
  <1>5. r \notin AllWaiting
    BY <1>2, WaitingMember DEF Held, QueuesSound
  <1>. QED BY <1>4, <1>5

LEMMA TakeWaiting ==
  ASSUME Held, NEW t \in Tiers, NEW r \in Requests, Take(t, r)
  PROVE  r \in AllWaiting /\ AllWaiting' = AllWaiting \ {r}
  <1>1. /\ queue[t] \in Seq(Requests) /\ queue[t] # <<>>
        /\ r = queue[t][1]
        /\ queue'[t] = Tail(queue[t])
        /\ \A u \in Tiers \ {t} : queue'[u] = queue[u]
    BY TakeFacts DEF Held
  <1>2. /\ 1 \in DOMAIN queue[t]
        /\ \A i \in DOMAIN Tail(queue[t]) :
              i + 1 \in DOMAIN queue[t] /\ Tail(queue[t])[i] = queue[t][i + 1]
    BY <1>1, TailFacts
  <1>3. r \in AllWaiting /\ TierOf[r] = t
    BY <1>1, <1>2, HeldTake, WaitingMember
  <1>4. ASSUME NEW x \in AllWaiting' PROVE x \in AllWaiting \ {r}
    <2>1. PICK u \in Tiers : \E i \in DOMAIN queue'[u] : queue'[u][i] = x
      BY WaitingMemberNext
    <2>2. x # r
      BY <2>1, HeldTake
    <2>3. \E i \in DOMAIN queue[u] : queue[u][i] = x
      <3>1. CASE u = t
        BY <2>1, <3>1, <1>1, <1>2
      <3>2. CASE u # t
        BY <2>1, <3>2, <1>1
      <3>. QED BY <3>1, <3>2
    <2>. QED BY <2>2, <2>3, WaitingMember
  <1>5. ASSUME NEW x \in AllWaiting \ {r} PROVE x \in AllWaiting'
    <2>1. PICK u \in Tiers : \E i \in DOMAIN queue[u] : queue[u][i] = x
      BY WaitingMember
    <2>2. x \in Requests \ {r} /\ TierOf[x] = u
      BY <2>1, QueuedFacts DEF Held
    <2>3. \E i \in DOMAIN queue'[TierOf[x]] : queue'[TierOf[x]][i] = x
      BY <2>1, <2>2, HeldTake
    <2>. QED BY <2>2, <2>3, WaitingMemberNext
  <1>. QED BY <1>3, <1>4, <1>5

LEMMA FlushWaiting ==
  ASSUME Held, NEW ts \in TierArguments, Flush(ts)
  PROVE  LET dropped == UNION {Waiting(t) : t \in ts}
         IN  dropped \subseteq AllWaiting /\ AllWaiting' = AllWaiting \ dropped
  <1> DEFINE dropped == UNION {Waiting(t) : t \in ts}
  <1>0. ts \subseteq Tiers
    BY DEF TierArguments
  <1>1. /\ \A t \in Tiers : queue'[t] = IF t \in ts THEN <<>> ELSE queue[t]
        /\ call' = [r \in Requests |-> IF r \in dropped THEN "flushed" ELSE call[r]]
        /\ job' = job
    BY DEF Flush
  <1>2. ASSUME NEW x PROVE x \in dropped <=> \E t \in ts : \E i \in DOMAIN queue[t] : queue[t][i] = x
    BY DEF Waiting, Range
  <1>3. \A t \in Tiers : \A i \in DOMAIN queue[t] :
           queue[t][i] \in Requests /\ TierOf[queue[t][i]] = t
    BY QueuedFacts
  <1>4. dropped \subseteq AllWaiting
    <2> SUFFICES ASSUME NEW x \in dropped PROVE x \in AllWaiting
      OBVIOUS
    <2>. QED BY <1>0, <1>2, WaitingMember
  <1>5. ASSUME NEW x PROVE x \in AllWaiting' <=> x \in AllWaiting \ dropped
    <2> HIDE DEF dropped
    <2>1. ASSUME x \in AllWaiting' PROVE x \in AllWaiting \ dropped
      <3>1. PICK t \in Tiers : \E i \in DOMAIN queue'[t] : queue'[t][i] = x
        BY <2>1, WaitingMemberNext
      <3>2. t \notin ts
        <4>1. t \in ts => DOMAIN queue'[t] = {}
          BY <1>1
        <4>. QED BY <3>1, <4>1
      <3>3. \E i \in DOMAIN queue[t] : queue[t][i] = x
        BY <3>1, <3>2, <1>1
      <3>4. x \notin dropped
        BY <3>2, <3>3, <1>0, <1>2, <1>3
      <3>. QED BY <3>3, <3>4, WaitingMember
    <2>2. ASSUME x \in AllWaiting, x \notin dropped PROVE x \in AllWaiting'
      <3>1. PICK t \in Tiers : \E i \in DOMAIN queue[t] : queue[t][i] = x
        BY <2>2, WaitingMember
      <3>2. t \notin ts
        BY <2>2, <3>1, <1>2
      <3>3. \E i \in DOMAIN queue'[t] : queue'[t][i] = x
        BY <3>1, <3>2, <1>1
      <3>. QED BY <3>3, WaitingMemberNext
    <2>. QED BY <2>1, <2>2
  <1>6. AllWaiting' = AllWaiting \ dropped
    BY <1>5
  <1>. QED BY <1>4, <1>6

-----------------------------------------------------------------------------
(* The bytes                                                               *)

LEMMA BytesAreTotal ==
  /\ WaitingBytes = Total(NBytes, AllWaiting)
  /\ WaitingBytes' = Total(NBytes, AllWaiting')
  <1>1. WaitingBytes = Total(NBytes, AllWaiting)
    BY Zenon DEF WaitingBytes, Total, MapThenSumSet, MapThenFoldSet
  <1>2. (WaitingBytes = Total(NBytes, AllWaiting))'
    BY <1>1, PTL
  <1>. QED BY <1>1, <1>2

LEMMA BytesNat ==
  ASSUME Held
  PROVE  /\ Numeric(NBytes, AllWaiting)
         /\ WaitingBytes \in Nat
  <1>1. Numeric(NBytes, AllWaiting)
    BY WaitingFinite, NBytesAssumption DEF Numeric
  <1>. QED BY <1>1, WaitingFinite, BytesAreTotal, TotalNat

LEMMA AdmitBytes ==
  ASSUME Held, NEW r \in Requests, EnqueueAdmitted(r)
  PROVE  WaitingBytes' = NBytes[r] + WaitingBytes
  <1>1. AllWaiting' = AllWaiting \union {r} /\ r \notin AllWaiting
    BY AdmitWaiting
  <1>2. NBytes[r] \in Nat
    BY NBytesAssumption
  <1>. QED BY <1>1, <1>2, WaitingFinite, BytesNat, BytesAreTotal, TotalAdd

LEMMA TakeBytes ==
  ASSUME Held, NEW t \in Tiers, NEW r \in Requests, Take(t, r)
  PROVE  WaitingBytes = NBytes[r] + WaitingBytes'
  <1>1. r \in AllWaiting /\ AllWaiting' = AllWaiting \ {r}
    BY TakeWaiting
  <1>. QED BY <1>1, WaitingFinite, BytesNat, BytesAreTotal, TotalRemove

LEMMA FlushBytes ==
  ASSUME Held, NEW ts \in TierArguments, Flush(ts)
  PROVE  WaitingBytes' <= WaitingBytes
  <1>1. AllWaiting' \in SUBSET AllWaiting
    BY FlushWaiting
  <1>. QED BY <1>1, WaitingFinite, BytesNat, BytesAreTotal, TotalMonotone

\* The account is never below what it stands for: flushes leave it above.  Without
\* this an enqueue against a full ceiling could be let in.
Covered == WaitingBytes <= queued_bytes

LEMMA EmptyWaiting == AllEmpty => AllWaiting = {}
  BY WaitingMember DEF AllEmpty

LEMMA CeilingStep == Held /\ Held' /\ Covered /\ MemoryCeiling /\ [Next]_vars => Covered' /\ MemoryCeiling'
  <1> SUFFICES ASSUME Held, Held', Covered, MemoryCeiling, [Next]_vars
               PROVE  Covered' /\ MemoryCeiling'
    OBVIOUS
  <1> DEFINE bytes == WaitingBytes
             n == Cardinality(AllWaiting)
  <1>0. /\ bytes \in Nat /\ bytes' \in Nat /\ queued_bytes \in Nat /\ MaxQueuedBytes \in Nat
        /\ IsFiniteSet(AllWaiting) /\ IsFiniteSet(AllWaiting') /\ n \in Nat
    <2>1. IsFiniteSet(AllWaiting) /\ bytes \in Nat
      BY WaitingFinite, BytesNat
    <2>2. IsFiniteSet(AllWaiting)' /\ (bytes \in Nat)'
      BY WaitingFinite, BytesNat, PTL
    <2>. QED BY <2>1, <2>2, LimitsAssumption, FS_CardinalityType DEF Held, TypeOK
  <1>1. ASSUME AllWaiting' \subseteq AllWaiting, bytes' <= bytes PROVE MemoryCeiling'
    <2>1. CASE bytes <= MaxQueuedBytes
      BY <1>0, <1>1, <2>1 DEF MemoryCeiling
    <2>2. CASE n = 1 /\ AllWaiting' = AllWaiting
      BY <2>2 DEF MemoryCeiling
    <2>3. CASE n = 1 /\ AllWaiting' # AllWaiting
      <3>1. Cardinality(AllWaiting') \in Nat /\ Cardinality(AllWaiting') < 1
        BY <1>0, <1>1, <2>3, FS_Subset, FS_CardinalityType
      <3>2. AllWaiting' = {}
        BY <3>1, <1>0, FS_EmptySet
      <3>3. bytes' = 0
        BY <3>2, BytesAreTotal, TotalEmpty
      <3>. QED BY <3>3, <1>0 DEF MemoryCeiling
    <2>. QED BY <2>1, <2>2, <2>3 DEF MemoryCeiling
  <1>2. ASSUME NEW r \in Requests, EnqueueAdmitted(r) PROVE Covered' /\ MemoryCeiling'
    <2>1. bytes' = NBytes[r] + bytes /\ queued_bytes' = queued_bytes + NBytes[r] /\ NBytes[r] \in Nat
      BY <1>2, AdmitBytes, NBytesAssumption DEF EnqueueAdmitted
    <2>2. Covered'
      BY <1>0, <2>1 DEF Covered
    <2>3. CASE queued_bytes + NBytes[r] <= MaxQueuedBytes
      BY <1>0, <2>1, <2>3 DEF Covered, MemoryCeiling
    <2>4. CASE AllEmpty
      <3>1. AllWaiting' = {r}
        BY <1>2, <2>4, AdmitWaiting, EmptyWaiting
      <3>. QED BY <2>2, <3>1, FS_Singleton DEF MemoryCeiling
    <2>5. queued_bytes + NBytes[r] <= MaxQueuedBytes \/ AllEmpty
      BY <1>0, <1>2, <2>1 DEF EnqueueAdmitted, OverCapacity
    <2>. QED BY <2>2, <2>3, <2>4, <2>5
  <1>3. ASSUME NEW t \in Tiers, NEW r \in Requests, Take(t, r) PROVE Covered' /\ MemoryCeiling'
    <2>1. /\ bytes = NBytes[r] + bytes' /\ NBytes[r] \in Nat
          /\ queued_bytes' = Released(r) /\ AllWaiting' \subseteq AllWaiting
      BY <1>3, TakeBytes, TakeWaiting, NBytesAssumption DEF Take
    <2>2. Covered'
      BY <1>0, <2>1 DEF Covered, Released
    <2>. QED BY <1>0, <1>1, <2>1, <2>2
  <1>4. ASSUME NEW ts \in TierArguments, Flush(ts) PROVE Covered' /\ MemoryCeiling'
    <2>1. bytes' <= bytes /\ AllWaiting' \subseteq AllWaiting /\ queued_bytes' = queued_bytes
      BY <1>4, FlushBytes, FlushWaiting DEF Flush
    <2>. QED BY <1>0, <1>1, <2>1 DEF Covered
  <1>5. ASSUME UNCHANGED <<queue, queued_bytes>> PROVE Covered' /\ MemoryCeiling'
    <2>1. AllWaiting' = AllWaiting
      BY <1>5 DEF AllWaiting, Waiting
    <2>2. bytes' = bytes
      BY <2>1, BytesAreTotal
    <2>. QED BY <1>5, <2>1, <2>2 DEF Covered, MemoryCeiling
  <1>. QED BY <1>2, <1>3, <1>4, <1>5
       DEF Next, Serve, Manage, Enqueue, EnqueueRefused, Collect, MaxWaitElapses, WorkerStep,
           GoIdle, Dispatch, Expire, Complete, Pause, Resume, vars

LEMMA CeilingInit == Init => Covered /\ MemoryCeiling
  <1> SUFFICES ASSUME Init PROVE Covered /\ MemoryCeiling
    OBVIOUS
  <1>1. AllWaiting = {}
    BY EmptyWaiting DEF Init, AllEmpty
  <1>2. WaitingBytes = 0
    BY <1>1, BytesAreTotal, TotalEmpty
  <1>. QED BY <1>2, LimitsAssumption DEF Init, Covered, MemoryCeiling

\* The ceiling bounds the bytes that wait, except for a single request that was
\* admitted against empty queues.
THEOREM MemoryCeilingCorrect == Spec => []MemoryCeiling
  BY HeldInit, HeldStep, CeilingInit, CeilingStep, PTL DEF Spec

\* Only flush() makes the account and the bytes that wait drift apart.
THEOREM OnlyFlushDriftsCorrect == Spec => OnlyFlushDrifts
  <1> DEFINE Drift == queued_bytes' - WaitingBytes' # queued_bytes - WaitingBytes
                         => \E r \in Requests : call[r] = "pending" /\ call'[r] = "flushed"
  <1>1. Held /\ Held' /\ Covered /\ [Next]_vars => [Drift]_vars
    <2> SUFFICES ASSUME Held, Held', Covered, [Next]_vars PROVE Drift
      OBVIOUS
    <2>0. WaitingBytes \in Nat /\ WaitingBytes' \in Nat /\ queued_bytes \in Nat
      <3>1. (WaitingBytes \in Nat)'
        BY BytesNat, PTL
      <3>. QED BY <3>1, BytesNat DEF Held, TypeOK
    <2>1. ASSUME NEW r \in Requests, EnqueueAdmitted(r) PROVE Drift
      <3>1. WaitingBytes' = NBytes[r] + WaitingBytes /\ queued_bytes' = queued_bytes + NBytes[r]
            /\ NBytes[r] \in Nat
        BY <2>1, AdmitBytes, NBytesAssumption DEF EnqueueAdmitted
      <3>. QED BY <2>0, <3>1
    <2>2. ASSUME NEW t \in Tiers, NEW r \in Requests, Take(t, r) PROVE Drift
      <3>1. WaitingBytes = NBytes[r] + WaitingBytes' /\ NBytes[r] \in Nat
            /\ queued_bytes' = Released(r)
        BY <2>2, TakeBytes, NBytesAssumption DEF Take
      <3>. QED BY <2>0, <3>1 DEF Covered, Released
    <2>3. ASSUME NEW ts \in TierArguments, Flush(ts) PROVE Drift
      <3> DEFINE dropped == UNION {Waiting(t) : t \in ts}
      <3>1. CASE dropped = {}
        <4>1. AllWaiting' = AllWaiting
          BY <2>3, <3>1, FlushWaiting
        <4>. QED BY <2>3, <4>1, BytesAreTotal DEF Flush
      <3>2. CASE dropped # {}
        <4>1. PICK x \in dropped : TRUE
          BY <3>2
        <4>2. x \in AllWaiting /\ call'[x] = "flushed" /\ x \in Requests
          BY <2>3, FlushWaiting, WaitingFinite DEF Flush
        <4>3. call[x] = "pending"
          BY <4>2, WaitingMember, QueuedFacts
        <4>. QED BY <4>2, <4>3
      <3>. QED BY <3>1, <3>2
    <2>4. ASSUME UNCHANGED <<queue, queued_bytes>> PROVE Drift
      <3>1. AllWaiting' = AllWaiting
        BY <2>4 DEF AllWaiting, Waiting
      <3>. QED BY <2>4, <3>1, BytesAreTotal
    <2>. QED BY <2>1, <2>2, <2>3, <2>4
         DEF Next, Serve, Manage, Enqueue, EnqueueRefused, Collect, MaxWaitElapses, WorkerStep,
             GoIdle, Dispatch, Expire, Complete, Pause, Resume, vars
  <1>. QED BY <1>1, HeldInit, HeldStep, CeilingInit, CeilingStep, PTL DEF Spec, OnlyFlushDrifts

\* Empty queues turn nobody away whose tier is not paused, however large.
THEOREM EmptyQueuesAdmitCorrect == Spec => EmptyQueuesAdmit
  <1> DEFINE Admitted == \A r \in Requests :
                call[r] = "idle" /\ call'[r] = "refused" /\ TierOf[r] \notin paused => ~AllEmpty
  <1>1. Held /\ [Next]_vars => [Admitted]_vars
    <2> SUFFICES ASSUME Held, [Next]_vars, NEW r \in Requests,
                        call[r] = "idle", call'[r] = "refused", TierOf[r] \notin paused, AllEmpty
                 PROVE  FALSE
      OBVIOUS
    <2>1. ASSUME NEW x \in Requests, EnqueueRefused(x) PROVE FALSE
      <3>1. x = r
        BY <2>1 DEF EnqueueRefused, Held, TypeOK
      <3>2. queue[TierOf[r]] = <<>> /\ MaxDepth[TierOf[r]] \in Nat \ {0}
        BY TierOfAssumption, LimitsAssumption DEF AllEmpty
      <3>3. Len(queue[TierOf[r]]) = 0
        BY <3>2
      <3>. QED BY <2>1, <3>1, <3>2, <3>3 DEF EnqueueRefused, OverCapacity
    <2>2. ASSUME NEW x \in Requests, EnqueueAdmitted(x) \/ Collect(x) PROVE FALSE
      BY <2>2 DEF EnqueueAdmitted, Collect, Held, TypeOK
    <2>3. ASSUME NEW w \in Workers, NEW t \in Tiers, Expire(w, t) PROVE FALSE
      BY <2>3 DEF Expire, Held, TypeOK
    <2>4. ASSUME NEW w \in Workers, NEW outcome \in {"result", "error"}, Complete(w, outcome)
          PROVE  FALSE
      BY <2>4 DEF Complete, Held, TypeOK
    <2>5. ASSUME NEW ts \in TierArguments, Flush(ts) PROVE FALSE
      BY <2>5 DEF Flush
    <2>6. ASSUME UNCHANGED call PROVE FALSE
      BY <2>6
    <2>. QED BY <2>1, <2>2, <2>3, <2>4, <2>5, <2>6
         DEF Next, Serve, Manage, Enqueue, WorkerStep, MaxWaitElapses, GoIdle, Dispatch,
             Pause, Resume, vars
  <1>. QED BY <1>1, HeldInit, HeldStep, PTL DEF Spec, EmptyQueuesAdmit

-----------------------------------------------------------------------------
(* Order within a tier                                                     *)

LEMMA PositionIs ==
  ASSUME NEW q, NEW k \in DOMAIN q, \A i, j \in DOMAIN q : q[i] = q[j] => i = j
  PROVE  Position(q, q[k]) = k
  BY DEF Position

\* Requests of one tier leave it in the order in which they came.
THEOREM NoOvertakingCorrect == Spec => NoOvertaking
  <1> DEFINE Ordered == \A t \in Tiers : \A i, j \in DOMAIN queue[t] :
                i < j /\ queue[t][i] \in Range(queue'[t])
                    => /\ queue[t][j] \in Range(queue'[t])
                       /\ Position(queue'[t], queue[t][i]) < Position(queue'[t], queue[t][j])
  <1>1. Held /\ Held' /\ [Next]_vars => [Ordered]_vars
    <2> SUFFICES ASSUME Held, Held', [Next]_vars, NEW t \in Tiers,
                        NEW i \in DOMAIN queue[t], NEW j \in DOMAIN queue[t], i < j,
                        queue[t][i] \in Range(queue'[t])
                 PROVE  /\ queue[t][j] \in Range(queue'[t])
                        /\ Position(queue'[t], queue[t][i]) < Position(queue'[t], queue[t][j])
      OBVIOUS
    <2> DEFINE Goal == /\ queue[t][j] \in Range(queue'[t])
                       /\ Position(queue'[t], queue[t][i]) < Position(queue'[t], queue[t][j])
    <2>0. queue[t] \in Seq(Requests) /\ i \in Nat /\ j \in Nat
      BY DEF Held, TypeOK
    <2>1. \A k, l \in DOMAIN queue'[t] : queue'[t][k] = queue'[t][l] => k = l
      BY DEF Held, QueuesSound
    <2>2. ASSUME NEW d \in {0, 1}, i - d \in DOMAIN queue'[t], j - d \in DOMAIN queue'[t],
                 queue'[t][i - d] = queue[t][i], queue'[t][j - d] = queue[t][j]
          PROVE  Goal
      <3>1. Position(queue'[t], queue[t][i]) = i - d /\ Position(queue'[t], queue[t][j]) = j - d
        BY <2>1, <2>2, PositionIs
      <3>2. i - d < j - d
        BY <2>0
      <3>. QED BY <2>2, <3>1, <3>2 DEF Range
    <2>3. CASE queue'[t] = queue[t]
      <3>1. i - 0 = i /\ j - 0 = j
        BY <2>0
      <3>. QED BY <2>2, <2>3, <3>1
    <2>4. ASSUME NEW r \in Requests, EnqueueAdmitted(r) PROVE Goal
      <3>1. CASE TierOf[r] = t
        <4>1. queue'[t] = Append(queue[t], r)
          BY <2>4, <3>1 DEF EnqueueAdmitted, Held, TypeOK
        <4>2. \A k \in DOMAIN queue[t] : k \in DOMAIN queue'[t] /\ queue'[t][k] = queue[t][k]
          BY <2>0, <4>1, AppendFacts
        <4>3. i - 0 = i /\ j - 0 = j
          BY <2>0
        <4>. QED BY <2>2, <4>2, <4>3
      <3>2. CASE TierOf[r] # t
        BY <2>3, <2>4, <3>2 DEF EnqueueAdmitted, Held, TypeOK
      <3>. QED BY <3>1, <3>2
    <2>5. ASSUME NEW u \in Tiers, NEW r \in Requests, Take(u, r) PROVE Goal
      <3>1. CASE u = t
        <4>1. /\ queue[t] # <<>> /\ r = queue[t][1] /\ queue'[t] = Tail(queue[t])
          BY <2>5, <3>1, TakeFacts DEF Held
        <4>2. i # 1
          <5>1. \A k \in DOMAIN queue'[t] : queue'[t][k] # r
            BY <2>5, HeldTake
          <5>. QED BY <4>1, <5>1 DEF Range
        <4>3. j # 1
          BY <2>0, <4>1
        <4>4. \A k \in DOMAIN queue[t] :
                 k # 1 => k - 1 \in DOMAIN queue'[t] /\ queue'[t][k - 1] = queue[t][k]
          BY <2>0, <4>1, TailFacts
        <4>. QED BY <2>2, <4>2, <4>3, <4>4
      <3>2. CASE u # t
        BY <2>3, <2>5, <3>2, TakeFacts DEF Held
      <3>. QED BY <3>1, <3>2
    <2>6. ASSUME NEW ts \in TierArguments, Flush(ts) PROVE Goal
      <3>1. queue'[t] = <<>> \/ queue'[t] = queue[t]
        BY <2>6 DEF Flush
      <3>2. queue'[t] # <<>>
        BY DEF Range
      <3>. QED BY <2>3, <3>1, <3>2
    <2>7. ASSUME UNCHANGED queue PROVE Goal
      BY <2>3, <2>7
    <2>. QED BY <2>4, <2>5, <2>6, <2>7
         DEF Next, Serve, Manage, Enqueue, EnqueueRefused, Collect, MaxWaitElapses, WorkerStep,
             GoIdle, Dispatch, Expire, Complete, Pause, Resume, vars
  <1>. QED BY <1>1, HeldInit, HeldStep, PTL DEF Spec, NoOvertaking
=============================================================================
