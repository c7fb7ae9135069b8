---------------------- MODULE PriorityQueue_refinement ----------------------
(***************************************************************************)
(* PriorityQueue implements RequestService, for any constants.  The step   *)
(* simulation rests on the inductive invariant Held of                     *)
(* PriorityQueue_proofs: without it a worker could hold what a queue also  *)
(* holds, and a Take would not remove a request from the waiting set.      *)
(***************************************************************************)
EXTENDS PriorityQueue_proofs

Running == {job[w] : w \in Workers} \ {None}

LEMMA AdmitSimulation ==
  ASSUME Held, NEW r \in Requests, EnqueueAdmitted(r)
  PROVE  Service!Admit(r)
  <1>1. /\ call[r] = "idle" /\ call' = [call EXCEPT ![r] = "pending"]
        /\ job' = job
    BY DEF EnqueueAdmitted
  <1>. QED BY <1>1, AdmitWaiting DEF Service!Admit

LEMMA TakeSimulation ==
  ASSUME Held, NEW t \in Tiers, NEW r \in Requests, Take(t, r)
  PROVE  Service!Due(r) /\ AllWaiting' = AllWaiting \ {r}
  <1>1. r \in AllWaiting /\ AllWaiting' = AllWaiting \ {r} /\ TierOf[r] = t
    BY TakeWaiting, HeldTake
  <1>2. ASSUME NEW x \in AllWaiting PROVE TierOf[x] \notin Higher(t) /\ x \in Requests
    <2>1. PICK u \in Tiers : \E i \in DOMAIN queue[u] : queue[u][i] = x
      BY WaitingMember
    <2>2. x \in Requests /\ TierOf[x] = u /\ queue[u] # <<>>
      BY <2>1, QueuedFacts
    <2>. QED BY <2>2 DEF Take, Selected
  <1>. QED BY <1>1, <1>2 DEF Service!Due

\* A worker that can take a request holds none, so not all of them run.
LEMMA RunningBound ==
  ASSUME Held, NEW w \in Workers, worker[w] = "ready"
  PROVE  Cardinality(Running) < Cardinality(Workers)
  <1> DEFINE Others == Workers \ {w}
             f == [v \in Others |-> job[v]]
             T == {job[v] : v \in Others}
  <1>1. IsFiniteSet(Others) /\ Cardinality(Others) = Cardinality(Workers) - 1
    BY WorkersAssumption, FS_RemoveElement
  <1>2. f \in Surjection(Others, T)
    BY DEF Surjection
  <1>3. IsFiniteSet(T) /\ Cardinality(T) <= Cardinality(Others)
    <2> HIDE DEF f, T
    <2>. QED BY <1>1, <1>2, FS_Surjection
  <1>4. job[w] = None
    BY DEF Held, JobsSound
  <1>5. Running \subseteq T
    BY <1>4 DEF Running
  <1>6. Cardinality(Running) <= Cardinality(T)
    <2> HIDE DEF T
    <2>. QED BY <1>3, <1>5, FS_Subset
  <1>7. Cardinality(Workers) \in Nat /\ Cardinality(Others) \in Nat /\ Cardinality(T) \in Nat
        /\ Cardinality(Running) \in Nat
    <2> HIDE DEF T, Others
    <2>. QED BY <1>1, <1>3, <1>5, WorkersAssumption, FS_Subset, FS_CardinalityType
  <1>. QED BY <1>1, <1>3, <1>6, <1>7

LEMMA DispatchSimulation ==
  ASSUME Held, NEW w \in Workers, NEW t \in Tiers, Dispatch(w, t)
  PROVE  \E r \in Requests : Service!Start(r)
  <1> PICK r \in Requests :
        worker[w] = "ready" /\ Take(t, r) /\ job' = [job EXCEPT ![w] = r] /\ call' = call
    BY DEF Dispatch
  <1>1. job[w] = None /\ r # None
    BY RequestsAssumption DEF Held, JobsSound
  <1>2. \A v \in Workers : job'[v] = IF v = w THEN r ELSE job[v]
    BY DEF Held, TypeOK
  <1>3. Running' = Running \union {r}
    BY <1>1, <1>2 DEF Running
  <1>4. Cardinality(Running) < Cardinality(Workers)
    BY RunningBound
  <1>5. Service!Due(r) /\ AllWaiting' = AllWaiting \ {r}
    BY TakeSimulation
  <1>. QED BY <1>3, <1>4, <1>5 DEF Service!Start, FreeWorker, Running

LEMMA ExpireSimulation ==
  ASSUME Held, NEW w \in Workers, NEW t \in Tiers, Expire(w, t)
  PROVE  \E r \in Requests : Service!Expire(r)
  <1> PICK r \in Requests :
        Take(t, r) /\ job' = job /\ call' = [call EXCEPT ![r] = "expired"]
    BY DEF Expire
  <1>1. Service!Due(r) /\ AllWaiting' = AllWaiting \ {r}
    BY TakeSimulation
  <1>. QED BY <1>1 DEF Service!Expire

LEMMA CompleteSimulation ==
  ASSUME Held, NEW w \in Workers, NEW outcome \in {"result", "error"}, Complete(w, outcome)
  PROVE  \E r \in Requests : Service!Finish(r, outcome)
  <1>1. /\ job[w] \in Requests /\ job[w] # None
        /\ \A v \in Workers : job[v] = job[w] => v = w
    BY DEF Complete, Held, TypeOK, JobsSound
  <1>2. \A v \in Workers : job'[v] = IF v = w THEN None ELSE job[v]
    BY DEF Complete, Held, TypeOK
  <1>3. Running' = Running \ {job[w]} /\ job[w] \in Running
    BY <1>1, <1>2 DEF Running
  <1>4. AllWaiting' = AllWaiting /\ call' = [call EXCEPT ![job[w]] = outcome]
    BY DEF Complete, AllWaiting, Waiting
  <1>. QED BY <1>1, <1>3, <1>4 DEF Service!Finish, Running

LEMMA FlushSimulation ==
  ASSUME Held, NEW ts \in TierArguments, Flush(ts)
  PROVE  \E dropped \in SUBSET Requests : Service!Flush(dropped)
  <1> DEFINE dropped == UNION {Waiting(t) : t \in ts}
  <1>1. /\ call' = [r \in Requests |-> IF r \in dropped THEN "flushed" ELSE call[r]]
        /\ job' = job
    BY DEF Flush
  <1>2. /\ dropped \subseteq AllWaiting /\ AllWaiting' = AllWaiting \ dropped
        /\ dropped \subseteq Requests
    BY FlushWaiting, WaitingFinite
  <1>. QED BY <1>1, <1>2 DEF Service!Flush, Running

-----------------------------------------------------------------------------
LEMMA InitSimulation == Init => Service!Init
  <1> SUFFICES ASSUME Init PROVE Service!Init
    OBVIOUS
  <1>1. \A x : x \notin AllWaiting
    BY WaitingMember DEF Init
  <1>2. AllWaiting = {}
    BY <1>1
  <1>3. {job[w] : w \in Workers} \ {None} = {}
    BY DEF Init
  <1>. QED BY <1>2, <1>3 DEF Init, Service!Init

LEMMA StepSimulation == Held /\ [Next]_vars => [Service!Next]_(Service!vars)
  <1> SUFFICES ASSUME Held, [Next]_vars PROVE [Service!Next]_(Service!vars)
    OBVIOUS
  <1>1. ASSUME NEW r \in Requests, EnqueueRefused(r) PROVE Service!Refuse(r)
    BY <1>1 DEF EnqueueRefused, Service!Refuse, AllWaiting, Waiting
  <1>2. ASSUME NEW r \in Requests, Collect(r) PROVE Service!Read(r)
    BY <1>2 DEF Collect, Answers, Service!Read, AllWaiting, Waiting
  <1>3. ASSUME UNCHANGED <<queue, job, call>> PROVE UNCHANGED Service!vars
    BY <1>3 DEF Service!vars, AllWaiting, Waiting
  <1>4. ASSUME NEW t \in Tiers, MaxWaitElapses(t) PROVE UNCHANGED <<queue, job, call>>
    BY <1>4 DEF MaxWaitElapses
  <1>5. ASSUME NEW w \in Workers, GoIdle(w) PROVE UNCHANGED <<queue, job, call>>
    BY <1>5 DEF GoIdle
  <1>6. ASSUME NEW ts \in TierArguments, Pause(ts) \/ Resume(ts)
        PROVE  UNCHANGED <<queue, job, call>>
    BY <1>6 DEF Pause, Resume
  <1>7. CASE UNCHANGED vars
    BY <1>3, <1>7 DEF vars
  <1>8. CASE \E r \in Requests : Enqueue(r) \/ Collect(r)
    BY <1>1, <1>2, <1>8, AdmitSimulation DEF Enqueue, Service!Next
  <1>9. CASE \E t \in Tiers : MaxWaitElapses(t)
    BY <1>3, <1>4, <1>9
  <1>10. CASE \E w \in Workers : WorkerStep(w)
    BY <1>3, <1>5, <1>10, DispatchSimulation, ExpireSimulation, CompleteSimulation
    DEF WorkerStep, Service!Next
  <1>11. CASE Manage
    BY <1>3, <1>6, <1>11, FlushSimulation DEF Manage, Service!Next
  <1>. QED BY <1>7, <1>8, <1>9, <1>10, <1>11 DEF Next, Serve

\* The manager, with its queues, sleeping workers, expiry and management
\* operations, implements the service its callers rely on: every admitted
\* request is answered at most once, bounded parallelism, priority order.
THEOREM Refinement == Spec => ImplementsService
  BY InitSimulation, StepSimulation, HeldInit, HeldStep, PTL
  DEF Spec, ImplementsService, Service!Spec
=============================================================================
