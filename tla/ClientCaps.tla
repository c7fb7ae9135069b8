----------------------------- MODULE ClientCaps -----------------------------
(***************************************************************************)
(* ClientConcurrencyManager (src/src/ollama_queue_proxy/concurrency.py):   *)
(* per-client caps on the requests sent upstream at the same time, each an *)
(* asyncio.Semaphore with a FIFO of waiting tasks.                         *)
(*                                                                         *)
(* The semaphore hands a permit to the first waiter that has none when a   *)
(* permit is released; the waiter runs later and only then leaves the      *)
(* FIFO.  Until it has run, it holds the permit without being inside, and  *)
(* newcomers queue behind it.                                              *)
(*                                                                         *)
(* The bypass for a request deferred FAIRNESS_MAX_REENTRIES times is left  *)
(* out: every caller in the program passes reentries = 0.                  *)
(***************************************************************************)
EXTENDS Integers, Sequences, FiniteSets, SequencesExt

CONSTANTS
    Clients,  \* the clients the manager keeps a state for: the client_ids of
              \* auth.keys if one of them has a cap, or none, as there is no manager
    Cap,      \* max_concurrent of each; 0 is unlimited
    Tasks     \* the tasks that acquire and release

ASSUME ClientsAssumption == IsFiniteSet(Clients)
ASSUME CapAssumption == Cap \in [Clients -> Nat]
ASSUME TasksAssumption == IsFiniteSet(Tasks)

VARIABLES
    inflight,     \* ClientState.inflight
    cap_waiting,  \* ClientState.cap_waiting
    permits,      \* Semaphore._value
    waiters,      \* Semaphore._waiters: the tasks suspended in acquire(), in order
    woken,        \* those of them whose future is done
    inside        \* the tasks past acquire() and not yet in release()

capsVars == <<inflight, cap_waiting, permits, waiters, woken, inside>>

\* is_capped
Capped(c) == Cap[c] > 0

\* A task is in the manager for one client at most.
Outside(w) ==
    \A c \in Clients : w \notin inside[c] /\ w \notin ToSet(waiters[c])

CapsInit ==
    /\ inflight = [c \in Clients |-> 0]
    /\ cap_waiting = [c \in Clients |-> 0]
    /\ permits = Cap
    /\ waiters = [c \in Clients |-> <<>>]
    /\ woken = [c \in Clients |-> {}]
    /\ inside = [c \in Clients |-> {}]

\* Semaphore.locked(): no permit, or earlier tasks that have not run yet.
Locked(c) == permits[c] = 0 \/ waiters[c] # <<>>

\* The tasks of a FIFO that sleep in it.
Sleepers(c, queued) == ToSet(queued) \ woken[c]

\* These are the first n sleepers of the FIFO, or all when there are fewer.
AreFirst(ws, c, queued, n) ==
    LET asleep == Sleepers(c, queued) IN
    /\ Cardinality(ws) = IF Cardinality(asleep) < n THEN Cardinality(asleep) ELSE n
    /\ \A i, j \in DOMAIN queued :
          i < j /\ queued[j] \in ws /\ queued[i] \in asleep => queued[i] \in ws

\* _wake_up_next(), n times, on a semaphore of this value: every task it wakes
\* takes a permit with it.
WakeUp(c, queued, value, n) ==
    \E ws \in SUBSET Sleepers(c, queued) :
        /\ AreFirst(ws, c, queued, n)
        /\ woken' = [woken EXCEPT ![c] = (@ \intersect ToSet(queued)) \union ws]
        /\ permits' = [permits EXCEPT ![c] = value - Cardinality(ws)]

\* The semaphore is asked and not taken.
Bug_EnterKeepsPermit(w, c) ==
    /\ Outside(w)
    /\ ~Capped(c) \/ ~Locked(c)
    /\ inflight' = [inflight EXCEPT ![c] = @ + 1]
    /\ inside' = [inside EXCEPT ![c] = @ \union {w}]
    /\ UNCHANGED <<cap_waiting, permits, waiters, woken>>

\* acquire() that does not suspend.
Enter(w, c) ==
    /\ Outside(w)
    /\ ~Capped(c) \/ ~Locked(c)
    /\ permits' = IF Capped(c) THEN [permits EXCEPT ![c] = @ - 1] ELSE permits
    /\ inflight' = [inflight EXCEPT ![c] = @ + 1]
    /\ inside' = [inside EXCEPT ![c] = @ \union {w}]
    /\ UNCHANGED <<cap_waiting, waiters, woken>>

\* acquire() that suspends in the semaphore.
Park(w, c) ==
    /\ Outside(w)
    /\ Capped(c) /\ Locked(c)
    /\ cap_waiting' = [cap_waiting EXCEPT ![c] = @ + 1]
    /\ waiters' = [waiters EXCEPT ![c] = Append(@, w)]
    /\ UNCHANGED <<inflight, permits, woken, inside>>

\* acquire() of the manager, up to its first suspension; a request whose client
\* it does not know, or that names none, passes and is counted nowhere.
Acquire(w, c) ==
    \/ c \in Clients /\ (Enter(w, c) \/ Park(w, c))
    \/ c \notin Clients /\ UNCHANGED capsVars

\* The permit it was handed is taken a second time.
Bug_UnparkTakesAgain(w, c) ==
    /\ w \in woken[c]
    /\ waiters' = [waiters EXCEPT ![c] = RemoveFirst(@, w)]
    /\ woken' = [woken EXCEPT ![c] = @ \ {w}]
    /\ permits' = [permits EXCEPT ![c] = @ - 1]
    /\ cap_waiting' = [cap_waiting EXCEPT ![c] = IF @ > 0 THEN @ - 1 ELSE 0]
    /\ inflight' = [inflight EXCEPT ![c] = @ + 1]
    /\ inside' = [inside EXCEPT ![c] = @ \union {w}]

\* The counter of waiting tasks comes down in the path that does not wait only.
Bug_UnparkStillCounted(w, c) ==
    LET queued == RemoveFirst(waiters[c], w) IN
    /\ w \in woken[c]
    /\ waiters' = [waiters EXCEPT ![c] = queued]
    /\ woken' = [woken EXCEPT ![c] = @ \ {w}]
    /\ inflight' = [inflight EXCEPT ![c] = @ + 1]
    /\ inside' = [inside EXCEPT ![c] = @ \union {w}]
    /\ UNCHANGED <<cap_waiting, permits>>

\* A woken task runs: it leaves the FIFO, and while permits are left wakes the
\* next ones.
Unpark(w, c) ==
    LET queued == RemoveFirst(waiters[c], w) IN
    /\ w \in woken[c]
    /\ waiters' = [waiters EXCEPT ![c] = queued]
    /\ WakeUp(c, queued, permits[c], permits[c])
    /\ cap_waiting' = [cap_waiting EXCEPT ![c] = IF @ > 0 THEN @ - 1 ELSE 0]
    /\ inflight' = [inflight EXCEPT ![c] = @ + 1]
    /\ inside' = [inside EXCEPT ![c] = @ \union {w}]

Bug_LeaveKeepsPermit(w, c) ==
    /\ w \in inside[c]
    /\ inside' = [inside EXCEPT ![c] = @ \ {w}]
    /\ inflight' = [inflight EXCEPT ![c] = IF @ > 0 THEN @ - 1 ELSE 0]
    /\ UNCHANGED <<cap_waiting, waiters, permits, woken>>

\* release() of a client's state.
Leave(w, c) ==
    /\ w \in inside[c]
    /\ inside' = [inside EXCEPT ![c] = @ \ {w}]
    /\ inflight' = [inflight EXCEPT ![c] = IF @ > 0 THEN @ - 1 ELSE 0]
    /\ IF Capped(c)
       THEN WakeUp(c, waiters[c], permits[c] + 1, 1)
       ELSE UNCHANGED <<permits, woken>>
    /\ UNCHANGED <<cap_waiting, waiters>>

\* release() of the manager.
Release(w, c) ==
    \/ c \in Clients /\ Leave(w, c)
    \/ c \notin Clients /\ UNCHANGED capsVars

-----------------------------------------------------------------------------
(* Properties                                                              *)

CapsTypeOK ==
    /\ inflight \in [Clients -> Nat]
    /\ cap_waiting \in [Clients -> Nat]
    /\ permits \in [Clients -> Nat]
    /\ waiters \in [Clients -> Seq(Tasks)]
    /\ woken \in [Clients -> SUBSET Tasks]
    /\ inside \in [Clients -> SUBSET Tasks]

\* A capped client never has more requests upstream than its cap
\* (README.md:217, "limits a client to N simultaneous in-flight requests").
CapRespected == \A c \in Clients : Cap[c] > 0 => Cardinality(inside[c]) <= Cap[c]

\* The published counters are the tasks they stand for.
CapCountersExact ==
    \A c \in Clients : /\ inflight[c] = Cardinality(inside[c])
                       /\ cap_waiting[c] = Len(waiters[c])

\* A permit is free, or held by a task inside, or on its way to a woken task; and
\* beside a free permit nobody is left to sleep: some woken task has still to run,
\* and will pass it on.
PermitsConserved ==
    \A c \in Clients : Cap[c] > 0 =>
        /\ permits[c] + Cardinality(inside[c]) + Cardinality(woken[c]) = Cap[c]
        /\ permits[c] > 0 /\ Sleepers(c, waiters[c]) # {} => woken[c] # {}

=============================================================================
