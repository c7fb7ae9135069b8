--------------------------- MODULE RequestService ---------------------------
(***************************************************************************)
(* What the queue promises the handlers that submit requests to it, with   *)
(* no queues, workers, events or byte accounts: every admitted request     *)
(* waits, then runs, then is answered, once.  The number of requests that  *)
(* run is bounded; none leaves the waiting set to run or to expire while a *)
(* request of a higher tier waits; a flush may fail any waiting requests   *)
(* at any time.  PriorityQueue implements this specification.              *)
(***************************************************************************)
CONSTANTS
    Requests,     \* client sessions
    Precedes(_),  \* the tiers served before a tier
    TierOf,       \* the tier of a session's requests
    HasRoom(_)    \* one more request may run beside these ones

VARIABLES
    waiting,  \* the requests admitted and not started
    running,  \* the requests sent upstream
    answer    \* per session: idle, pending, or the answer not yet read

vars == <<waiting, running, answer>>

Init ==
    /\ waiting = {}
    /\ running = {}
    /\ answer = [r \in Requests |-> "idle"]

Refuse(r) ==
    /\ answer[r] = "idle"
    /\ answer' = [answer EXCEPT ![r] = "refused"]
    /\ UNCHANGED <<waiting, running>>

Admit(r) ==
    /\ answer[r] = "idle"
    /\ answer' = [answer EXCEPT ![r] = "pending"]
    /\ waiting' = waiting \union {r}
    /\ UNCHANGED running

\* r is next: nothing waits in a tier before its own.
Due(r) ==
    /\ r \in waiting
    /\ \A x \in waiting : TierOf[x] \notin Precedes(TierOf[r])

Start(r) ==
    /\ Due(r)
    /\ HasRoom(running)
    /\ waiting' = waiting \ {r}
    /\ running' = running \union {r}
    /\ UNCHANGED answer

Expire(r) ==
    /\ Due(r)
    /\ waiting' = waiting \ {r}
    /\ answer' = [answer EXCEPT ![r] = "expired"]
    /\ UNCHANGED running

Finish(r, outcome) ==
    /\ r \in running
    /\ running' = running \ {r}
    /\ answer' = [answer EXCEPT ![r] = outcome]
    /\ UNCHANGED waiting

Flush(dropped) ==
    /\ dropped \subseteq waiting
    /\ waiting' = waiting \ dropped
    /\ answer' = [r \in Requests |-> IF r \in dropped THEN "flushed" ELSE answer[r]]
    /\ UNCHANGED running

Read(r) ==
    /\ answer[r] \notin {"idle", "pending"}
    /\ answer' = [answer EXCEPT ![r] = "idle"]
    /\ UNCHANGED <<waiting, running>>

Next ==
    \/ \E r \in Requests :
        \/ Refuse(r) \/ Admit(r) \/ Start(r) \/ Expire(r) \/ Read(r)
        \/ \E outcome \in {"result", "error"} : Finish(r, outcome)
    \/ \E dropped \in SUBSET Requests : Flush(dropped)

Spec == Init /\ [][Next]_vars
=============================================================================
