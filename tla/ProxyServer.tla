---------------------------- MODULE ProxyServer ----------------------------
(***************************************************************************)
(* The request path and the lifespan of the proxy (main.py, injection.py)  *)
(* around PriorityQueue and ClientCaps: handlers check shutting_down, read *)
(* the body and enqueue; a worker's dispatch_fn() acquires the client's    *)
(* cap before it goes upstream; shutdown drains the queues and cancels the *)
(* workers.                                                                *)
(*                                                                         *)
(* Every port is a uvicorn server of its own.  They are started in order,  *)
(* each takes the signal handler over from the one before, so the last one *)
(* started is the one that a SIGTERM reaches; when it has ended, serve_all *)
(* ends the others.  A server that ends accepts nothing more and waits for *)
(* its own requests; the one of the main port then runs the lifespan's     *)
(* shutdown half, which does not wait for the listeners.                   *)
(***************************************************************************)
EXTENDS PriorityQueue, ClientCaps

CONSTANTS
    ClientOf,      \* the client_id of a session; None if it names none, or one that
                   \* the manager of the caps does not know
    Ports,         \* the servers: "main", "last" (the last injection listener), "other"
    PortOf,        \* the port a session's requests arrive on
    DrainTimesOut  \* whether drain_timeout may elapse before the queues empty

ASSUME ServerAssumption ==
    /\ Tasks = Workers
    /\ None \notin Clients
    /\ ClientOf \in [Requests -> Clients \union {None}]
    /\ {"main"} \subseteq Ports /\ Ports \subseteq {"main", "last", "other"}
    /\ "other" \in Ports => "last" \in Ports
    /\ PortOf \in [Requests -> Ports]
    /\ DrainTimesOut \in BOOLEAN

VARIABLES
    handler,  \* where the handler of a session's request stands
    server,   \* whether each server accepts requests, is ending, or has ended
    phase     \* of the lifespan; shutting_down from "draining" on

serverVars == <<handler, server, phase>>
allVars == <<vars, capsVars, serverVars>>

\* The client of the request a worker has: from its key, or with auth off from a
\* header that may be missing and may say anything.
Client(w) == ClientOf[job[w]]

\* The server whose handle_exit() is installed when the signal arrives.
Signalled == IF "last" \in Ports THEN "last" ELSE "main"

Idle(p) == \A r \in Requests : PortOf[r] = p => handler[r] = "idle"

ServerInit ==
    /\ Init
    /\ CapsInit
    /\ handler = [r \in Requests |-> "idle"]
    /\ server = [p \in Ports |-> "open"]
    /\ phase = "serving"

-----------------------------------------------------------------------------
(* Handlers                                                                *)

\* A request arrives, sees shutting_down unset and starts to read its body.
Arrive(r) ==
    /\ handler[r] = "idle"
    /\ server[PortOf[r]] = "open"
    /\ phase = "serving"
    /\ handler' = [handler EXCEPT ![r] = "reading"]
    /\ UNCHANGED <<vars, capsVars, server, phase>>

\* The body is refused, or the request needs no queue: metadata, a cache hit.
AnswerUnqueued(r) ==
    /\ handler[r] = "reading"
    /\ handler' = [handler EXCEPT ![r] = "idle"]
    /\ UNCHANGED <<vars, capsVars, server, phase>>

\* The body has been read and the request is enqueued; shutting_down is not
\* looked at again.
Submit(r) ==
    /\ handler[r] = "reading"
    /\ Enqueue(r)
    /\ handler' = [handler EXCEPT ![r] = "awaiting"]
    /\ UNCHANGED <<capsVars, server, phase>>

\* The answer, or the refusal, goes to the caller.
Respond(r) ==
    /\ handler[r] = "awaiting"
    /\ Collect(r)
    /\ handler' = [handler EXCEPT ![r] = "idle"]
    /\ UNCHANGED <<capsVars, server, phase>>

-----------------------------------------------------------------------------
(* Workers                                                                 *)

\* The worker takes a request and runs dispatch_fn() up to its first
\* suspension: in the client's semaphore, or upstream.
StartDispatch(w) ==
    /\ \E t \in Tiers : Dispatch(w, t)
    /\ Acquire(w, ClientOf[job'[w]])
    /\ UNCHANGED serverVars

\* The client's semaphore lets a parked worker go on to the upstream.
EnterUpstream(w) ==
    /\ worker[w] = "busy" /\ Client(w) \in Clients
    /\ Unpark(w, Client(w))
    /\ UNCHANGED <<vars, serverVars>>

\* The permit is given back after a result only, not in a finally block.
Bug_CapKeptOnError(w) ==
    /\ worker[w] = "busy"
    /\ \A c \in Clients : w \notin ToSet(waiters[c])
    /\ \/ Release(w, Client(w)) /\ Complete(w, "result")
       \/ Complete(w, "error") /\ UNCHANGED capsVars
    /\ UNCHANGED serverVars

\* The upstream answered or failed; the permit is released in the finally
\* block, then the future is completed.
FinishDispatch(w) ==
    /\ worker[w] = "busy"
    /\ Release(w, Client(w))
    /\ \E outcome \in {"result", "error"} : Complete(w, outcome)
    /\ UNCHANGED serverVars

\* A pass of the loop that dispatches nothing.
OtherPass(w) ==
    /\ GoIdle(w) \/ \E t \in Tiers : Expire(w, t)
    /\ UNCHANGED <<capsVars, serverVars>>

ServerWorkerStep(w) ==
    StartDispatch(w) \/ EnterUpstream(w) \/ FinishDispatch(w) \/ OtherPass(w)

-----------------------------------------------------------------------------
(* Lifespan                                                                *)

\* SIGTERM.
Terminate ==
    /\ server[Signalled] = "open"
    /\ server' = [server EXCEPT ![Signalled] = "ending"]
    /\ UNCHANGED <<vars, capsVars, handler, phase>>

\* asyncio.wait() for all the servers, not for the first of them.
Bug_WaitsForAll ==
    /\ server[Signalled] = "ending"
    /\ Signalled # "main" /\ Idle(Signalled)
    /\ server' = [server EXCEPT ![Signalled] = "ended"]
    /\ UNCHANGED <<vars, capsVars, handler, phase>>

\* The listener that was signalled has answered its requests and is the first
\* server to return: should_exit is set for all.
EndListener ==
    /\ server[Signalled] = "ending"
    /\ Signalled # "main" /\ Idle(Signalled)
    /\ server' = [p \in Ports |-> IF p = Signalled THEN "ended" ELSE "ending"]
    /\ UNCHANGED <<vars, capsVars, handler, phase>>

Bug_ShutdownAtOnce ==
    /\ server["main"] = "ending"
    /\ phase = "serving"
    /\ phase' = "draining"
    /\ UNCHANGED <<vars, capsVars, handler, server>>

\* shutting_down = True, once the main port's own requests have ended.
BeginShutdown ==
    /\ server["main"] = "ending"
    /\ Idle("main")
    /\ phase = "serving"
    /\ phase' = "draining"
    /\ UNCHANGED <<vars, capsVars, handler, server>>

\* drain() saw every queue empty, or timed out; stop_workers() cancels every
\* worker wherever it is suspended.  A cancelled dispatch_fn() gives its permit
\* back and leaves its future as it is; CancelledError passes the worker's
\* except clause, and active is not counted down.
StopWorkers ==
    /\ phase = "draining"
    /\ AllEmpty \/ DrainTimesOut
    /\ phase' = "stopped"
    /\ worker' = [w \in Workers |-> "stopped"]
    /\ inflight' = [c \in Clients |-> 0]
    /\ cap_waiting' = [c \in Clients |-> 0]
    /\ permits' = Cap
    /\ waiters' = [c \in Clients |-> <<>>]
    /\ woken' = [c \in Clients |-> {}]
    /\ inside' = [c \in Clients |-> {}]
    /\ UNCHANGED <<queue, has_items, job, active, queued_bytes, paused,
                   watermark_fired, stale, call, handler, server>>

Lifespan == EndListener \/ BeginShutdown \/ StopWorkers

-----------------------------------------------------------------------------
ServerNext ==
    \/ \E r \in Requests : Arrive(r) \/ AnswerUnqueued(r) \/ Submit(r) \/ Respond(r)
    \/ \E t \in Tiers : MaxWaitElapses(t) /\ UNCHANGED <<capsVars, serverVars>>
    \/ \E w \in Workers : ServerWorkerStep(w)
    \/ Terminate
    \/ Lifespan

ServerSpec == ServerInit /\ [][ServerNext]_allVars

\* The event loop runs workers, answered handlers and the lifespan.
ServerFairness ==
    /\ \A w \in Workers : WF_allVars(ServerWorkerStep(w))
    /\ \A r \in Requests : WF_allVars(Respond(r))
    /\ WF_allVars(Lifespan)

FairServerSpec == ServerSpec /\ ServerFairness

-----------------------------------------------------------------------------
(* What the status endpoints and the metrics read                          *)

\* queue_depths()
QueueDepths == [t \in Tiers |-> Len(queue[t])]

Summary ==
    [queued         |-> MapThenSumSet(LAMBDA t : QueueDepths[t], Tiers),
     active         |-> active,
     max_concurrent |-> Cardinality(Workers)]

ClientMetrics ==
    [inflight    |-> MapThenSumSet(LAMBDA c : inflight[c], Clients),
     cap_waiting |-> MapThenSumSet(LAMBDA c : cap_waiting[c], Clients)]

-----------------------------------------------------------------------------
(* Properties                                                              *)

ServerTypeOK ==
    /\ handler \in [Requests -> {"idle", "reading", "awaiting"}]
    /\ server \in [Ports -> {"open", "ending", "ended"}]
    /\ phase \in {"serving", "draining", "stopped"}
    /\ CapsTypeOK

\* A worker inside dispatch_fn() is exactly once in the cap of its client, if that
\* is a registered one: parked, or past it.  Any other worker is in none.
WorkersInCaps ==
    \A w \in Workers, c \in Clients :
        LET parked == w \in ToSet(waiters[c])
            entered == w \in inside[c]
        IN  /\ ~(parked /\ entered)
            /\ (parked \/ entered) <=> (worker[w] = "busy" /\ Client(w) = c)

\* The workers whose request the clients' figures know nothing of.  With auth off,
\* the default, or where no key has a cap, it can be all of them.
Unaccounted == {w \in Workers : worker[w] = "busy" /\ Client(w) \notin Clients}

\* What is published adds up, though every figure is kept by other code and each
\* by increments of its own: those who wait for an answer are queued or active,
\* never more are active than there are workers, and of the active ones all that
\* belong to a registered client, and no others, are in the clients' figures as
\* upstream or waiting for a cap.  What the figures leave open is only how many
\* requests of unregistered clients are active.
FiguresAddUp ==
    phase # "stopped" =>
        /\ Summary.queued + Summary.active
               = Cardinality({r \in Requests : call[r] = "pending"})
        /\ Summary.active <= Summary.max_concurrent
        /\ Summary.active = ClientMetrics.inflight + ClientMetrics.cap_waiting
                               + Cardinality(Unaccounted)

\* When the workers are gone no handler awaits a future: nobody is left to
\* complete it (config.example.yml:27, "drain_timeout: seconds to wait for
\* in-flight requests on shutdown"; CHANGELOG.md:263, "Graceful SIGTERM
\* shutdown").
ShutdownStrandsNobody ==
    phase = "stopped" => \A r \in Requests : call[r] # "pending"

\* A worker parked on its client's cap gets past it, or is stopped: none is parked
\* for ever.
CapWaitersProceed ==
    \A w \in Workers : []<>(\A c \in Clients : w \notin ToSet(waiters[c]))

\* The high tier keeps its promise behind the caps and across a shutdown: none of
\* its requests is pending for ever.
HighAnsweredInServer ==
    \A r \in Requests : TierOf[r] = "high" => []<>(call[r] # "pending")

\* A SIGTERM ends the proxy (CHANGELOG.md:192, "Graceful shutdown across all
\* listeners on SIGTERM/SIGINT"), though requests go on arriving at the other
\* ports, if the clients send their bodies to the end.
ShutdownCompletes ==
    []<>(\A r \in Requests : handler[r] # "reading")
        => (server[Signalled] = "ending" ~> phase = "stopped")

\* While a request waits in the queue, no worker is kept from it by another
\* client's cap (README.md:217, "a capped batch client never blocks an
\* interactive client"): a parked worker serves the only client that waits, or
\* some worker is free to take the request.
CapBlocksNobodyElse ==
    \A w \in Workers, c \in Clients, r \in AllWaiting :
        w \in ToSet(waiters[c]) /\ ClientOf[r] # c
            => \E v \in Workers : worker[v] = "ready"

=============================================================================
