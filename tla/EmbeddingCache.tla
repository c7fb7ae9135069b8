--------------------------- MODULE EmbeddingCache ---------------------------
(***************************************************************************)
(* EmbeddingCache (src/src/ollama_queue_proxy/cache.py) and its two uses   *)
(* in _enqueue_request() (main.py): an embedding request is looked up in a *)
(* Redis-like store before it is queued, and what the queue answers is     *)
(* stored afterwards.  The store is a server of its own that fails, falls  *)
(* silent, returns and drops entries; the models behind the hosts are      *)
(* replaced.                                                               *)
(*                                                                         *)
(* A handler suspends in the lookup, in the queue and in the store, and    *)
(* other handlers run in between.  The queue and the hosts are one step    *)
(* here, Upstream: what they promise is RequestService.                    *)
(***************************************************************************)
EXTENDS Integers

CONSTANTS
    Sessions,   \* handlers, one request at a time each
    Questions,  \* the requests: [port, path, model, text, options]
    TooLarge,   \* the texts whose answer exceeds embedding_cache.max_entry_bytes
    TTL,        \* embedding_cache.ttl, in ticks of the model's clock
    Releases,   \* bound: a model is replaced this often
    Nothing     \* no entry, no question, no answer

Models == {q.model : q \in Questions}
Texts == {q.text : q \in Questions}

\* The other fields of the body that change the vectors: dimensions, truncate,
\* options.
Options == {q.options : q \in Questions}

ASSUME QuestionsAssumption ==
    Questions \subseteq [port : {"main", "injection"},
                         path : {"/api/embed", "/api/embeddings", "/v1/embeddings"},
                         model : Models, text : Texts, options : Options]
ASSUME CacheAssumption ==
    /\ TTL \in Nat \ {0}
    /\ Releases \in Nat
    /\ TooLarge \subseteq Texts
    /\ Nothing \notin Questions

VARIABLES
    step,     \* where each handler stands
    question, \* the request it works on
    answer,   \* what it answers, or answered last, with
    entries,  \* the store: per key, the body and the ticks it has left
    backend,  \* the store: answers, fails, or keeps operations open without end
    hosts,    \* whether the hosts serve every request
    release   \* per model, the release the hosts have

vars == <<step, question, answer, entries, backend, hosts, release>>

\* CACHEABLE_PATHS: the namespaces of the keys.
CacheablePaths == {"/api/embed", "/api/embeddings"}
Backends == {"up", "failing", "silent"}
Keys == CacheablePaths \X Models \X Texts

Failure == [ok |-> FALSE]

\* The path sent upstream: rewrite_path() is applied on the main port only.
Path(q) ==
    IF q.port = "main" /\ q.path = "/v1/embeddings" THEN "/api/embed" ELSE q.path

Bug_NoNamespace(q) == <<"/api/embed", q.model, q.text>>

\* _build_key(): the namespace of the path, the model and the input (a string and
\* the list of it being one text).  The options are left out: questions that
\* differ in them share a key.
Key(q) == <<Path(q), q.model, q.text>>

\* What the hosts answer now: vectors, in the shape that belongs to the path.
Computed(q) == [ok |-> TRUE, path |-> Path(q), model |-> q.model, text |-> q.text,
                options |-> q.options, release |-> release[q.model]]

-----------------------------------------------------------------------------
Init ==
    /\ step = [s \in Sessions |-> "idle"]
    /\ question = [s \in Sessions |-> Nothing]
    /\ answer = [s \in Sessions |-> Nothing]
    /\ entries = [k \in Keys |-> Nothing]
    /\ backend = "up"  \* startup() pings it, or the process ends
    /\ hosts = TRUE
    /\ release = [m \in Models |-> 0]

Respond(s, body, hit) ==
    /\ step' = [step EXCEPT ![s] = "idle"]
    /\ answer' = [answer EXCEPT ![s] = [body |-> body, hit |-> hit]]

-----------------------------------------------------------------------------
(* _enqueue_request() of one session                                       *)

\* The body has been read: embeddings are looked up, all else is queued.
Arrive(s) ==
    /\ step[s] = "idle"
    /\ \E q \in Questions :
        /\ question' = [question EXCEPT ![s] = q]
        /\ step' = [step EXCEPT ![s] =
                       IF Path(q) \in CacheablePaths THEN "looking_up" ELSE "queued"]
    /\ answer' = [answer EXCEPT ![s] = Nothing]
    /\ UNCHANGED <<entries, backend, hosts, release>>

\* A hit makes its entry young again.
Bug_HitRenews(s) ==
    LET k == Key(question[s]) IN
    /\ step[s] = "looking_up"
    /\ backend = "up" /\ entries[k] # Nothing
    /\ Respond(s, entries[k].body, TRUE)
    /\ entries' = [entries EXCEPT ![k].left = TTL]
    /\ UNCHANGED <<question, backend, hosts, release>>

\* get() finds an entry: the answer, without the queue.
Hit(s) ==
    LET k == Key(question[s]) IN
    /\ step[s] = "looking_up"
    /\ backend = "up" /\ entries[k] # Nothing
    /\ Respond(s, entries[k].body, TRUE)
    /\ UNCHANGED <<question, entries, backend, hosts, release>>

Bug_ErrorPropagates(s) ==
    /\ step[s] = "looking_up"
    /\ \/ /\ backend = "up" /\ entries[Key(question[s])] = Nothing
          /\ step' = [step EXCEPT ![s] = "queued"]
          /\ UNCHANGED answer
       \/ backend = "failing" /\ Respond(s, Failure, FALSE)
    /\ UNCHANGED <<question, entries, backend, hosts, release>>

Bug_WaitsForBackend(s) ==
    /\ step[s] = "looking_up"
    /\ backend = "up" /\ entries[Key(question[s])] = Nothing
    /\ step' = [step EXCEPT ![s] = "queued"]
    /\ UNCHANGED <<question, answer, entries, backend, hosts, release>>

\* get() finds nothing, or the store fails, which is logged only.
Miss(s) ==
    /\ step[s] = "looking_up"
    /\ backend = "failing" \/ (backend = "up" /\ entries[Key(question[s])] = Nothing)
    /\ step' = [step EXCEPT ![s] = "queued"]
    /\ UNCHANGED <<question, answer, entries, backend, hosts, release>>

\* The future is completed.  Only 200 goes on to set(), and only for a request
\* that was looked up; a refusal or a failure is answered at once.
Upstream(s) ==
    /\ step[s] = "queued"
    /\ \/ /\ step' = [step EXCEPT ![s] =
                         IF Path(question[s]) \in CacheablePaths THEN "storing" ELSE "idle"]
          /\ answer' = [answer EXCEPT ![s] = [body |-> Computed(question[s]), hit |-> FALSE]]
       \/ ~hosts /\ Respond(s, Failure, FALSE)
    /\ UNCHANGED <<question, entries, backend, hosts, release>>

\* max_entry_bytes is not looked at.
Bug_StoreUnchecked(s) ==
    /\ step[s] = "storing"
    /\ step' = [step EXCEPT ![s] = "idle"]
    /\ \/ /\ backend # "silent"
          /\ entries' = [entries EXCEPT ![Key(question[s])] = [body |-> answer[s].body, left |-> TTL]]
       \/ backend = "failing" /\ UNCHANGED entries
    /\ UNCHANGED <<question, answer, backend, hosts, release>>

\* set() with the whole ttl, then the answer.  For a body that is too large the
\* store is not asked; a write that fails may have been carried out, and fails
\* nothing.
Store(s) ==
    /\ step[s] = "storing"
    /\ step' = [step EXCEPT ![s] = "idle"]
    /\ \/ /\ question[s].text \notin TooLarge /\ backend # "silent"
          /\ entries' = [entries EXCEPT ![Key(question[s])] = [body |-> answer[s].body, left |-> TTL]]
       \/ /\ question[s].text \in TooLarge \/ backend = "failing"
          /\ UNCHANGED entries
    /\ UNCHANGED <<question, answer, backend, hosts, release>>

\* A handler in the store goes on, unless the store keeps it.
LeaveStore(s) == Hit(s) \/ Miss(s) \/ Store(s)

Handle(s) == LeaveStore(s) \/ Upstream(s)

-----------------------------------------------------------------------------
(* The store, the hosts and the clock                                      *)

\* The store fails, falls silent or returns, with its entries or, restarted,
\* without some.
SwitchBackend ==
    /\ backend' \in Backends \ {backend}
    /\ UNCHANGED <<step, question, answer, entries, hosts, release>>

Evict ==
    /\ \E k \in Keys : entries[k] # Nothing /\ entries' = [entries EXCEPT ![k] = Nothing]
    /\ UNCHANGED <<step, question, answer, backend, hosts, release>>

\* An entry whose time is over is gone.
Tick ==
    /\ entries' = [k \in Keys |->
                      IF entries[k] = Nothing \/ entries[k].left = 1
                      THEN Nothing ELSE [entries[k] EXCEPT !.left = @ - 1]]
    /\ UNCHANGED <<step, question, answer, backend, hosts, release>>

SwitchHosts ==
    /\ hosts' = ~hosts
    /\ UNCHANGED <<step, question, answer, entries, backend, release>>

\* A model is pulled anew, under the same name.
Replace(m) ==
    /\ release[m] < Releases
    /\ release' = [release EXCEPT ![m] = @ + 1]
    /\ UNCHANGED <<step, question, answer, entries, backend, hosts>>

-----------------------------------------------------------------------------
Next ==
    \/ \E s \in Sessions : Arrive(s) \/ Handle(s)
    \/ SwitchBackend \/ Evict \/ Tick \/ SwitchHosts
    \/ \E m \in Models : Replace(m)

Spec == Init /\ [][Next]_vars

\* Time passes, and the event loop runs a handler whose operation on the store has
\* ended.  That the store ends one, and that the queue answers a request, is not
\* assumed.
FairSpec == Spec /\ WF_vars(Tick) /\ \A s \in Sessions : WF_vars(LeaveStore(s))

-----------------------------------------------------------------------------
(* Properties                                                              *)

Bodies ==
    [ok : {TRUE}, path : CacheablePaths \union {"/v1/embeddings"}, model : Models,
     text : Texts, options : Options, release : 0 .. Releases] \union {Failure}

\* Types; and an entry is within max_entry_bytes and its ttl.
CacheTypeOK ==
    /\ step \in [Sessions -> {"idle", "looking_up", "queued", "storing"}]
    /\ question \in [Sessions -> Questions \union {Nothing}]
    /\ answer \in [Sessions -> [body : Bodies, hit : BOOLEAN] \union {Nothing}]
    /\ entries \in [Keys -> [body : Bodies, left : 1 .. TTL] \union {Nothing}]
    /\ \A k \in Keys : k[3] \in TooLarge => entries[k] = Nothing
    /\ backend \in Backends /\ hosts \in BOOLEAN
    /\ release \in [Models -> 0 .. Releases]

\* A hit is what the hosts answered, successfully, to the same input for the same
\* model and in the same shape, whoever asked and by whichever port and endpoint it
\* came (README.md:372, "Per-endpoint namespaces prevent cross-endpoint
\* collisions").  It need not fit the question's options: the key documented there
\* has none, so a question is answered with vectors that were computed for others.
HitFitsInput ==
    \A s \in Sessions :
        answer[s] # Nothing /\ answer[s].hit =>
            /\ answer[s].body.ok
            /\ <<answer[s].body.path, answer[s].body.model, answer[s].body.text>>
                   = <<Path(question[s]), question[s].model, question[s].text>>

\* A request fails only when the hosts fail it: no state of the store, and nothing
\* left in it from an earlier failure, ever fails one (README.md:374, "no user
\* request fails").
OnlyHostsFail ==
    [][\A s \in Sessions :
          answer'[s] # answer[s] /\ answer'[s] # Nothing /\ answer'[s].body = Failure
              => ~hosts]_vars

\* A store that does not stay silent holds nobody up: a handler gets past its lookup
\* and past its write, whether they succeed or fail, if the store fails for good as
\* well (README.md:374, "the cache is bypassed for that request").  A silent one
\* does: the client is given a timeout for connecting only.
StoreHoldsNobodyUp ==
    <>[](backend # "silent")
        => \A s \in Sessions :
              step[s] \in {"looking_up", "storing"} ~> step[s] \in {"queued", "idle"}

\* When a model has been replaced for the last time, what its earlier releases
\* computed leaves the store for good, however often it is asked for: hits do not
\* prolong an entry, and answers stored late live no longer than others.
ReplacementShows ==
    \A m \in Models, n \in 0 .. Releases :
        <>[](release[m] = n) =>
            <>[](\A k \in Keys : entries[k] # Nothing /\ entries[k].body.model = m
                                     => entries[k].body.release = n)

=============================================================================
