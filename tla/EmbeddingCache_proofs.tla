------------------------ MODULE EmbeddingCache_proofs ------------------------
(***************************************************************************)
(* Theorems about EmbeddingCache, for any sessions, questions, sizes and   *)
(* times to live.                                                          *)
(***************************************************************************)
EXTENDS EmbeddingCache, TLAPS

\* The body is a success of the hosts for this input, whatever the options.
Answers(body, path, model, text) ==
    body.ok /\ body.path = path /\ body.model = model /\ body.text = text

\* What a handler knows of its request at each of its suspensions: only requests
\* of a cacheable path reach the store, and only a success is on its way to it.
HandlersSound ==
    \A s \in Sessions :
        /\ step[s] # "idle" => question[s] \in Questions
        /\ step[s] \in {"looking_up", "storing"} => Path(question[s]) \in CacheablePaths
        /\ step[s] = "storing" =>
              /\ answer[s].body \in Bodies
              /\ Answers(answer[s].body, Path(question[s]), question[s].model, question[s].text)

\* Every entry is a success for its key.
EntriesSound ==
    \A k \in Keys : entries[k] # Nothing => Answers(entries[k].body, k[1], k[2], k[3])

CacheInv == CacheTypeOK /\ HandlersSound /\ EntriesSound /\ HitFitsInput

LEMMA QuestionFacts ==
  ASSUME NEW q \in Questions
  PROVE  /\ q.model \in Models /\ q.text \in Texts /\ q.options \in Options
         /\ Path(q) \in CacheablePaths \union {"/v1/embeddings"}
         /\ Path(q) \in CacheablePaths => Key(q) \in Keys
         /\ Key(q)[1] = Path(q) /\ Key(q)[2] = q.model /\ Key(q)[3] = q.text
  <1>1. q.model \in Models /\ q.text \in Texts /\ q.options \in Options
    BY DEF Models, Texts, Options
  <1>2. q.path \in {"/api/embed", "/api/embeddings", "/v1/embeddings"}
    BY QuestionsAssumption
  <1>. QED BY <1>1, <1>2 DEF Path, CacheablePaths, Key, Keys

LEMMA ComputedFacts ==
  ASSUME CacheTypeOK, NEW q \in Questions
  PROVE  /\ Computed(q) \in Bodies
         /\ Answers(Computed(q), Path(q), q.model, q.text)
  BY QuestionFacts DEF CacheTypeOK, Computed, Bodies, Answers

LEMMA CacheStart == Init => CacheInv
  BY CacheAssumption DEF Init, Backends, CacheInv, CacheTypeOK, HandlersSound, EntriesSound, HitFitsInput

\* A hit gives a body that is in the store under the key of the question.
LEMMA HitFacts ==
  ASSUME CacheInv, NEW s \in Sessions, Hit(s)
  PROVE  LET body == entries[Key(question[s])].body IN
         /\ step' = [step EXCEPT ![s] = "idle"]
         /\ answer' = [answer EXCEPT ![s] = [body |-> body, hit |-> TRUE]]
         /\ body \in Bodies
         /\ Answers(body, Path(question[s]), question[s].model, question[s].text)
  <1>1. question[s] \in Questions /\ Path(question[s]) \in CacheablePaths
    BY DEF CacheInv, HandlersSound, Hit
  <1>2. Key(question[s]) \in Keys /\ entries[Key(question[s])] # Nothing
    BY <1>1, QuestionFacts DEF Hit
  <1>3. entries[Key(question[s])] \in [body : Bodies, left : 1 .. TTL]
    BY <1>2 DEF CacheInv, CacheTypeOK
  <1>4. Answers(entries[Key(question[s])].body, Path(question[s]), question[s].model, question[s].text)
    BY <1>1, <1>2, QuestionFacts DEF CacheInv, EntriesSound
  <1>. QED BY <1>3, <1>4 DEF Hit, Respond

LEMMA UpstreamFacts ==
  ASSUME CacheInv, NEW s \in Sessions, Upstream(s)
  PROVE  /\ question[s] \in Questions
         /\ \/ /\ step' = [step EXCEPT ![s] = "storing"]
               /\ Path(question[s]) \in CacheablePaths
               /\ answer' = [answer EXCEPT ![s] = [body |-> Computed(question[s]), hit |-> FALSE]]
            \/ /\ step' = [step EXCEPT ![s] = "idle"]
               /\ answer' = [answer EXCEPT ![s] = [body |-> Computed(question[s]), hit |-> FALSE]]
            \/ /\ step' = [step EXCEPT ![s] = "idle"] /\ ~hosts
               /\ answer' = [answer EXCEPT ![s] = [body |-> Failure, hit |-> FALSE]]
  BY DEF CacheInv, HandlersSound, Upstream, Respond

LEMMA CacheTypeStep == CacheInv /\ [Next]_vars => CacheTypeOK'
  <1> SUFFICES ASSUME CacheInv, [Next]_vars PROVE CacheTypeOK'
    OBVIOUS
  <1> USE DEF CacheTypeOK
  <1>0. CacheTypeOK
    BY DEF CacheInv
  <1>1. ASSUME NEW s \in Sessions, Arrive(s) PROVE CacheTypeOK'
    BY <1>0, <1>1 DEF Arrive
  <1>2. ASSUME NEW s \in Sessions, Hit(s) PROVE CacheTypeOK'
    <2>1. UNCHANGED <<question, entries, backend, hosts, release>>
      BY <1>2 DEF Hit
    <2> DEFINE e == [body |-> entries[Key(question[s])].body, hit |-> TRUE]
    <2>2. /\ step' = [step EXCEPT ![s] = "idle"] /\ answer' = [answer EXCEPT ![s] = e]
          /\ e \in [body : Bodies, hit : BOOLEAN]
      BY <1>2, HitFacts
    <2> HIDE DEF e
    <2>. QED BY <1>0, <2>1, <2>2
  <1>3. ASSUME NEW s \in Sessions, Miss(s) PROVE CacheTypeOK'
    BY <1>0, <1>3 DEF Miss
  <1>4. ASSUME NEW s \in Sessions, Upstream(s) PROVE CacheTypeOK'
    <2>1. UNCHANGED <<question, entries, backend, hosts, release>>
      BY <1>4 DEF Upstream
    <2>2. Computed(question[s]) \in Bodies /\ Failure \in Bodies
      BY <1>0, <1>4, UpstreamFacts, ComputedFacts DEF Bodies
    <2>3. \E e \in [body : Bodies, hit : BOOLEAN] : answer' = [answer EXCEPT ![s] = e]
      <3>1. [body |-> Computed(question[s]), hit |-> FALSE] \in [body : Bodies, hit : BOOLEAN]
            /\ [body |-> Failure, hit |-> FALSE] \in [body : Bodies, hit : BOOLEAN]
        BY <2>2
      <3>. QED BY <1>4, <3>1, UpstreamFacts
    <2>4. step' = [step EXCEPT ![s] = "idle"] \/ step' = [step EXCEPT ![s] = "storing"]
      BY <1>4, UpstreamFacts
    <2>. QED BY <1>0, <2>1, <2>3, <2>4
  <1>5. ASSUME NEW s \in Sessions, Store(s) PROVE CacheTypeOK'
    <2> DEFINE k == Key(question[s])
               e == [body |-> answer[s].body, left |-> TTL]
    <2>1. /\ UNCHANGED <<question, answer, backend, hosts, release>>
          /\ step' = [step EXCEPT ![s] = "idle"]
      BY <1>5 DEF Store
    <2>2. question[s] \in Questions /\ Path(question[s]) \in CacheablePaths /\ answer[s].body \in Bodies
      BY <1>5 DEF CacheInv, HandlersSound, Store
    <2>3. k \in Keys /\ k[3] = question[s].text /\ e \in [body : Bodies, left : 1 .. TTL]
      BY <2>2, QuestionFacts, CacheAssumption
    <2>4. entries' = entries \/ (question[s].text \notin TooLarge /\ entries' = [entries EXCEPT ![k] = e])
      BY <1>5 DEF Store
    <2> HIDE DEF k, e
    <2>5. /\ entries' \in [Keys -> [body : Bodies, left : 1 .. TTL] \union {Nothing}]
          /\ \A j \in Keys : j[3] \in TooLarge => entries'[j] = Nothing
      BY <1>0, <2>3, <2>4
    <2>. QED BY <1>0, <2>1, <2>5
  <1>6. CASE SwitchBackend \/ SwitchHosts
    BY <1>0, <1>6 DEF SwitchBackend, SwitchHosts, Backends
  <1>7. CASE Evict
    BY <1>0, <1>7 DEF Evict
  <1>8. CASE Tick
    <2>1. ASSUME NEW k \in Keys
          PROVE  /\ entries'[k] \in [body : Bodies, left : 1 .. TTL] \union {Nothing}
                 /\ entries[k] = Nothing => entries'[k] = Nothing
      BY <1>0, <1>8, CacheAssumption DEF Tick
    <2>. QED BY <1>0, <1>8, <2>1 DEF Tick
  <1>9. ASSUME NEW m \in Models, Replace(m) PROVE CacheTypeOK'
    <2>1. release' \in [Models -> 0 .. Releases]
      BY <1>0, <1>9, CacheAssumption DEF Replace
    <2>. QED BY <1>0, <1>9, <2>1 DEF Replace
  <1>10. CASE UNCHANGED vars
    BY <1>0, <1>10 DEF vars
  <1>. QED BY <1>1, <1>2, <1>3, <1>4, <1>5, <1>6, <1>7, <1>8, <1>9, <1>10 DEF Next, Handle, LeaveStore

LEMMA EntriesStep == CacheInv /\ [Next]_vars => EntriesSound'
  <1> SUFFICES ASSUME CacheInv, [Next]_vars, NEW k \in Keys, entries'[k] # Nothing
               PROVE  Answers(entries'[k].body, k[1], k[2], k[3])
    BY DEF EntriesSound
  <1>1. entries[k] # Nothing => Answers(entries[k].body, k[1], k[2], k[3])
    BY DEF CacheInv, EntriesSound
  <1>2. ASSUME NEW s \in Sessions, Store(s) PROVE Answers(entries'[k].body, k[1], k[2], k[3])
    <2> DEFINE j == Key(question[s])
    <2>1. question[s] \in Questions
          /\ Answers(answer[s].body, Path(question[s]), question[s].model, question[s].text)
      BY <1>2 DEF CacheInv, HandlersSound, Store
    <2>2. Answers(answer[s].body, j[1], j[2], j[3])
      BY <2>1, QuestionFacts
    <2>3. entries' = entries \/ entries' = [entries EXCEPT ![j] = [body |-> answer[s].body, left |-> TTL]]
      BY <1>2 DEF Store
    <2> HIDE DEF j
    <2>. QED BY <1>1, <2>2, <2>3 DEF CacheInv, CacheTypeOK
  <1>3. CASE Tick
    <2>1. entries[k] # Nothing /\ entries'[k] = [entries[k] EXCEPT !.left = @ - 1]
      BY <1>3 DEF Tick
    <2>2. entries[k] \in [body : Bodies, left : 1 .. TTL]
      BY <2>1 DEF CacheInv, CacheTypeOK
    <2>3. entries'[k].body = entries[k].body
      BY <2>1, <2>2
    <2>. QED BY <1>1, <2>1, <2>3
  <1>4. CASE Evict
    BY <1>1, <1>4 DEF Evict, CacheInv, CacheTypeOK
  <1>5. CASE entries' = entries
    BY <1>1, <1>5
  <1>. QED BY <1>2, <1>3, <1>4, <1>5
       DEF Next, Handle, LeaveStore, Arrive, Hit, Miss, Upstream, SwitchBackend, SwitchHosts, Replace, vars

LEMMA HandlersStep == CacheInv /\ [Next]_vars => HandlersSound' /\ HitFitsInput'
  <1> DEFINE Good(s) ==
        /\ step[s] # "idle" => question[s] \in Questions
        /\ step[s] \in {"looking_up", "storing"} => Path(question[s]) \in CacheablePaths
        /\ step[s] = "storing" =>
              /\ answer[s].body \in Bodies
              /\ Answers(answer[s].body, Path(question[s]), question[s].model, question[s].text)
        /\ answer[s] # Nothing /\ answer[s].hit =>
              Answers(answer[s].body, Path(question[s]), question[s].model, question[s].text)
  <1>1. HandlersSound' /\ HitFitsInput' <=> \A s \in Sessions : Good(s)'
    BY DEF HandlersSound, HitFitsInput, Answers
  <1> SUFFICES ASSUME CacheInv, [Next]_vars, NEW v \in Sessions PROVE Good(v)'
    BY <1>1
  <1>2. Good(v)
    BY DEF CacheInv, HandlersSound, HitFitsInput, Answers
  <1>0. CacheTypeOK
    BY DEF CacheInv
  <1>3. CASE UNCHANGED <<step[v], question[v], answer[v]>>
    BY <1>2, <1>3
  <1>4. ASSUME NEW s \in Sessions, Arrive(s) \/ Hit(s) \/ Miss(s) \/ Upstream(s) \/ Store(s), s # v
        PROVE  UNCHANGED <<step[v], question[v], answer[v]>>
    BY <1>0, <1>4 DEF CacheTypeOK, Arrive, Hit, Miss, Upstream, Store, Respond
  <1>5. CASE Arrive(v)
    BY <1>0, <1>5 DEF CacheTypeOK, Arrive
  <1>6. CASE Hit(v)
    <2>1. question' = question
      BY <1>6 DEF Hit
    <2>. QED BY <1>0, <1>6, <2>1, HitFacts DEF CacheTypeOK
  <1>7. CASE Miss(v) \/ Store(v)
    <2>1. /\ question' = question /\ answer' = answer /\ step[v] # "idle"
          /\ step'[v] \in {"queued", "idle"}
      BY <1>0, <1>7 DEF CacheTypeOK, Miss, Store
    <2>. QED BY <1>2, <2>1
  <1>8. CASE Upstream(v)
    <2>1. question' = question
      BY <1>8 DEF Upstream
    <2>2. /\ question[v] \in Questions /\ Computed(question[v]) \in Bodies
          /\ Answers(Computed(question[v]), Path(question[v]), question[v].model, question[v].text)
      BY <1>0, <1>8, UpstreamFacts, ComputedFacts
    <2>3. /\ answer'[v].body = Computed(question[v]) \/ step'[v] = "idle"
          /\ ~answer'[v].hit
          /\ step'[v] \in {"storing", "idle"}
          /\ step'[v] = "storing" => Path(question[v]) \in CacheablePaths
      BY <1>0, <1>8, UpstreamFacts DEF CacheTypeOK
    <2>. QED BY <2>1, <2>2, <2>3
  <1>. QED BY <1>3, <1>4, <1>5, <1>6, <1>7, <1>8
       DEF Next, Handle, LeaveStore, SwitchBackend, Evict, Tick, SwitchHosts, Replace, vars

LEMMA CacheInvariant == Spec => []CacheInv
  <1>1. CacheInv /\ [Next]_vars => CacheInv'
    BY CacheTypeStep, EntriesStep, HandlersStep DEF CacheInv
  <1>. QED BY <1>1, CacheStart, PTL DEF Spec

\* No entry is larger than max_entry_bytes or older than its ttl.
THEOREM CacheTypeCorrect == Spec => []CacheTypeOK
  BY CacheInvariant, PTL DEF CacheInv

\* A hit is a success of the hosts for the same input, model and endpoint; the
\* options of the body are not part of the key, and it may have been computed for
\* others.
THEOREM HitFitsInputCorrect == Spec => []HitFitsInput
  BY CacheInvariant, PTL DEF CacheInv

\* Whatever the store does and holds, only the hosts can fail a request.
THEOREM OnlyHostsFailCorrect == Spec => OnlyHostsFail
  <1>1. CacheInv /\ [Next]_vars =>
            \A s \in Sessions :
               answer'[s] # answer[s] /\ answer'[s] # Nothing /\ answer'[s].body = Failure
                  => ~hosts
    <2> SUFFICES ASSUME CacheInv, [Next]_vars, NEW v \in Sessions, answer'[v] # answer[v],
                        answer'[v] # Nothing, answer'[v].body = Failure
                 PROVE  ~hosts
      OBVIOUS
    <2>0. answer \in [Sessions -> [body : Bodies, hit : BOOLEAN] \union {Nothing}] /\ CacheTypeOK
      BY DEF CacheInv, CacheTypeOK
    <2>1. ASSUME NEW s \in Sessions, Arrive(s) PROVE FALSE
      BY <2>0, <2>1 DEF Arrive
    <2>2. ASSUME NEW s \in Sessions, Hit(s) PROVE FALSE
      <3>1. s = v /\ answer'[v].body = entries[Key(question[s])].body
        BY <2>0, <2>2, HitFacts
      <3>. QED BY <2>2, <3>1, HitFacts DEF Answers, Failure
    <2>3. ASSUME NEW s \in Sessions, Upstream(s) PROVE ~hosts
      <3> SUFFICES ASSUME hosts PROVE FALSE
        OBVIOUS
      <3>1. s = v /\ answer'[v].body = Computed(question[s])
        BY <2>0, <2>3, UpstreamFacts
      <3>. QED BY <3>1 DEF Computed, Failure
    <2>. QED BY <2>1, <2>2, <2>3
         DEF Next, Handle, LeaveStore, Miss, Store, SwitchBackend, Evict, Tick, SwitchHosts, Replace, vars
  <1>. QED BY <1>1, CacheInvariant, PTL DEF Spec, OnlyHostsFail
=============================================================================
