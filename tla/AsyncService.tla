---------------------------- MODULE AsyncService ----------------------------
(***************************************************************************)
(* The asynchronous translation service of the Bergamot engine             *)
(* (inference/src/translator): AsyncService and its worker threads, the    *)
(* monitor ThreadsafeBatchingPool<AggregateBatchingPool>, the BatchingPool *)
(* of every TranslationModel, Request with its atomic counter and its      *)
(* histories, and the translation cache.                                   *)
(*                                                                         *)
(* Threads are the clients, which call translate() and pivot(), and the    *)
(* workers.  A critical section of the monitor is one action, as is one    *)
(* access to the cache (it holds a mutex bucket) and one operation on the  *)
(* atomic counter.  The code is modelled as built with NDEBUG, the default *)
(* (Release): an assert() does nothing, and is stated as a property.       *)
(***************************************************************************)
EXTENDS Integers, Sequences, Batching

CONSTANTS
    Clients,         \* threads that use the service
    Workers,         \* the threads of workers_
    Models,          \* TranslationModel instances
    Requests,        \* Request objects, as their addresses
    Segments,        \* segments: token sequences ended by EOS
    Tokens,          \* their lengths
    Texts,           \* what TextProcessor::process makes of the inputs
    Retokenize,      \* segment that processFromAnnotation makes of a history
    Hash,            \* hashForCache of a model and a segment
    Pivots,          \* <<first, second>> for which pivot() is called
    MiniBatchWords,  \* mini-batch-words
    CacheSize,       \* cacheSize, 0 for no cache
    SizeMod,         \* number of values of size_t
    ClearAllowed,    \* do the clients call clear()?
    None             \* nullptr, and the absence of a value

Threads == Clients \cup Workers

\* The translation of a segment by a model is a function of the two.
Histories == Models \X Segments
Keys == {Hash[h] : h \in Histories}
Sentences == [request : Requests, index : Nat, tokens : Nat]

ASSUME NoneAssumption ==
    /\ None \notin Threads
    /\ None \notin Models
    /\ None \notin Requests
    /\ None \notin Histories
    /\ None \notin Seq(Histories)
    /\ None \notin [text : Seq(Segments), first : Models, second : Models \cup {None}]
ASSUME ThreadsAssumption == Clients \cap Workers = {}
ASSUME RequestsAssumption == Requests \subseteq Nat /\ IsFiniteSet(Requests)
ASSUME TextsAssumption ==
    /\ Texts \subseteq Seq(Segments)
    /\ Tokens \in [Segments -> Nat]
    /\ Retokenize \in [Histories -> Segments]
ASSUME PivotsAssumption == Pivots \subseteq Models \X Models
ASSUME SizesAssumption ==
    /\ MiniBatchWords \in Nat
    /\ CacheSize \in Nat
    /\ SizeMod \in Nat \ {0}
    /\ ClearAllowed \in BOOLEAN
\* Two segments never share a cache key, and no key is 0, the key of an empty
\* record: both are 64-bit hash accidents.
ASSUME HashAssumption ==
    /\ Hash \in [Histories -> Nat \ {0}]
    /\ \A g, h \in Histories : Hash[g] = Hash[h] => g = h

VARIABLES
    req,             \* of each request, what it was made with
    stage,           \* where its making is
    cursor,          \* next segment to look up in the cache
    histories,       \* histories_
    counter,         \* counter_
    answers,         \* the histories each call of responseBuilder_ got
    requestId,       \* requestId_
    cache,           \* records_ of the cache
    pool,            \* the sentences in bucket_ of all the models
    maxActive,       \* maxActiveBucketLength_ of each model
    aggregateQueue,  \* aggregateQueue_
    enqueued,        \* enqueued_
    shutdown,        \* shutdown_
    service,         \* life of the AsyncService object
    pc,              \* control of each worker
    batch,           \* sentences of the batch of a worker still to complete
    current          \* the sentence whose history it processes

requestVars == <<req, stage, cursor, histories, counter, answers, requestId>>
poolVars == <<pool, maxActive, aggregateQueue, enqueued, shutdown>>
workerVars == <<pc, batch, current>>
vars == <<requestVars, cache, poolVars, workerVars, service>>

-----------------------------------------------------------------------------
\* size_t addition and subtraction wrap around.
Plus(a, b) == (a + b) % SizeMod
Minus(a, b) == (a - b) % SizeMod

caching == CacheSize > 0
Slot(key) == key % CacheSize
NoRecord == [key |-> 0, value |-> None]

Unused == [id |-> 0, model |-> None, segments |-> <<>>, second |-> None,
           parent |-> None, thread |-> None]

\* The history that translating segment i of r gives.
Translation(r, i) == <<req[r].model, req[r].segments[i]>>
Sentence(r, i) ==
    [request |-> r, index |-> i, tokens |-> Tokens[req[r].segments[i]]]
ModelOf(s) == req[s.request].model

\* The bucket_ of one model, up to maxActiveBucketLength_.
ActiveBuckets(m) == {s \in pool : ModelOf(s) = m /\ s.tokens <= maxActive[m]}
ModelBatch(m) == Draw(ActiveBuckets(m), MiniBatchWords)

\* r is being made by its thread, and every request made inside that call
\* (by the callback of pivot) has been handed over.
Active(r) == stage[r] \in {"numbering", "building", "built"}
OnTop(r) == \A q \in Requests : req[q].parent = r => ~Active(q)
Idle(t) == \A r \in Requests : req[r].thread = t => ~Active(r)

\* Slip: enqueueRequest and shutdown() wake nobody.
NotifyNobody == pc' = pc

\* work_.notify_all()
NotifyAll == pc' = [w \in Workers |-> IF pc[w] = "waiting" THEN "generate"
                                                           ELSE pc[w]]

-----------------------------------------------------------------------------
(* Slips: the actions below with a plausible fault each, against which the *)
(* properties are tested.                                                  *)

\* The constructor responds as soon as one segment was in the cache.
RespondEarlyOnAnyHit(r) ==
    LET q == req[r].second
    IN  /\ stage[r] = "building" /\ cursor[r] > Len(req[r].segments)
        /\ counter[r] = 0 \/ counter[r] < Len(req[r].segments)
        /\ answers' = [answers EXCEPT ![r] = Append(@, histories[r])]
        /\ q = None
        /\ stage' = [stage EXCEPT ![r] = "built"]
        /\ UNCHANGED <<req, cursor, histories, counter, requestId, cache, poolVars,
                       workerVars, service>>

\* The cache does not compare keys: whatever is in the slot is a hit.
PrefillFromSlot(r) ==
    LET i == cursor[r]
        slot == Slot(Hash[Translation(r, i)])
    IN  /\ stage[r] = "building" /\ i \in DOMAIN req[r].segments
        /\ cursor' = [cursor EXCEPT ![r] = i + 1]
        /\ IF cache[slot] # NoRecord
           THEN /\ histories' = [histories EXCEPT ![r][i] = cache[slot].value]
                /\ counter' = [counter EXCEPT ![r] = @ - 1]
           ELSE UNCHANGED <<histories, counter>>
        /\ UNCHANGED <<req, stage, answers, requestId, cache, poolVars,
                       workerVars, service>>

\* The model just served leaves aggregateQueue_ with sentences still pending.
GenerateBatchDropsModel(w) ==
    /\ pc[w] = "generate" /\ (enqueued # 0 \/ shutdown)
    /\ \E m \in aggregateQueue :
         /\ ModelBatch(m) # {}
         /\ aggregateQueue' = aggregateQueue \ {m}
         /\ batch' = [batch EXCEPT ![w] = ModelBatch(m)]
         /\ pool' = pool \ ModelBatch(m)
         /\ enqueued' = Minus(enqueued, Cardinality(ModelBatch(m)))
    /\ pc' = [pc EXCEPT ![w] = "complete"]
    /\ UNCHANGED <<requestVars, cache, maxActive, shutdown, current, service>>

\* A batch counts for one, whatever the number of its sentences.
GenerateBatchCountsOne(w) ==
    /\ pc[w] = "generate" /\ (enqueued # 0 \/ shutdown)
    /\ \E m \in aggregateQueue :
         /\ ModelBatch(m) # {}
         /\ batch' = [batch EXCEPT ![w] = ModelBatch(m)]
         /\ pool' = pool \ ModelBatch(m)
    /\ enqueued' = Minus(enqueued, 1)
    /\ pc' = [pc EXCEPT ![w] = "complete"]
    /\ UNCHANGED <<requestVars, cache, maxActive, aggregateQueue, shutdown, current,
                   service>>

\* A worker stops as soon as the service shuts down.
ExitAtShutdown(w) ==
    /\ pc[w] = "generate" /\ shutdown
    /\ aggregateQueue' = {}
    /\ pc' = [pc EXCEPT ![w] = "exited"]
    /\ UNCHANGED <<requestVars, cache, pool, maxActive, enqueued, shutdown, batch,
                   current, service>>

\* The history is stored under the key of the first segment of the request.
StoreUnderFirst(w) ==
    LET s == current[w]
        key == Hash[Translation(s.request, 1)]
    IN  /\ pc[w] = "store"
        /\ cache' = [cache EXCEPT ![Slot(key)] =
                        [key |-> key, value |-> histories[s.request][s.index]]]
        /\ pc' = [pc EXCEPT ![w] = "count"]
        /\ UNCHANGED <<requestVars, poolVars, batch, current, service>>

\* The worker that brings the counter to 0 goes on with its batch.
CountDownSilently(w) ==
    LET r == current[w].request
    IN  /\ pc[w] = "count"
        /\ counter' = [counter EXCEPT ![r] = @ - 1]
        /\ pc' = [pc EXCEPT ![w] = IF counter[r] = 0 THEN "respond" ELSE "complete"]
        /\ UNCHANGED <<req, stage, cursor, histories, answers, requestId, cache,
                       poolVars, batch, current, service>>

-----------------------------------------------------------------------------
Init ==
    /\ req = [r \in Requests |-> Unused]
    /\ stage = [r \in Requests |-> "new"]
    /\ cursor = [r \in Requests |-> 0]
    /\ histories = [r \in Requests |-> <<>>]
    /\ counter = [r \in Requests |-> 0]
    /\ answers = [r \in Requests |-> <<>>]
    /\ requestId = 0
    /\ cache = [slot \in 0..(CacheSize - 1) |-> NoRecord]
    /\ pool = {}
    /\ maxActive = [m \in Models |-> 0]
    /\ aggregateQueue = {}
    /\ enqueued = 0
    /\ shutdown = FALSE
    /\ service = "up"
    /\ pc = [w \in Workers |-> "generate"]
    /\ batch = [w \in Workers |-> {}]
    /\ current = [w \in Workers |-> None]

-----------------------------------------------------------------------------
(* Making a request, by a client or, inside the callback of pivot, by a worker. *)

\* AsyncService::translate and translateRaw: makeRequest is entered and
\* requestId_ read (requestId_++ is not atomic: the write is a later step).
Translate(c, r, m, text) ==
    /\ service = "up" /\ Idle(c)
    /\ stage[r] = "new"
    /\ stage' = [stage EXCEPT ![r] = "numbering"]
    /\ req' = [req EXCEPT ![r] = [id |-> requestId, model |-> m,
                                  segments |-> text, second |-> None,
                                  parent |-> None, thread |-> c]]
    /\ UNCHANGED <<cursor, histories, counter, answers, requestId, cache,
                   poolVars, workerVars, service>>

\* AsyncService::pivot: as translate, with a callback that will make request q
\* for the second model.
Pivot(c, r, q, first, second, text) ==
    /\ service = "up" /\ Idle(c)
    /\ r # q /\ stage[r] = "new" /\ stage[q] = "new"
    /\ stage' = [stage EXCEPT ![r] = "numbering", ![q] = "reserved"]
    /\ req' = [req EXCEPT ![r] = [id |-> requestId, model |-> first,
                                  segments |-> text, second |-> q,
                                  parent |-> None, thread |-> c],
                          ![q] = [Unused EXCEPT !.model = second, !.parent = r]]
    /\ UNCHANGED <<cursor, histories, counter, answers, requestId, cache,
                   poolVars, workerVars, service>>

\* requestId_ is written, and the constructor of Request sets up its members.
Number(r) ==
    /\ stage[r] = "numbering"
    /\ requestId' = req[r].id + 1
    /\ stage' = [stage EXCEPT ![r] = "building"]
    /\ cursor' = [cursor EXCEPT ![r] = IF caching THEN 1
                                       ELSE Len(req[r].segments) + 1]
    /\ histories' = [histories EXCEPT ![r] =
                        [i \in DOMAIN req[r].segments |-> None]]
    /\ counter' = [counter EXCEPT ![r] = Len(req[r].segments)]
    /\ UNCHANGED <<req, answers, cache, poolVars, workerVars, service>>

\* One turn of the constructor's loop: cache_->find, and on a hit the segment
\* is complete.
Prefill(r) ==
    LET i == cursor[r]
        key == Hash[Translation(r, i)]
        hit == cache[Slot(key)].key = key
    IN  /\ stage[r] = "building" /\ i \in DOMAIN req[r].segments
        /\ cursor' = [cursor EXCEPT ![r] = i + 1]
        /\ IF hit
           THEN /\ histories' = [histories EXCEPT ![r][i] = cache[Slot(key)].value]
                /\ counter' = [counter EXCEPT ![r] = @ - 1]
           ELSE UNCHANGED <<histories, counter>>
        /\ UNCHANGED <<req, stage, answers, requestId, cache, poolVars,
                       workerVars, service>>

\* responseBuilder_(std::move(histories_)), run by thread t: the callback of
\* the client gets the response, or the callback of pivot enters
\* makePivotRequest of the second model.  "after" is stage with what else the
\* step does to it.
Respond(r, t, after) ==
    LET q == req[r].second
        text == [i \in DOMAIN histories[r] |-> Retokenize[histories[r][i]]]
    IN  /\ answers' = [answers EXCEPT ![r] = Append(@, histories[r])]
        /\ IF q = None
           THEN stage' = after /\ req' = req
           ELSE /\ stage' = [after EXCEPT ![q] = "numbering"]
                /\ req' = [req EXCEPT ![q].id = requestId, ![q].segments = text,
                                      ![q].thread = t]

\* The constructor returns; nothing is left to translate when the text is
\* empty or every segment was in the cache, and then it responds itself.
RespondEarly(r) ==
    /\ stage[r] = "building" /\ cursor[r] > Len(req[r].segments)
    /\ counter[r] = 0
    /\ Respond(r, req[r].thread, [stage EXCEPT ![r] = "built"])
    /\ UNCHANGED <<cursor, histories, counter, requestId, cache, poolVars,
                   workerVars, service>>

ReturnRequest(r) ==
    /\ stage[r] = "building" /\ cursor[r] > Len(req[r].segments)
    /\ counter[r] # 0
    /\ stage' = [stage EXCEPT ![r] = "built"]
    /\ UNCHANGED <<req, cursor, histories, counter, answers, requestId, cache,
                   poolVars, workerVars, service>>

\* enqueueRequest of the monitor, of AggregateBatchingPool and of the pool of
\* the model: the segments the cache did not fill become pending sentences.
EnqueueRequest(r) ==
    LET m == req[r].model
        fresh == {Sentence(r, i) : i \in {j \in DOMAIN req[r].segments :
                                            histories[r][j] = None}}
    IN  /\ stage[r] = "built" /\ OnTop(r)
        /\ stage' = [stage EXCEPT ![r] = "enqueued"]
        /\ pool' = pool \cup fresh
        /\ \E longest \in {s.tokens : s \in fresh} \cup {maxActive[m]} :
              /\ longest >= maxActive[m] /\ \A s \in fresh : longest >= s.tokens
              /\ maxActive' = [maxActive EXCEPT ![m] = longest]
        /\ aggregateQueue' = aggregateQueue \cup {m}
        /\ enqueued' = Plus(enqueued, Cardinality(fresh))
        /\ NotifyAll
        /\ UNCHANGED <<req, cursor, histories, counter, answers, requestId, cache,
                       shutdown, batch, current, service>>

Make(r) == \/ Number(r) \/ Prefill(r)
           \/ RespondEarly(r) \/ ReturnRequest(r)
           \/ EnqueueRequest(r)

-----------------------------------------------------------------------------
(* The worker threads.                                                     *)

\* generateBatch of the monitor finds nothing to do and blocks on work_.
Wait(w) ==
    /\ pc[w] = "generate" /\ enqueued = 0 /\ ~shutdown
    /\ pc' = [pc EXCEPT ![w] = "waiting"]
    /\ UNCHANGED <<requestVars, cache, poolVars, batch, current, service>>

\* A condition variable may wake up with no notification.
SpuriousWakeup(w) ==
    /\ pc[w] = "waiting"
    /\ pc' = [pc EXCEPT ![w] = "generate"]
    /\ UNCHANGED <<requestVars, cache, poolVars, batch, current, service>>

\* generateBatch with the predicate of the wait true.  The models of
\* aggregateQueue_ (an unordered_set) are asked for a batch in no particular
\* order, until one has some; the ones that had none are erased.
GenerateBatch(w) ==
    /\ pc[w] = "generate" /\ (enqueued # 0 \/ shutdown)
    /\ \E m \in aggregateQueue,
         erased \in SUBSET {n \in aggregateQueue : ModelBatch(n) = {}} :
         /\ ModelBatch(m) # {}
         /\ aggregateQueue' = aggregateQueue \ erased
         /\ batch' = [batch EXCEPT ![w] = ModelBatch(m)]
         /\ pool' = pool \ ModelBatch(m)
         /\ enqueued' = Minus(enqueued, Cardinality(ModelBatch(m)))
    /\ pc' = [pc EXCEPT ![w] = "complete"]
    /\ UNCHANGED <<requestVars, cache, maxActive, shutdown, current, service>>

\* No model has a batch: generateBatch returns 0 and the thread ends.
Exit(w) ==
    /\ pc[w] = "generate" /\ (enqueued # 0 \/ shutdown)
    /\ \A m \in aggregateQueue : ModelBatch(m) = {}
    /\ aggregateQueue' = {}
    /\ pc' = [pc EXCEPT ![w] = "exited"]
    /\ UNCHANGED <<requestVars, cache, pool, maxActive, enqueued, shutdown, batch,
                   current, service>>

\* translateBatch has the histories of the batch, and completeBatch hands them
\* over, in the order of the batch: histories_[index] = history.
ProcessHistory(w) ==
    /\ pc[w] = "complete" /\ Idle(w)
    /\ \E s \in batch[w] :
         /\ IsFirst(s, batch[w])
         /\ current' = [current EXCEPT ![w] = s]
         /\ batch' = [batch EXCEPT ![w] = @ \ {s}]
         /\ histories' = [histories EXCEPT ![s.request][s.index] =
                             Translation(s.request, s.index)]
    /\ pc' = [pc EXCEPT ![w] = IF caching THEN "store" ELSE "count"]
    /\ UNCHANGED <<req, stage, cursor, counter, answers, requestId, cache,
                   poolVars, service>>

\* cache_->store
Store(w) ==
    LET s == current[w]
        key == Hash[Translation(s.request, s.index)]
    IN  /\ pc[w] = "store"
        /\ cache' = [cache EXCEPT ![Slot(key)] =
                        [key |-> key, value |-> histories[s.request][s.index]]]
        /\ pc' = [pc EXCEPT ![w] = "count"]
        /\ UNCHANGED <<requestVars, poolVars, batch, current, service>>

\* --counter_ == 0
CountDown(w) ==
    LET r == current[w].request
    IN  /\ pc[w] = "count"
        /\ counter' = [counter EXCEPT ![r] = @ - 1]
        /\ pc' = [pc EXCEPT ![w] = IF counter[r] = 1 THEN "respond" ELSE "complete"]
        /\ UNCHANGED <<req, stage, cursor, histories, answers, requestId, cache,
                       poolVars, batch, current, service>>

RespondLast(w) ==
    /\ pc[w] = "respond"
    /\ Respond(current[w].request, w, stage)
    /\ pc' = [pc EXCEPT ![w] = "complete"]
    /\ UNCHANGED <<cursor, histories, counter, requestId, cache, poolVars, batch,
                   current, service>>

\* translateBatch returns and the main loop asks for the next batch.
EndBatch(w) ==
    /\ pc[w] = "complete" /\ Idle(w) /\ batch[w] = {}
    /\ pc' = [pc EXCEPT ![w] = "generate"]
    /\ current' = [current EXCEPT ![w] = None]
    /\ UNCHANGED <<requestVars, cache, poolVars, batch, service>>

Work(w) == \/ Wait(w) \/ GenerateBatch(w) \/ Exit(w)
           \/ ProcessHistory(w) \/ Store(w) \/ CountDown(w)
           \/ RespondLast(w) \/ EndBatch(w)

-----------------------------------------------------------------------------
(* The life of the service.                                                *)

\* AsyncService::clear: the sentences stay in the pools of their models.
Clear(c) ==
    /\ ClearAllowed /\ service = "up" /\ Idle(c)
    /\ aggregateQueue' = {}
    /\ enqueued' = 0
    /\ UNCHANGED <<requestVars, cache, pool, maxActive, shutdown, workerVars,
                   service>>

\* ~AsyncService begins, when no client is inside a call.
Shutdown ==
    /\ service = "up" /\ \A c \in Clients : Idle(c)
    /\ service' = "joining"
    /\ shutdown' = TRUE
    /\ NotifyAll
    /\ UNCHANGED <<requestVars, cache, pool, maxActive, aggregateQueue, enqueued,
                   batch, current>>

\* Every worker has been joined.
Join ==
    /\ service = "joining" /\ \A w \in Workers : pc[w] = "exited"
    /\ service' = "destroyed"
    /\ UNCHANGED <<requestVars, cache, poolVars, workerVars>>

\* The service is gone, and nothing happens to it any more.
Terminated == service = "destroyed" /\ UNCHANGED vars

-----------------------------------------------------------------------------
Next ==
    \/ \E c \in Clients, r \in Requests, text \in Texts :
         \/ \E m \in Models : Translate(c, r, m, text)
         \/ \E q \in Requests, p \in Pivots : Pivot(c, r, q, p[1], p[2], text)
    \/ \E r \in Requests : Make(r)
    \/ \E w \in Workers : Work(w) \/ SpuriousWakeup(w)
    \/ \E c \in Clients : Clear(c)
    \/ Shutdown
    \/ Join
    \/ Terminated

Spec == Init /\ [][Next]_vars

\* What a thread does next: its part in the making of a request, or, for a
\* worker, a step of its main loop.  The operating system runs every thread
\* that can run; clients are not obliged to call anything, and nothing is
\* obliged to wake up spuriously.
Step(t) == \/ \E r \in Requests : req[r].thread = t /\ Make(r)
           \/ t \in Workers /\ Work(t)

Fairness == /\ \A t \in Threads : WF_vars(Step(t))
            /\ WF_vars(Join)
FairSpec == Spec /\ Fairness

-----------------------------------------------------------------------------
(* What a request is waiting for, and where its sentences are.             *)

Made(r) == stage[r] \in {"building", "built", "enqueued"}

\* The segments of r whose completion counter_ has not counted yet.
Outstanding(r) ==
    {i \in DOMAIN histories[r] :
        \/ histories[r][i] = None
        \/ \E w \in Workers : /\ pc[w] \in {"store", "count"}
                              /\ current[w].request = r /\ current[w].index = i}

\* s is a sentence of a request in the pool, and has no history yet.
Awaits(s) ==
    /\ stage[s.request] = "enqueued"
    /\ s.index \in DOMAIN histories[s.request]
    /\ histories[s.request][s.index] = None
    /\ s = Sentence(s.request, s.index)

Stages == {"new", "reserved", "numbering", "building", "built", "enqueued"}
RequestRecord ==
    [id : Nat, model : Models \cup {None}, segments : Seq(Segments),
     second : Requests \cup {None}, parent : Requests \cup {None},
     thread : Threads \cup {None}]

TypeOK ==
    /\ req \in [Requests -> RequestRecord]
    /\ stage \in [Requests -> Stages]
    /\ cursor \in [Requests -> Nat]
    /\ histories \in [Requests -> Seq(Histories \cup {None})]
    /\ counter \in [Requests -> Int]
    /\ answers \in [Requests -> Seq(Seq(Histories \cup {None}))]
    /\ requestId \in Nat
    /\ cache \in [0..(CacheSize - 1) ->
                    [key : Keys, value : Histories] \cup {NoRecord}]
    /\ pool \in SUBSET Sentences /\ IsFiniteSet(pool)
    /\ maxActive \in [Models -> Nat]
    /\ aggregateQueue \in SUBSET Models
    /\ enqueued \in 0..(SizeMod - 1)
    /\ shutdown \in BOOLEAN
    /\ service \in {"up", "joining", "destroyed"}
    /\ pc \in [Workers -> {"generate", "waiting", "complete", "store", "count",
                           "respond", "exited"}]
    /\ batch \in [Workers -> SUBSET Sentences]
    /\ current \in [Workers -> Sentences \cup {None}]

-----------------------------------------------------------------------------
(* Safety.                                                                 *)

\* The responseBuilder_ of a request, and with it the callback of the client,
\* is called at most once (request.cpp: by the constructor, or by the worker
\* that brings counter_ to 0, never by both).
OneResponse == \A r \in Requests : Len(answers[r]) <= 1

\* A response is built from all the histories of its own segments, by its own
\* model, wherever they come from: the cache, or any of the workers.
ResponseComplete ==
    \A r \in Requests : \A k \in DOMAIN answers[r] :
        answers[r][k] = [i \in DOMAIN req[r].segments |-> Translation(r, i)]

\* counter_ is the number of segments whose completion has not been counted,
\* although workers write histories_ and decrement counter_ in separate steps.
CounterExact ==
    \A r \in Requests : Made(r) => counter[r] = Cardinality(Outstanding(r))

\* A sentence that needs a history is in the pool of its model or in the batch
\* of one worker, and the pools and the batches hold nothing else.
SentencesPlaced ==
    /\ \A s \in pool : Awaits(s)
    /\ \A w \in Workers : \A s \in batch[w] :
         Awaits(s) /\ s \notin pool /\ \A v \in Workers \ {w} : s \notin batch[v]
    /\ \A r \in Requests : \A i \in DOMAIN histories[r] :
         stage[r] = "enqueued" /\ histories[r][i] = None =>
             \/ Sentence(r, i) \in pool
             \/ \E w \in Workers : Sentence(r, i) \in batch[w]

\* enqueued_ is the "number of sentences in backend_".
BacklogExact == enqueued = Cardinality(pool)

\* While there is something to do, or the service is shutting down, no worker
\* sleeps on the condition variable.
NoLostWakeup == enqueued > 0 \/ shutdown => \A w \in Workers : pc[w] # "waiting"

\* A pending sentence can be reached: its model is in aggregateQueue_ and its
\* bucket is one that generateBatch visits.
NoStrandedSentence ==
    \A s \in pool : ModelOf(s) \in aggregateQueue /\ s.tokens <= maxActive[ModelOf(s)]

\* The destructor does not drop a request that was made: when the workers are
\* joined every request has had its response, also the second request of a
\* pivot() that a worker made after shutdown().
DestroyedAnswered ==
    service = "destroyed" =>
        \A r \in Requests : stage[r] \notin {"new"} => answers[r] # <<>>

-----------------------------------------------------------------------------
(* The inductive invariant behind OneResponse and ResponseComplete.        *)

\* Before the constructor runs a request has no histories; then it has one
\* place for each segment, and what is in it is the translation of the segment.
HistoriesRight ==
    \A r \in Requests :
        /\ ~Made(r) => histories[r] = <<>>
        /\ Made(r) => DOMAIN histories[r] = DOMAIN req[r].segments
        /\ \A i \in DOMAIN histories[r] :
              histories[r][i] # None => histories[r][i] = Translation(r, i)

\* A record of the cache holds the history its key was computed for.
CacheRight ==
    \A slot \in DOMAIN cache : \A h \in Histories :
        cache[slot].key = Hash[h] => cache[slot].value = h

\* What is set when a request is made, and the link between the two requests
\* of a pivot(): the second is untouched until the first has its response.
RequestLinks ==
    \A r \in Requests :
        /\ stage[r] = "new" => req[r] = Unused
        /\ stage[r] # "new" => req[r].model \in Models
        /\ stage[r] = "reserved" => req[r].second = None
        /\ req[r].second # None =>
             LET q == req[r].second
             IN  /\ req[q].parent = r /\ q # r
                 /\ stage[q] # "new"
                 /\ (stage[q] = "reserved") <=> (answers[r] = <<>>)

\* The constructor has not filled what lies ahead of its cursor, and looks up
\* nothing when there is no cache.
CursorAhead ==
    \A r \in Requests : stage[r] = "building" =>
        /\ caching \/ cursor[r] > Len(req[r].segments)
        /\ \A i \in DOMAIN histories[r] : i >= cursor[r] => histories[r][i] = None

\* The sentence a worker processes is one of a request in the pool and has its
\* history; no other worker processes it, and one that is about to respond is
\* the only one, with nothing outstanding.
CurrentRight ==
    \A w \in Workers : pc[w] \in {"store", "count", "respond"} =>
        LET s == current[w]
        IN  /\ s \in Sentences
            /\ stage[s.request] = "enqueued"
            /\ s.index \in DOMAIN histories[s.request]
            /\ histories[s.request][s.index] # None
            /\ pc[w] = "respond" => /\ counter[s.request] = 0
                                    /\ answers[s.request] = <<>>
            /\ \A v \in Workers \ {w} :
                 /\ pc[v] \in {"store", "count"} /\ pc[w] # "respond" =>
                      \/ current[v].request # s.request
                      \/ current[v].index # s.index
                 /\ pc[v] = "respond" /\ pc[w] = "respond" =>
                      current[v].request # s.request

\* A worker that asks for a batch has none.
BatchUsed ==
    \A w \in Workers : pc[w] \in {"generate", "waiting", "exited"} => batch[w] = {}

\* A request that was answered was answered once, when nothing was outstanding.
AnsweredOnce ==
    \A r \in Requests :
        /\ Len(answers[r]) <= 1
        /\ answers[r] # <<>> => stage[r] \in {"built", "enqueued"} /\ counter[r] = 0

IInv == /\ TypeOK
        /\ RequestLinks
        /\ HistoriesRight
        /\ CacheRight
        /\ CursorAhead
        /\ SentencesPlaced
        /\ CounterExact
        /\ CurrentRight
        /\ BatchUsed
        /\ AnsweredOnce
        /\ ResponseComplete

-----------------------------------------------------------------------------
(* Liveness and the promise to the clients.                                *)

\* The call that request r was made for: r itself is the call.
askedOf(r) ==
    IF stage[r] \in {"new", "reserved"} \/ req[r].parent # None THEN None
    ELSE [text |-> req[r].segments, first |-> req[r].model,
          second |-> IF req[r].second = None THEN None
                     ELSE req[req[r].second].model]
toldOf(r) ==
    LET last == IF req[r].second = None THEN r ELSE req[r].second
    IN  IF req[r].parent # None \/ answers[last] = <<>> THEN None
        ELSE answers[last][1]

TP == INSTANCE TranslationPromise WITH
          Calls <- Requests,
          asked <- [r \in Requests |-> askedOf(r)],
          told <- [r \in Requests |-> toldOf(r)]

\* The service keeps its promise: every call of translate() and pivot() is
\* answered, once and with its own translation, and the destructor returns
\* after the last answer.
Promise == TP!Spec
=============================================================================
