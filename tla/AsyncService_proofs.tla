------------------------ MODULE AsyncService_proofs ------------------------
(***************************************************************************)
(* Proofs about AsyncService, for any sets of clients, workers, models,    *)
(* requests and segments.  First the requests: every action preserves the  *)
(* inductive invariant IInv, from which the safety of the responses        *)
(* follows.  Then the promise to the clients: as long as no client calls   *)
(* clear(), nothing that was enqueued is out of the workers' reach, the    *)
(* destructor returns only when every call has been answered, and every    *)
(* step is one that TranslationPromise allows.                             *)
(***************************************************************************)
EXTENDS AsyncService, TLAPS, SequenceTheorems, FiniteSetTheorems,
        NaturalsInduction, WellFoundedInduction

-----------------------------------------------------------------------------
\* The smallest of some numbers.
LEMMA Smallest ==
    ASSUME NEW S \in SUBSET Nat, S # {}
    PROVE  \E m \in S : \A k \in S : m <= k
<1>1. PICK m \in S : \A k \in S : ~(<<k, m>> \in OpToRel(<, Nat))
  BY NatLessThanWellFounded, WFMin
<1>2. \A k \in S : ~(k < m)
  BY <1>1 DEF OpToRel
<1>3. \A k \in S : k \in Nat
  OBVIOUS
<1> QED BY <1>2, <1>3

\* A function on 1..n is a sequence of length n.
LEMMA FunctionIsSeq ==
    ASSUME NEW S, NEW n \in Nat, NEW f \in [1..n -> S]
    PROVE  f \in Seq(S) /\ Len(f) = n
  OBVIOUS

\* A sequence with every element replaced by one value keeps its length.
LEMMA ConstSeq ==
    ASSUME NEW S, NEW T, NEW s \in Seq(S), NEW x \in T
    PROVE  [i \in DOMAIN s |-> x] \in Seq(T) /\ Len([i \in DOMAIN s |-> x]) = Len(s)
<1>1. Len(s) \in Nat /\ DOMAIN s = 1..Len(s) BY LenProperties
<1>2. [i \in DOMAIN s |-> x] \in [1..Len(s) -> T] BY <1>1
<1> QED BY <1>1, <1>2, FunctionIsSeq

\* A key is mapped to a record of the cache.
LEMMA SlotRange ==
    ASSUME caching, NEW key \in Nat
    PROVE  Slot(key) \in 0..(CacheSize - 1)
  BY SizesAssumption DEF caching, Slot

\* The initial state has its type.
LEMMA TypeInit == Init => TypeOK
<1> SUFFICES ASSUME Init PROVE TypeOK OBVIOUS
<1>1. req \in [Requests -> RequestRecord]
  <2>1. Unused \in RequestRecord BY DEF Unused, RequestRecord
  <2> QED BY <2>1 DEF Init
<1>2. \A S : <<>> \in Seq(S) OBVIOUS
<1>3. /\ histories \in [Requests -> Seq(Histories \cup {None})]
      /\ answers \in [Requests -> Seq(Seq(Histories \cup {None}))]
  BY <1>2 DEF Init
<1>4. cache \in [0..(CacheSize - 1) -> [key : Keys, value : Histories] \cup {NoRecord}] BY DEF Init
<1>5. enqueued \in 0..(SizeMod - 1) BY SizesAssumption DEF Init
<1>6. /\ stage \in [Requests -> Stages] /\ cursor \in [Requests -> Nat]
      /\ counter \in [Requests -> Int] /\ requestId \in Nat
  BY DEF Init, Stages
<1>7. /\ pool \in SUBSET Sentences /\ IsFiniteSet(pool) /\ maxActive \in [Models -> Nat]
      /\ aggregateQueue \in SUBSET Models /\ shutdown \in BOOLEAN
  BY FS_EmptySet DEF Init
<1>8. service \in {"up", "joining", "destroyed"} BY DEF Init
<1>9. pc \in [Workers -> {"generate", "waiting", "complete", "store", "count", "respond", "exited"}]
      /\ batch \in [Workers -> SUBSET Sentences]
      /\ current \in [Workers -> Sentences \cup {None}]
  BY DEF Init
<1> QED BY <1>1, <1>3, <1>4, <1>5, <1>6, <1>7, <1>8, <1>9 DEF TypeOK

\* w has a sentence whose history it is handing over.
Busy(w) == pc[w] \in {"store", "count", "respond"}

\* What steps that only move idle workers or the monitor leave alone.
Quiet ==
    /\ UNCHANGED <<req, stage, cursor, histories, counter, answers, cache, pool, batch>>
    /\ \A w \in Workers : Busy(w) \/ Busy(w)' => pc'[w] = pc[w] /\ current'[w] = current[w]
    /\ \A w \in Workers : pc'[w] = pc[w] \/ batch[w] = {}

\* A step that touches neither requests, cache, pool nor batches, and no worker
\* with a current sentence, preserves the invariant.
LEMMA QuietStep == IInv /\ Quiet /\ TypeOK' => IInv'
<1> SUFFICES ASSUME IInv, Quiet, TypeOK' PROVE IInv' OBVIOUS
<1> USE DEF Quiet, Made, Translation, Sentence
<1>1. RequestLinks' BY DEF IInv, RequestLinks
<1>2. HistoriesRight' BY DEF IInv, HistoriesRight
<1>3. CacheRight' BY DEF IInv, CacheRight
<1>4. CursorAhead' BY DEF IInv, CursorAhead
<1>5. SentencesPlaced'
  <2>1. \A s : Awaits(s)' <=> Awaits(s) BY DEF Awaits
  <2>2. \A r \in Requests : \A i \in DOMAIN histories[r] : Sentence(r, i)' = Sentence(r, i) OBVIOUS
  <2> QED BY <2>1, <2>2 DEF IInv, SentencesPlaced
<1>6. CounterExact'
  <2>1. \A r \in Requests : Outstanding(r)' = Outstanding(r) BY DEF Outstanding, Busy
  <2> QED BY <2>1 DEF IInv, CounterExact
<1>7. CurrentRight' BY DEF IInv, CurrentRight, Busy
<1>8. AnsweredOnce' BY DEF IInv, AnsweredOnce
<1>9. ResponseComplete' BY DEF IInv, ResponseComplete
<1>10. BatchUsed' BY DEF IInv, BatchUsed
<1> QED BY <1>1, <1>2, <1>3, <1>4, <1>5, <1>6, <1>7, <1>8, <1>9, <1>10 DEF IInv

\* The steps of waiting, waking up, ending a batch or a thread, clear(), shutdown
\* and joining are quiet.
LEMMA QuietActions ==
    ASSUME IInv,
           \/ \E w \in Workers : Wait(w) \/ SpuriousWakeup(w) \/ Exit(w) \/ EndBatch(w)
           \/ \E c \in Clients : Clear(c)
           \/ Shutdown \/ Join \/ UNCHANGED vars
    PROVE  IInv'
<1>. USE DEF vars, requestVars, poolVars, workerVars, Busy
<1>1. TypeOK BY DEF IInv
<1>2. ASSUME NEW w \in Workers, Wait(w) PROVE IInv'
  <2>1. Quiet BY <1>1, <1>2 DEF Wait, Quiet, TypeOK, IInv, BatchUsed
  <2>2. TypeOK' BY <1>1, <1>2 DEF Wait, TypeOK
  <2> QED BY <2>1, <2>2, QuietStep
<1>3. ASSUME NEW w \in Workers, SpuriousWakeup(w) PROVE IInv'
  <2>1. Quiet BY <1>1, <1>3 DEF SpuriousWakeup, Quiet, TypeOK, IInv, BatchUsed
  <2>2. TypeOK' BY <1>1, <1>3 DEF SpuriousWakeup, TypeOK
  <2> QED BY <2>1, <2>2, QuietStep
<1>4. ASSUME NEW w \in Workers, Exit(w) PROVE IInv'
  <2>1. Quiet BY <1>1, <1>4 DEF Exit, Quiet, TypeOK, IInv, BatchUsed
  <2>2. TypeOK' BY <1>1, <1>4 DEF Exit, TypeOK
  <2> QED BY <2>1, <2>2, QuietStep
<1>5. ASSUME NEW w \in Workers, EndBatch(w) PROVE IInv'
  <2>1. Quiet BY <1>1, <1>5 DEF EndBatch, Quiet, TypeOK, IInv, BatchUsed
  <2>2. TypeOK' BY <1>1, <1>5 DEF EndBatch, TypeOK
  <2> QED BY <2>1, <2>2, QuietStep
<1>6. ASSUME NEW c \in Clients, Clear(c) PROVE IInv'
  <2>1. Quiet BY <1>1, <1>6 DEF Clear, Quiet, TypeOK
  <2>2. TypeOK' BY <1>1, <1>6, SizesAssumption DEF Clear, TypeOK
  <2> QED BY <2>1, <2>2, QuietStep
<1>7. ASSUME Shutdown PROVE IInv'
  <2>1. Quiet BY <1>1, <1>7 DEF Shutdown, NotifyAll, Quiet, TypeOK, IInv, BatchUsed
  <2>2. TypeOK' BY <1>1, <1>7 DEF Shutdown, NotifyAll, TypeOK
  <2> QED BY <2>1, <2>2, QuietStep
<1>8. ASSUME Join PROVE IInv'
  <2>1. Quiet BY <1>1, <1>8 DEF Join, Quiet, TypeOK
  <2>2. TypeOK' BY <1>1, <1>8 DEF Join, TypeOK
  <2> QED BY <2>1, <2>2, QuietStep
<1>9. ASSUME UNCHANGED vars PROVE IInv'
  <2>1. Quiet BY <1>1, <1>9 DEF Quiet, TypeOK
  <2>2. TypeOK' BY <1>1, <1>9 DEF TypeOK
  <2> QED BY <2>1, <2>2, QuietStep
<1> QED BY <1>2, <1>3, <1>4, <1>5, <1>6, <1>7, <1>8, <1>9

\* How many segments there are from 1 to n.
LEMMA IntervalCardinality ==
    ASSUME NEW n \in Nat
    PROVE  IsFiniteSet(1..n) /\ Cardinality(1..n) = n
<1>1. Cardinality(1..n) = IF 1 > n THEN 0 ELSE n - 1 + 1 BY FS_Interval
<1>2. IsFiniteSet(1..n) BY FS_Interval
<1> QED BY <1>1, <1>2

\* Sentences stay placed when the requests in the pool keep their histories.
LEMMA PlacedStable ==
    ASSUME TypeOK, SentencesPlaced, pool' = pool, batch' = batch,
           \A p \in Requests :
              /\ stage'[p] = "enqueued" <=> stage[p] = "enqueued"
              /\ stage[p] = "enqueued" =>
                   histories'[p] = histories[p] /\ req'[p] = req[p]
    PROVE  SentencesPlaced'
<1>1. pool \subseteq Sentences /\ \A w \in Workers : batch[w] \subseteq Sentences
  BY DEF TypeOK
<1>2. \A s \in Sentences : Awaits(s) => Awaits(s)'
  BY DEF Awaits, Sentence, Sentences
<1> QED BY <1>1, <1>2 DEF SentencesPlaced, Sentence

\* What workers process stays right when the requests in the pool are untouched.
LEMMA CurrentStable ==
    ASSUME CurrentRight, pc' = pc, current' = current,
           \A p \in Requests : stage[p] = "enqueued" =>
              /\ stage'[p] = "enqueued" /\ histories'[p] = histories[p]
              /\ counter'[p] = counter[p] /\ answers'[p] = answers[p]
    PROVE  CurrentRight'
  BY DEF CurrentRight, Sentences

\* Entering translate() preserves the invariant.
LEMMA TranslateStep ==
    ASSUME IInv, NEW c \in Clients, NEW r \in Requests, NEW m \in Models,
           NEW text \in Texts, Translate(c, r, m, text)
    PROVE  IInv'
<1>. USE DEF Translate, poolVars, workerVars
<1>1. TypeOK BY DEF IInv
<1>2. stage[r] = "new" /\ \A q \in Requests : q # r => stage'[q] = stage[q] /\ req'[q] = req[q]
  BY <1>1 DEF TypeOK
<1>3. stage'[r] = "numbering" BY <1>1 DEF TypeOK
<1>4. TypeOK'
  <2>1. [id |-> requestId, model |-> m, segments |-> text, second |-> None,
         parent |-> None, thread |-> c] \in RequestRecord
    BY <1>1, TextsAssumption DEF TypeOK, RequestRecord, Threads
  <2>2. req' \in [Requests -> RequestRecord] BY <1>1, <2>1 DEF TypeOK
  <2>3. stage' \in [Requests -> Stages] BY <1>1 DEF TypeOK, Stages
  <2> QED BY <1>1, <2>2, <2>3 DEF TypeOK
<1>5. req'[r].model = m /\ req'[r].second = None BY <1>1 DEF TypeOK
<1>6. \A q \in Requests : Made(q)' <=> Made(q) BY <1>2, <1>3 DEF Made
<1>7. \A q \in Requests : Made(q) => q # r BY <1>2 DEF Made
<1>8. \A q \in Requests : histories[q] # <<>> => q # r
  BY <1>7 DEF IInv, HistoriesRight
<1>9. RequestLinks'
  <2> SUFFICES ASSUME NEW p \in Requests PROVE
        /\ stage'[p] = "new" => req'[p] = Unused
        /\ stage'[p] # "new" => req'[p].model \in Models
        /\ stage'[p] = "reserved" => req'[p].second = None
        /\ req'[p].second # None =>
             /\ req'[req'[p].second].parent = p /\ req'[p].second # p
             /\ stage'[req'[p].second] # "new"
             /\ (stage'[req'[p].second] = "reserved") <=> (answers[p] = <<>>)
     BY DEF RequestLinks
  <2>1. CASE p = r BY <2>1, <1>3, <1>5
  <2>2. CASE p # r
    <3>1. req[p].second \in Requests \cup {None} BY <1>1 DEF TypeOK, RequestRecord
    <3>2. req[p].second # None => req[p].second # r BY <1>2 DEF IInv, RequestLinks
    <3> QED BY <2>2, <3>1, <3>2, <1>2 DEF IInv, RequestLinks
  <2> QED BY <2>1, <2>2
<1>10. HistoriesRight'
  BY <1>1, <1>2, <1>6, <1>7, <1>8 DEF IInv, HistoriesRight, Translation
<1>11. CacheRight' BY DEF IInv, CacheRight
<1>12. CursorAhead' BY <1>2, <1>3 DEF IInv, CursorAhead
<1>13. SentencesPlaced'
  <2>1. \A s \in Sentences : Awaits(s) => Awaits(s)'
    BY <1>2 DEF Awaits, Sentence, Sentences
  <2>2. \A q \in Requests : \A i : q # r => Sentence(q, i)' = Sentence(q, i)
    BY <1>2 DEF Sentence
  <2> QED BY <1>1, <1>2, <1>3, <2>1, <2>2 DEF IInv, SentencesPlaced, TypeOK
<1>14. CounterExact'
  <2>1. \A q \in Requests : Outstanding(q)' = Outstanding(q) BY DEF Outstanding
  <2> QED BY <1>6, <2>1 DEF IInv, CounterExact
<1>15. CurrentRight'
  BY <1>1, <1>2, <1>3, SMTT(60) DEF IInv, CurrentRight, TypeOK, Sentences
<1>18. BatchUsed' BY DEF IInv, BatchUsed
<1>16. AnsweredOnce' BY <1>2, <1>3 DEF IInv, AnsweredOnce
<1>17. ResponseComplete'
  <2>1. answers[r] = <<>> BY <1>2 DEF IInv, AnsweredOnce
  <2>2. SUFFICES ASSUME NEW q \in Requests, NEW k \in DOMAIN answers[q]
                 PROVE  answers[q][k] = [i \in DOMAIN req'[q].segments |-> Translation(q, i)']
    BY DEF ResponseComplete
  <2>3. q # r BY <2>1, <2>2
  <2>4. req'[q] = req[q] BY <1>2, <2>3
  <2> QED BY <2>2, <2>4 DEF IInv, ResponseComplete, Translation
<1> QED BY <1>4, <1>9, <1>10, <1>11, <1>12, <1>13, <1>14, <1>15, <1>16, <1>17, <1>18 DEF IInv

\* Entering pivot() preserves the invariant.
LEMMA PivotStep ==
    ASSUME IInv, NEW c \in Clients, NEW r \in Requests, NEW q \in Requests,
           NEW first \in Models, NEW second \in Models, NEW text \in Texts,
           Pivot(c, r, q, first, second, text)
    PROVE  IInv'
<1>1. /\ TypeOK
      /\ UNCHANGED <<cursor, histories, counter, answers, requestId, cache, pool,
                     maxActive, aggregateQueue, enqueued, shutdown, pc, batch,
                     current, service>>
  BY DEF IInv, Pivot, poolVars, workerVars
<1>2. /\ stage[r] = "new" /\ stage[q] = "new" /\ r # q
      /\ \A p \in Requests \ {r, q} : stage'[p] = stage[p] /\ req'[p] = req[p]
  BY <1>1 DEF TypeOK, Pivot
<1>3. stage'[r] = "numbering" /\ stage'[q] = "reserved" BY <1>1, <1>2 DEF TypeOK, Pivot
<1>4. TypeOK'
  <2>1. [id |-> requestId, model |-> first, segments |-> text, second |-> q,
         parent |-> None, thread |-> c] \in RequestRecord
    BY <1>1, TextsAssumption DEF TypeOK, RequestRecord, Threads
  <2>2. [Unused EXCEPT !.model = second, !.parent = r] \in RequestRecord
    <3>1. <<>> \in Seq(Segments) OBVIOUS
    <3> QED BY <3>1 DEF RequestRecord, Unused
  <2>3. req' \in [Requests -> RequestRecord] BY <1>1, <2>1, <2>2 DEF TypeOK, Pivot
  <2>4. stage' \in [Requests -> Stages] BY <1>1 DEF TypeOK, Stages, Pivot
  <2> QED BY <1>1, <2>3, <2>4 DEF TypeOK
<1>5. /\ req'[r].model = first /\ req'[r].second = q
      /\ req'[q].model = second /\ req'[q].second = None /\ req'[q].parent = r
  BY <1>1, <1>2 DEF TypeOK, Unused, Pivot
<1>6. \A p \in Requests : Made(p)' <=> Made(p) BY <1>2, <1>3 DEF Made
<1>7. \A p \in Requests : Made(p) => p \notin {r, q} BY <1>2 DEF Made
<1>8. \A p \in Requests : histories[p] # <<>> => p \notin {r, q}
  BY <1>7 DEF IInv, HistoriesRight
<1>9. \A p \in Requests : answers[p] # <<>> => p \notin {r, q}
  BY <1>2 DEF IInv, AnsweredOnce
<1>10. RequestLinks'
  <2> SUFFICES ASSUME NEW p \in Requests PROVE
        /\ stage'[p] = "new" => req'[p] = Unused
        /\ stage'[p] # "new" => req'[p].model \in Models
        /\ stage'[p] = "reserved" => req'[p].second = None
        /\ req'[p].second # None =>
             /\ req'[req'[p].second].parent = p /\ req'[p].second # p
             /\ stage'[req'[p].second] # "new"
             /\ (stage'[req'[p].second] = "reserved") <=> (answers[p] = <<>>)
     BY <1>1 DEF RequestLinks
  <2>1. CASE p = r BY <2>1, <1>2, <1>3, <1>5, <1>9
  <2>2. CASE p = q BY <2>2, <1>3, <1>5
  <2>3. CASE p \notin {r, q}
    <3>1. req[p].second \in Requests \cup {None} BY <1>1 DEF TypeOK, RequestRecord
    <3>2. req[p].second # None => req[p].second \notin {r, q} BY <1>2 DEF IInv, RequestLinks
    <3> QED BY <2>3, <3>1, <3>2, <1>2 DEF IInv, RequestLinks
  <2> QED BY <2>1, <2>2, <2>3
<1>11. HistoriesRight'
  BY <1>1, <1>2, <1>6, <1>7, <1>8 DEF IInv, HistoriesRight, Translation
<1>12. CacheRight' BY <1>1 DEF IInv, CacheRight
<1>13. CursorAhead' BY <1>1, <1>2, <1>3 DEF IInv, CursorAhead
<1>14. SentencesPlaced' BY <1>1, <1>2, <1>3, PlacedStable DEF IInv
<1>15. CounterExact'
  <2>1. \A p \in Requests : Outstanding(p)' = Outstanding(p) BY <1>1 DEF Outstanding
  <2> QED BY <1>1, <1>6, <2>1 DEF IInv, CounterExact
<1>16. CurrentRight' BY <1>1, <1>2, CurrentStable DEF IInv
<1>19. BatchUsed' BY <1>1 DEF IInv, BatchUsed
<1>17. AnsweredOnce' BY <1>1, <1>2, <1>3 DEF IInv, AnsweredOnce
<1>18. ResponseComplete'
  <2>1. answers[r] = <<>> /\ answers[q] = <<>> BY <1>9
  <2>2. \A p \in Requests : answers[p] # <<>> => req'[p] = req[p] BY <1>2, <1>9
  <2> SUFFICES ASSUME NEW p \in Requests, NEW k \in DOMAIN answers[p]
               PROVE  answers[p][k] = [i \in DOMAIN req'[p].segments |-> Translation(p, i)']
    BY <1>1 DEF ResponseComplete
  <2>3. req'[p] = req[p] BY <2>2, EmptySeq
  <2>4. answers[p][k] = [i \in DOMAIN req[p].segments |-> Translation(p, i)]
    BY DEF IInv, ResponseComplete
  <2> QED BY <2>3, <2>4 DEF Translation
<1> QED BY <1>4, <1>10, <1>11, <1>12, <1>13, <1>14, <1>15, <1>16, <1>17, <1>18, <1>19 DEF IInv

\* Numbering a request and setting up its members preserves the invariant.
LEMMA NumberStep ==
    ASSUME IInv, NEW r \in Requests, Number(r)
    PROVE  IInv'
<1>1. /\ TypeOK
      /\ UNCHANGED <<req, answers, cache, pool, maxActive, aggregateQueue,
                     enqueued, shutdown, pc, batch, current, service>>
  BY DEF IInv, Number, poolVars, workerVars
<1>2. /\ stage[r] = "numbering" /\ stage'[r] = "building"
      /\ \A p \in Requests \ {r} : /\ stage'[p] = stage[p]
                                   /\ histories'[p] = histories[p]
                                   /\ counter'[p] = counter[p]
                                   /\ cursor'[p] = cursor[p]
  BY <1>1 DEF TypeOK, Number
<1>3. /\ req[r].segments \in Seq(Segments)
      /\ Len(req[r].segments) \in Nat
      /\ DOMAIN req[r].segments = 1..Len(req[r].segments)
  BY <1>1 DEF TypeOK, RequestRecord
<1>4. /\ histories'[r] = [i \in DOMAIN req[r].segments |-> None]
      /\ histories'[r] \in Seq(Histories \cup {None})
      /\ DOMAIN histories'[r] = 1..Len(req[r].segments)
  BY <1>1, <1>3, ConstSeq DEF TypeOK, Number
<1>5. TypeOK'
  <2>1. requestId' \in Nat
    <3>1. req[r].id \in Nat BY <1>1 DEF TypeOK, RequestRecord
    <3> QED BY <3>1 DEF Number
  <2>2. histories' \in [Requests -> Seq(Histories \cup {None})]
    BY <1>1, <1>4 DEF TypeOK, Number
  <2>3. cursor' \in [Requests -> Nat] BY <1>1, <1>3 DEF TypeOK, Number
  <2>4. stage' \in [Requests -> Stages] BY <1>1 DEF TypeOK, Stages, Number
  <2>5. counter' \in [Requests -> Int] BY <1>1, <1>3 DEF TypeOK, Number
  <2> QED BY <1>1, <2>1, <2>2, <2>3, <2>4, <2>5 DEF TypeOK
<1>6. answers[r] = <<>> BY <1>2 DEF IInv, AnsweredOnce
<1>7. RequestLinks'
  <2>1. \A p \in Requests : /\ (stage'[p] = "new") <=> (stage[p] = "new")
                            /\ (stage'[p] = "reserved") <=> (stage[p] = "reserved")
    BY <1>2
  <2>2. \A p \in Requests : req[p].second \in Requests \cup {None}
    BY <1>1 DEF TypeOK, RequestRecord
  <2> QED BY <1>1, <2>1, <2>2 DEF IInv, RequestLinks
<1>8. HistoriesRight' BY <1>1, <1>2, <1>3, <1>4 DEF IInv, HistoriesRight, Translation, Made
<1>9. CacheRight' BY <1>1 DEF IInv, CacheRight
<1>10. CursorAhead'
  <2>1. caching \/ cursor'[r] > Len(req[r].segments) BY <1>1, <1>3 DEF TypeOK, Number
  <2> QED BY <1>1, <1>2, <1>4, <2>1 DEF IInv, CursorAhead, caching
<1>11. SentencesPlaced' BY <1>1, <1>2, PlacedStable DEF IInv
<1>12. CounterExact'
  <2>1. \A p \in Requests \ {r} : Outstanding(p)' = Outstanding(p)
    BY <1>1, <1>2 DEF Outstanding
  <2>2. Outstanding(r)' = 1..Len(req[r].segments)
    BY <1>4 DEF Outstanding
  <2>3. Cardinality(1..Len(req[r].segments)) = Len(req[r].segments)
    BY <1>3, IntervalCardinality
  <2>4. counter'[r] = Len(req[r].segments) BY <1>1 DEF TypeOK, Number
  <2> QED BY <1>2, <2>1, <2>2, <2>3, <2>4 DEF IInv, CounterExact, Made
<1>13. CurrentRight' BY <1>1, <1>2, CurrentStable DEF IInv
<1>16. BatchUsed' BY <1>1 DEF IInv, BatchUsed
<1>14. AnsweredOnce' BY <1>1, <1>2, <1>6 DEF IInv, AnsweredOnce
<1>15. ResponseComplete' BY <1>1 DEF IInv, ResponseComplete, Translation
<1> QED BY <1>5, <1>7, <1>8, <1>9, <1>10, <1>11, <1>12, <1>13, <1>14, <1>15, <1>16 DEF IInv

\* A request has finitely many outstanding segments.
LEMMA OutstandingFinite ==
    ASSUME TypeOK, NEW r \in Requests
    PROVE  /\ IsFiniteSet(Outstanding(r))
           /\ Cardinality(Outstanding(r)) \in Nat
           /\ Outstanding(r) = {} <=> Cardinality(Outstanding(r)) = 0
<1>1. histories[r] \in Seq(Histories \cup {None}) BY DEF TypeOK
<1>2. Len(histories[r]) \in Nat /\ DOMAIN histories[r] = 1..Len(histories[r])
  BY <1>1, LenProperties
<1>3. Outstanding(r) \in SUBSET (1..Len(histories[r])) BY <1>2 DEF Outstanding
<1>4. IsFiniteSet(Outstanding(r)) BY <1>2, <1>3, IntervalCardinality, FS_Subset
<1> QED BY <1>4, FS_CardinalityType, FS_EmptySet

\* When counter_ is 0 the histories are the translations of all the segments: the
\* fact that makes it right to respond then.
LEMMA AllFilled ==
    ASSUME IInv, NEW r \in Requests, Made(r), counter[r] = 0
    PROVE  /\ histories[r] = [i \in DOMAIN req[r].segments |-> Translation(r, i)]
           /\ \A i \in DOMAIN histories[r] : histories[r][i] \in Histories
<1>1. TypeOK BY DEF IInv
<1>2. Outstanding(r) = {} BY <1>1, OutstandingFinite DEF IInv, CounterExact
<1>3. histories[r] \in Seq(Histories \cup {None}) BY <1>1 DEF TypeOK
<1>4. histories[r] \in [1..Len(histories[r]) -> Histories \cup {None}]
  BY <1>3, LenProperties
<1>5. \A i \in DOMAIN histories[r] : histories[r][i] # None BY <1>2 DEF Outstanding
<1>6. DOMAIN histories[r] = DOMAIN req[r].segments BY DEF IInv, HistoriesRight
<1>7. \A i \in DOMAIN histories[r] : histories[r][i] = Translation(r, i)
  BY <1>5 DEF IInv, HistoriesRight
<1>8. histories[r] = [i \in DOMAIN histories[r] |-> histories[r][i]] BY <1>4
<1> QED BY <1>4, <1>5, <1>6, <1>7, <1>8

\* The segments made of the histories of a first request are segments.
LEMMA RetokenizeSeq ==
    ASSUME NEW h \in Seq(Histories \cup {None}), \A i \in DOMAIN h : h[i] \in Histories
    PROVE  [i \in DOMAIN h |-> Retokenize[h[i]]] \in Seq(Segments)
<1>1. Len(h) \in Nat /\ DOMAIN h = 1..Len(h) BY LenProperties
<1>2. [i \in DOMAIN h |-> Retokenize[h[i]]] \in [1..Len(h) -> Segments]
  BY <1>1, TextsAssumption
<1> QED BY <1>1, <1>2, FunctionIsSeq

\* Appending to the empty sequence.
LEMMA AppendToEmpty ==
    ASSUME NEW S, NEW x \in S
    PROVE  /\ Append(<<>>, x) = <<x>>
           /\ Len(<<x>>) = 1 /\ DOMAIN <<x>> = {1} /\ <<x>>[1] = x /\ <<x>> # <<>>
           /\ <<x>> \in Seq(S)
  OBVIOUS

\* Responding, with all the state it touches, preserves the invariant.  "after" is
\* the stage of the requests without the effect of the callback of pivot().
LEMMA RespondStep ==
    ASSUME IInv, NEW r \in Requests, NEW t \in Threads \cup {None}, NEW after,
           Made(r), counter[r] = 0, answers[r] = <<>>,
           after \in [Requests -> Stages],
           \A p \in Requests \ {r} : after[p] = stage[p],
           after[r] \in {"built", "enqueued"},
           after[r] = "enqueued" <=> stage[r] = "enqueued",
           Respond(r, t, after),
           UNCHANGED <<cursor, histories, counter, requestId, cache, poolVars, batch,
                       current, service>>,
           pc' \in [Workers -> {"generate", "waiting", "complete", "store", "count",
                               "respond", "exited"}],
           \A w \in Workers :
              /\ pc[w] \in {"store", "count"} \/ Busy(w)' => pc'[w] = pc[w]
              /\ pc'[w] = "respond" => current[w].request # r
              /\ pc'[w] \in {"generate", "waiting", "exited"} => pc'[w] = pc[w]
    PROVE  IInv'
<1>1. TypeOK BY DEF IInv
<1>2. PICK q : q = req[r].second OBVIOUS
<1>3. q \in Requests \cup {None} /\ None \notin Requests
  BY <1>1, <1>2, NoneAssumption DEF TypeOK, RequestRecord
<1>4. q # None => /\ q \in Requests /\ stage[q] = "reserved" /\ q # r
                  /\ after[q] = "reserved" /\ answers[q] = <<>>
                  /\ histories[q] = <<>> /\ req[q].parent = r
  <2>1. q # None => q \in Requests /\ stage[q] = "reserved" /\ q # r /\ req[q].parent = r
    BY <1>2, <1>3 DEF IInv, RequestLinks
  <2>2. q # None => answers[q] = <<>> BY <2>1 DEF IInv, AnsweredOnce
  <2>3. q # None => histories[q] = <<>> BY <2>1 DEF IInv, HistoriesRight, Made
  <2> QED BY <2>1, <2>2, <2>3
<1>5. /\ answers'[r] = <<histories[r]>>
      /\ \A p \in Requests \ {r} : answers'[p] = answers[p]
  <2>1. answers' = [answers EXCEPT ![r] = Append(@, histories[r])] BY DEF Respond
  <2>2. answers'[r] = Append(<<>>, histories[r])
    BY <1>1, <2>1 DEF TypeOK
  <2> QED BY <1>1, <2>1, <2>2, AppendToEmpty DEF TypeOK
<1>6. /\ \A p \in Requests : p # q => req'[p] = req[p] /\ stage'[p] = after[p]
      /\ q # None => /\ stage'[q] = "numbering"
                     /\ req'[q].model = req[q].model
                     /\ req'[q].second = req[q].second
                     /\ req'[q].parent = req[q].parent
  <2>1. CASE q = None
    BY <2>1, <1>2, NoneAssumption DEF Respond
  <2>2. CASE q # None
    <3> DEFINE text == [i \in DOMAIN histories[r] |-> Retokenize[histories[r][i]]]
    <3>1. /\ stage' = [after EXCEPT ![q] = "numbering"]
          /\ req' = [req EXCEPT ![q].id = requestId, ![q].segments = text, ![q].thread = t]
      BY <2>2, <1>2 DEF Respond
    <3> HIDE DEF text
    <3>2. req[q] \in RequestRecord BY <2>2, <1>1, <1>3 DEF TypeOK
    <3>3. req'[q] = [req[q] EXCEPT !.id = requestId, !.segments = text, !.thread = t]
      BY <2>2, <1>1, <1>3, <3>1 DEF TypeOK
    <3> QED BY <2>2, <1>1, <1>3, <3>1, <3>2, <3>3 DEF TypeOK, RequestRecord
  <2> QED BY <2>1, <2>2
<1>7. /\ histories[r] = [i \in DOMAIN req[r].segments |-> Translation(r, i)]
      /\ \A i \in DOMAIN histories[r] : histories[r][i] \in Histories
  BY AllFilled
<1>8. histories[r] \in Seq(Histories \cup {None}) BY <1>1 DEF TypeOK
<1>9. TypeOK'
  <2>1. answers' \in [Requests -> Seq(Seq(Histories \cup {None}))]
    <3>1. answers' = [answers EXCEPT ![r] = Append(@, histories[r])] BY DEF Respond
    <3>2. <<histories[r]>> \in Seq(Seq(Histories \cup {None})) BY <1>8, AppendToEmpty
    <3>3. answers' = [answers EXCEPT ![r] = <<histories[r]>>]
      BY <1>1, <1>5, <3>1 DEF TypeOK
    <3> QED BY <1>1, <3>2, <3>3 DEF TypeOK
  <2>2. stage' \in [Requests -> Stages]
    BY <1>2, <1>3 DEF Respond, Stages
  <2>3. req' \in [Requests -> RequestRecord]
    <3>1. CASE q = None BY <3>1, <1>1, <1>2 DEF Respond, TypeOK
    <3>2. CASE q # None
      <4> DEFINE text == [i \in DOMAIN histories[r] |-> Retokenize[histories[r][i]]]
      <4>1. text \in Seq(Segments) BY <1>7, <1>8, RetokenizeSeq
      <4>2. req' = [req EXCEPT ![q].id = requestId, ![q].segments = text, ![q].thread = t]
        BY <3>2, <1>2 DEF Respond
      <4> HIDE DEF text
      <4>3. [req[q] EXCEPT !.id = requestId, !.segments = text, !.thread = t]
              \in RequestRecord
        <5>1. req[q] \in RequestRecord /\ requestId \in Nat
          BY <1>1, <1>3, <3>2 DEF TypeOK
        <5> QED BY <4>1, <5>1 DEF RequestRecord
      <4> QED BY <4>2, <4>3, <1>1, <1>3, <3>2 DEF TypeOK
    <3> QED BY <3>1, <3>2
  <2> QED BY <1>1, <2>1, <2>2, <2>3 DEF TypeOK, poolVars
<1>10. \A p \in Requests : /\ stage'[p] = "new" <=> stage[p] = "new"
                           /\ p # q => (stage'[p] = "reserved" <=> stage[p] = "reserved")
                           /\ Made(p)' <=> Made(p)
                           /\ stage'[p] = "enqueued" <=> stage[p] = "enqueued"
                           /\ stage'[p] = "building" => stage[p] = "building" /\ p # r
  BY <1>3, <1>4, <1>6 DEF Made
<1>11. RequestLinks'
  <2> SUFFICES ASSUME NEW p \in Requests PROVE
        /\ stage'[p] = "new" => req'[p] = Unused
        /\ stage'[p] # "new" => req'[p].model \in Models
        /\ stage'[p] = "reserved" => req'[p].second = None
        /\ req'[p].second # None =>
             /\ req'[req'[p].second].parent = p /\ req'[p].second # p
             /\ stage'[req'[p].second] # "new"
             /\ (stage'[req'[p].second] = "reserved") <=> (answers'[p] = <<>>)
     BY DEF RequestLinks
  <2>1. req'[p].second = req[p].second /\ req'[p].model = req[p].model BY <1>3, <1>6
  <2>2. req[p].second \in Requests \cup {None} BY <1>1 DEF TypeOK, RequestRecord
  <2>3. \A u \in Requests : req'[u].parent = req[u].parent BY <1>3, <1>6
  <2>4. /\ stage'[p] = "new" => req'[p] = Unused
        /\ stage'[p] # "new" => req'[p].model \in Models
        /\ stage'[p] = "reserved" => req'[p].second = None
    BY <2>1, <1>3, <1>4, <1>6, <1>10 DEF IInv, RequestLinks
  <2>5. ASSUME req[p].second # None
        PROVE  (stage'[req[p].second] = "reserved") <=> (answers'[p] = <<>>)
    <3>1. CASE p = r BY <3>1, <2>5, <1>2, <1>5, <1>6
    <3>2. CASE p # r
      <4>1. req[p].second # q
        BY <3>2, <2>5, <1>2, <1>4 DEF IInv, RequestLinks
      <4> QED BY <4>1, <3>2, <2>2, <2>5, <1>5, <1>10 DEF IInv, RequestLinks
    <3> QED BY <3>1, <3>2
  <2> QED BY <2>1, <2>2, <2>3, <2>4, <2>5, <1>10 DEF IInv, RequestLinks
<1>12. HistoriesRight'
  <2>1. \A p \in Requests : histories[p] # <<>> => req'[p] = req[p] BY <1>3, <1>4, <1>6
  <2>2. \A p \in Requests : Made(p) => req'[p] = req[p] BY <1>3, <1>4, <1>6 DEF Made
  <2> QED BY <2>1, <2>2, <1>10 DEF IInv, HistoriesRight, Translation
<1>13. CacheRight' BY DEF IInv, CacheRight
<1>14. CursorAhead'
  <2>1. \A p \in Requests : stage'[p] = "building" => stage[p] = "building" /\ req'[p] = req[p]
    BY <1>3, <1>4, <1>6, <1>10
  <2> QED BY <2>1 DEF IInv, CursorAhead, caching
<1>15. SentencesPlaced'
  <2>1. \A p \in Requests : stage[p] = "enqueued" => req'[p] = req[p] BY <1>3, <1>4, <1>6
  <2> QED BY <1>1, <1>10, <2>1, PlacedStable DEF IInv, poolVars
<1>16. CounterExact'
  <2>1. \A p \in Requests : Outstanding(p)' = Outstanding(p)
    BY DEF Outstanding, Busy
  <2> QED BY <1>10, <2>1 DEF IInv, CounterExact
<1>17. CurrentRight'
  <2> SUFFICES ASSUME NEW w \in Workers, Busy(w)' PROVE
        /\ current[w] \in Sentences
        /\ stage'[current[w].request] = "enqueued"
        /\ current[w].index \in DOMAIN histories[current[w].request]
        /\ histories[current[w].request][current[w].index] # None
        /\ pc'[w] = "respond" => /\ counter[current[w].request] = 0
                                 /\ answers'[current[w].request] = <<>>
        /\ \A v \in Workers \ {w} :
             /\ pc'[v] \in {"store", "count"} /\ pc'[w] # "respond" =>
                  \/ current[v].request # current[w].request
                  \/ current[v].index # current[w].index
             /\ pc'[v] = "respond" /\ pc'[w] = "respond" =>
                  current[v].request # current[w].request
    BY DEF CurrentRight, Busy
  <2>1. pc'[w] = pc[w] /\ current[w] \in Sentences BY DEF IInv, CurrentRight, Busy
  <2>2. current[w].request \in Requests BY <2>1 DEF Sentences
  <2>3. \A v \in Workers : pc'[v] \in {"store", "count", "respond"} => pc'[v] = pc[v]
    BY DEF Busy
  <2> QED BY <2>1, <2>2, <2>3, <1>5, <1>10 DEF IInv, CurrentRight, Busy
<1>18. AnsweredOnce'
  <2>1. Len(answers'[r]) = 1 /\ stage'[r] \in {"built", "enqueued"}
    BY <1>3, <1>4, <1>5, <1>6
  <2>2. \A p \in Requests \ {r} : answers[p] # <<>> => stage'[p] = stage[p]
    BY <1>3, <1>4, <1>6
  <2>3. \A p \in Requests \ {r} : answers'[p] = answers[p] /\ counter'[p] = counter[p]
    BY <1>5
  <2>4. counter'[r] = 0 OBVIOUS
  <2> SUFFICES ASSUME NEW p \in Requests
               PROVE  /\ Len(answers'[p]) <= 1
                      /\ answers'[p] # <<>> =>
                            stage'[p] \in {"built", "enqueued"} /\ counter'[p] = 0
    BY DEF AnsweredOnce
  <2>5. CASE p = r
    <3>1. Len(answers'[p]) = 1 BY <2>1, <2>5, Zenon
    <3>2. stage'[p] \in {"built", "enqueued"} /\ counter'[p] = 0 BY <2>1, <2>4, <2>5, Zenon
    <3>3. Len(answers'[p]) <= 1 BY <3>1
    <3> QED BY <3>2, <3>3, Zenon
  <2>6. CASE p # r
    <3>1. Len(answers[p]) <= 1 BY DEF IInv, AnsweredOnce
    <3>2. answers[p] # <<>> => stage[p] \in {"built", "enqueued"} /\ counter[p] = 0
      BY DEF IInv, AnsweredOnce
    <3> QED BY <2>2, <2>3, <2>6, <3>1, <3>2
  <2> QED BY <2>5, <2>6
<1>19. ResponseComplete'
  <2>1. \A p \in Requests : answers'[p] # <<>> => req'[p] = req[p] BY <1>3, <1>4, <1>5, <1>6
  <2>2. DOMAIN answers'[r] = {1} /\ answers'[r][1] = histories[r] BY <1>5
  <2>5. req'[r] = req[r] BY <1>3, <1>4, <1>6
  <2>6. [i \in DOMAIN req'[r].segments |-> Translation(r, i)'] = histories[r]
    BY <2>5, <1>7 DEF Translation
  <2>3. \A k \in DOMAIN answers'[r] : answers'[r][k] =
          [i \in DOMAIN req'[r].segments |-> Translation(r, i)']
    BY <2>2, <2>6
  <2>4. \A p \in Requests \ {r} : \A k \in DOMAIN answers'[p] : answers'[p][k] =
          [i \in DOMAIN req'[p].segments |-> Translation(p, i)']
    <3> TAKE p \in Requests \ {r}
    <3>1. answers'[p] = answers[p] BY <1>5
    <3> TAKE k \in DOMAIN answers'[p]
    <3>2. answers[p] # <<>> BY <3>1, EmptySeq
    <3>3. req'[p] = req[p] BY <2>1, <3>1, <3>2
    <3>4. answers[p][k] = [i \in DOMAIN req[p].segments |-> Translation(p, i)]
      BY <3>1 DEF IInv, ResponseComplete
    <3> QED BY <3>1, <3>3, <3>4 DEF Translation
  <2> QED BY <2>3, <2>4 DEF ResponseComplete
<1>20. BatchUsed' BY DEF IInv, BatchUsed
<1> QED BY <1>9, <1>11, <1>12, <1>13, <1>14, <1>15, <1>16, <1>17, <1>18, <1>19, <1>20 DEF IInv

\* A response by the constructor preserves the invariant: no worker has the request.
LEMMA RespondEarlyStep ==
    ASSUME IInv, NEW r \in Requests, RespondEarly(r)
    PROVE  IInv'
<1>1. /\ TypeOK
      /\ UNCHANGED <<cursor, histories, counter, requestId, cache, poolVars, batch,
                     current, service>>
      /\ pc' = pc
  BY DEF IInv, RespondEarly, workerVars
<1>2. /\ stage[r] = "building" /\ counter[r] = 0
      /\ Respond(r, req[r].thread, [stage EXCEPT ![r] = "built"])
  BY DEF RespondEarly
<1> DEFINE t == req[r].thread
           after == [stage EXCEPT ![r] = "built"]
<1>3. t \in Threads \cup {None} BY <1>1 DEF TypeOK, RequestRecord
<1>4. answers[r] = <<>> BY <1>2 DEF IInv, AnsweredOnce
<1>5. Made(r) BY <1>2 DEF Made
<1>6. /\ after \in [Requests -> Stages]
      /\ \A p \in Requests \ {r} : after[p] = stage[p]
      /\ after[r] \in {"built", "enqueued"}
      /\ after[r] = "enqueued" <=> stage[r] = "enqueued"
  BY <1>1, <1>2 DEF TypeOK, Stages
<1>7. pc' \in [Workers -> {"generate", "waiting", "complete", "store", "count",
                           "respond", "exited"}]
  BY <1>1 DEF TypeOK
<1>8. \A w \in Workers :
        /\ pc[w] \in {"store", "count"} \/ Busy(w)' => pc'[w] = pc[w]
        /\ pc'[w] = "respond" => current[w].request # r
        /\ pc'[w] \in {"generate", "waiting", "exited"} => pc'[w] = pc[w]
  BY <1>1, <1>2 DEF IInv, CurrentRight
<1>9. Respond(r, t, after) BY <1>2
<1> HIDE DEF t, after
<1> QED BY <1>1, <1>2, <1>3, <1>4, <1>5, <1>6, <1>7, <1>8, <1>9, RespondStep

\* A response by a worker preserves the invariant: no other worker is at it.
LEMMA RespondLastStep ==
    ASSUME IInv, NEW w \in Workers, RespondLast(w)
    PROVE  IInv'
<1>1. /\ TypeOK
      /\ UNCHANGED <<cursor, histories, counter, requestId, cache, poolVars, batch,
                     current, service>>
      /\ pc' = [pc EXCEPT ![w] = "complete"]
  BY DEF IInv, RespondLast
<1> DEFINE r == current[w].request
<1>2. pc[w] = "respond" /\ Respond(r, w, stage) BY DEF RespondLast
<1>3. /\ r \in Requests /\ stage[r] = "enqueued"
      /\ counter[r] = 0 /\ answers[r] = <<>>
  BY <1>2 DEF IInv, CurrentRight, Sentences
<1>4. Made(r) BY <1>3 DEF Made
<1>5. /\ stage \in [Requests -> Stages]
      /\ pc' \in [Workers -> {"generate", "waiting", "complete", "store", "count",
                              "respond", "exited"}]
  BY <1>1 DEF TypeOK
<1>6. \A v \in Workers :
        /\ pc[v] \in {"store", "count"} \/ Busy(v)' => pc'[v] = pc[v]
        /\ pc'[v] = "respond" => current[v].request # r
        /\ pc'[v] \in {"generate", "waiting", "exited"} => pc'[v] = pc[v]
  BY <1>1, <1>2 DEF IInv, CurrentRight, TypeOK, Busy
<1>7. w \in Threads \cup {None} BY DEF Threads
<1> HIDE DEF r
<1> QED BY <1>1, <1>2, <1>3, <1>4, <1>5, <1>6, <1>7, RespondStep

\* The return of the constructor preserves the invariant.
LEMMA ReturnRequestStep ==
    ASSUME IInv, NEW r \in Requests, ReturnRequest(r)
    PROVE  IInv'
<1>1. /\ TypeOK
      /\ UNCHANGED <<req, cursor, histories, counter, answers, requestId, cache, pool,
                     maxActive, aggregateQueue, enqueued, shutdown, pc, batch,
                     current, service>>
  BY DEF IInv, ReturnRequest, poolVars, workerVars
<1>2. /\ stage[r] = "building" /\ stage'[r] = "built"
      /\ \A p \in Requests \ {r} : stage'[p] = stage[p]
  BY <1>1 DEF TypeOK, ReturnRequest
<1>3. TypeOK'
  <2>1. stage' \in [Requests -> Stages] BY <1>1 DEF TypeOK, Stages, ReturnRequest
  <2> QED BY <1>1, <2>1 DEF TypeOK
<1>4. RequestLinks'
  <2>1. \A p \in Requests : /\ (stage'[p] = "new") <=> (stage[p] = "new")
                            /\ (stage'[p] = "reserved") <=> (stage[p] = "reserved")
    BY <1>2
  <2>2. \A p \in Requests : req[p].second \in Requests \cup {None}
    BY <1>1 DEF TypeOK, RequestRecord
  <2> QED BY <1>1, <2>1, <2>2 DEF IInv, RequestLinks
<1>5. \A p \in Requests : Made(p)' <=> Made(p) BY <1>2 DEF Made
<1>6. HistoriesRight' BY <1>1, <1>5 DEF IInv, HistoriesRight, Translation
<1>7. CacheRight' BY <1>1 DEF IInv, CacheRight
<1>8. CursorAhead' BY <1>1, <1>2 DEF IInv, CursorAhead
<1>9. SentencesPlaced' BY <1>1, <1>2, PlacedStable DEF IInv
<1>10. CounterExact'
  <2>1. \A p \in Requests : Outstanding(p)' = Outstanding(p) BY <1>1 DEF Outstanding
  <2> QED BY <1>1, <1>5, <2>1 DEF IInv, CounterExact
<1>11. CurrentRight' BY <1>1, <1>2, CurrentStable DEF IInv
<1>12. BatchUsed' BY <1>1 DEF IInv, BatchUsed
<1>13. AnsweredOnce' BY <1>1, <1>2 DEF IInv, AnsweredOnce
<1>14. ResponseComplete' BY <1>1 DEF IInv, ResponseComplete, Translation
<1> QED BY <1>3, <1>4, <1>6, <1>7, <1>8, <1>9, <1>10, <1>11, <1>12, <1>13, <1>14 DEF IInv

\* A segment of a request that was made has a translation, with a key.
LEMMA TranslationType ==
    ASSUME TypeOK, RequestLinks, NEW r \in Requests, stage[r] # "new",
           NEW i \in DOMAIN req[r].segments
    PROVE  /\ Translation(r, i) \in Histories
           /\ Hash[Translation(r, i)] \in Nat \ {0}
           /\ Hash[Translation(r, i)] \in Keys
<1>1. req[r].model \in Models BY DEF RequestLinks
<1>2. req[r].segments \in Seq(Segments) BY DEF TypeOK, RequestRecord
<1>3. req[r].segments[i] \in Segments BY <1>2, ElementOfSeq, LenProperties
<1>4. Translation(r, i) \in Histories BY <1>1, <1>3 DEF Translation, Histories
<1> QED BY <1>4, HashAssumption DEF Keys

\* Filling in one place of a sequence.
LEMMA FillSeq ==
    ASSUME NEW S, NEW s \in Seq(S), NEW i \in DOMAIN s, NEW x \in S
    PROVE  /\ [s EXCEPT ![i] = x] \in Seq(S)
           /\ DOMAIN [s EXCEPT ![i] = x] = DOMAIN s
  BY ExceptSeq

\* A look-up in the cache preserves the invariant: what it fills in is right, and it
\* removes one outstanding segment when it decrements the counter.
LEMMA PrefillStep ==
    ASSUME IInv, NEW r \in Requests, Prefill(r)
    PROVE  IInv'
<1> DEFINE i == cursor[r]
           key == Hash[Translation(r, i)]
           hit == cache[Slot(key)].key = key
<1>1. /\ TypeOK
      /\ UNCHANGED <<req, stage, answers, requestId, cache, pool, maxActive,
                     aggregateQueue, enqueued, shutdown, pc, batch, current,
                     service>>
  BY DEF IInv, Prefill, poolVars, workerVars
<1>2. /\ stage[r] = "building" /\ i \in DOMAIN req[r].segments
      /\ cursor' = [cursor EXCEPT ![r] = i + 1]
      /\ hit => /\ histories' = [histories EXCEPT ![r][i] = cache[Slot(key)].value]
                /\ counter' = [counter EXCEPT ![r] = @ - 1]
      /\ ~hit => UNCHANGED <<histories, counter>>
  BY DEF Prefill
<1>3. Translation(r, i) \in Histories /\ key \in Nat \ {0}
  BY <1>1, <1>2, TranslationType DEF IInv
<1>4. i \in Nat /\ i \in DOMAIN histories[r] /\ histories[r] \in Seq(Histories \cup {None})
  BY <1>1, <1>2 DEF IInv, HistoriesRight, Made, TypeOK
<1>5. caching
  <2>1. req[r].segments \in Seq(Segments) BY <1>1 DEF TypeOK, RequestRecord
  <2>2. ~(i > Len(req[r].segments)) BY <1>2, <1>4, <2>1, LenProperties
  <2> QED BY <1>2, <2>2 DEF IInv, CursorAhead
<1>6. hit => cache[Slot(key)].value = Translation(r, i)
  <2>1. Slot(key) \in DOMAIN cache BY <1>1, <1>3, <1>5, SlotRange DEF TypeOK
  <2> QED BY <1>3, <2>1 DEF IInv, CacheRight
<1>7. histories[r][i] = None BY <1>2, <1>4 DEF IInv, CursorAhead
<1> HIDE DEF key, hit
<1>8. /\ \A p \in Requests \ {r} : /\ histories'[p] = histories[p]
                                   /\ counter'[p] = counter[p]
                                   /\ cursor'[p] = cursor[p]
      /\ cursor'[r] = i + 1
      /\ hit => /\ histories'[r] = [histories[r] EXCEPT ![i] = Translation(r, i)]
                /\ counter'[r] = counter[r] - 1
      /\ ~hit => histories'[r] = histories[r] /\ counter'[r] = counter[r]
  BY <1>1, <1>2, <1>6 DEF TypeOK
<1>9. histories'[r] \in Seq(Histories \cup {None}) /\ DOMAIN histories'[r] = DOMAIN histories[r]
  <2>1. CASE hit
    <3>1. PICK s \in Seq(Histories \cup {None}) : s = histories[r]
      BY <1>4
    <3>2. PICK x \in Histories \cup {None} : x = Translation(r, i)
      BY <1>3
    <3>3. /\ [s EXCEPT ![i] = x] \in Seq(Histories \cup {None})
          /\ DOMAIN [s EXCEPT ![i] = x] = DOMAIN s
      BY <1>4, <3>1, FillSeq
    <3>4. histories'[r] = [s EXCEPT ![i] = x]
      BY <1>8, <2>1, <3>1, <3>2
    <3> QED BY <3>1, <3>3, <3>4
  <2>2. CASE ~hit BY <2>2, <1>4, <1>8
  <2> QED BY <2>1, <2>2
<1>10. TypeOK'
  <2>1. histories' \in [Requests -> Seq(Histories \cup {None})]
    <3>1. histories' = [histories EXCEPT ![r] = histories'[r]]
      BY <1>1, <1>2 DEF TypeOK
    <3> QED BY <1>1, <1>9, <3>1 DEF TypeOK
  <2>2. counter' \in [Requests -> Int] BY <1>1, <1>2 DEF TypeOK
  <2>3. cursor' \in [Requests -> Nat] BY <1>1, <1>2, <1>4 DEF TypeOK
  <2> QED BY <1>1, <2>1, <2>2, <2>3 DEF TypeOK
<1>11. RequestLinks' BY <1>1 DEF IInv, RequestLinks
<1>12. HistoriesRight'
  <2>1. \A j \in DOMAIN histories'[r] :
          histories'[r][j] # None => histories'[r][j] = Translation(r, j)
    BY <1>4, <1>8, <1>9 DEF IInv, HistoriesRight
  <2> QED BY <1>1, <1>2, <1>8, <1>9, <2>1 DEF IInv, HistoriesRight, Translation, Made
<1>13. CacheRight' BY <1>1 DEF IInv, CacheRight
<1>14. CursorAhead'
  <2>1. DOMAIN histories[r] \subseteq Nat BY <1>4, LenProperties
  <2>2. \A j \in DOMAIN histories'[r] : j >= i + 1 => histories'[r][j] = None
    BY <1>2, <1>4, <1>8, <1>9, <2>1 DEF IInv, CursorAhead
  <2> QED BY <1>1, <1>5, <1>8, <2>2 DEF IInv, CursorAhead, caching
<1>15. SentencesPlaced' BY <1>1, <1>2, <1>8, PlacedStable DEF IInv
<1>16. CounterExact'
  <2>1. \A p \in Requests \ {r} : Outstanding(p)' = Outstanding(p)
    BY <1>1, <1>8 DEF Outstanding
  <2>2. counter'[r] = Cardinality(Outstanding(r)')
    <3>1. CASE ~hit
      <4>1. Outstanding(r)' = Outstanding(r) BY <3>1, <1>1, <1>8 DEF Outstanding
      <4> QED BY <3>1, <4>1, <1>2, <1>8 DEF IInv, CounterExact, Made
    <3>2. CASE hit
      <4>1. \A w \in Workers : pc[w] \in {"store", "count"} => current[w].request # r
        BY <1>2 DEF IInv, CurrentRight
      <4>2. i \in Outstanding(r) BY <1>4, <1>7 DEF Outstanding
      <4>3. Translation(r, i) # None BY <1>3, NoneAssumption
      <4>4. Outstanding(r)' = Outstanding(r) \ {i}
        BY <3>2, <1>1, <1>4, <1>8, <1>9, <4>1, <4>3 DEF Outstanding
      <4>5. IsFiniteSet(Outstanding(r)) BY <1>1, OutstandingFinite
      <4>6. Cardinality(Outstanding(r) \ {i}) = Cardinality(Outstanding(r)) - 1
        BY <4>2, <4>5, FS_RemoveElement
      <4> QED BY <3>2, <4>4, <4>6, <1>2, <1>8 DEF IInv, CounterExact, Made
    <3> QED BY <3>1, <3>2
  <2> QED BY <1>1, <1>8, <2>1, <2>2 DEF IInv, CounterExact, Made
<1>17. CurrentRight' BY <1>1, <1>2, <1>8, CurrentStable DEF IInv
<1>18. BatchUsed' BY <1>1 DEF IInv, BatchUsed
<1>19. AnsweredOnce' BY <1>1, <1>2, <1>8 DEF IInv, AnsweredOnce
<1>20. ResponseComplete' BY <1>1 DEF IInv, ResponseComplete, Translation
<1> QED BY <1>10, <1>11, <1>12, <1>13, <1>14, <1>15, <1>16, <1>17, <1>18, <1>19, <1>20 DEF IInv

\* The backlog counter stays within size_t.
LEMMA WrapAround ==
    ASSUME NEW a \in Int, NEW b \in Int
    PROVE  Plus(a, b) \in 0..(SizeMod - 1) /\ Minus(a, b) \in 0..(SizeMod - 1)
<1>1. \A x \in Int : x % SizeMod \in 0..(SizeMod - 1) BY SizesAssumption
<1> QED BY <1>1 DEF Plus, Minus

\* A request has finitely many sentences.
LEMMA FreshFinite ==
    ASSUME NEW r \in Requests, NEW J, IsFiniteSet(J)
    PROVE  IsFiniteSet({Sentence(r, j) : j \in J})
<1> DEFINE f == [j \in J |-> Sentence(r, j)]
<1>1. f \in Surjection(J, {Sentence(r, j) : j \in J}) BY DEF Surjection
<1> QED BY <1>1, FS_Surjection

\* The sentence of a segment.
LEMMA SentenceType ==
    ASSUME TypeOK, NEW r \in Requests, NEW i \in DOMAIN req[r].segments
    PROVE  /\ Sentence(r, i) \in Sentences
           /\ Sentence(r, i).request = r /\ Sentence(r, i).index = i
           /\ i \in Nat
<1>1. req[r].segments \in Seq(Segments) BY DEF TypeOK, RequestRecord
<1>2. i \in Nat /\ req[r].segments[i] \in Segments BY <1>1, ElementOfSeq, LenProperties
<1>3. Tokens[req[r].segments[i]] \in Nat BY <1>2, TextsAssumption
<1> QED BY <1>2, <1>3 DEF Sentence, Sentences

\* Enqueueing preserves the invariant: exactly the segments the cache did not fill
\* become pending sentences.
LEMMA EnqueueRequestStep ==
    ASSUME IInv, NEW r \in Requests, EnqueueRequest(r)
    PROVE  IInv'
<1> DEFINE J == {j \in DOMAIN req[r].segments : histories[r][j] = None}
           fresh == {Sentence(r, i) : i \in J}
<1>1. /\ TypeOK
      /\ UNCHANGED <<req, cursor, histories, counter, answers, requestId, cache,
                     shutdown, batch, current, service>>
  BY DEF IInv, EnqueueRequest
<1>2. /\ stage[r] = "built" /\ stage' = [stage EXCEPT ![r] = "enqueued"]
      /\ pool' = pool \cup fresh
      /\ aggregateQueue' = aggregateQueue \cup {req[r].model}
      /\ enqueued' = Plus(enqueued, Cardinality(fresh))
      /\ pc' = [w \in Workers |-> IF pc[w] = "waiting" THEN "generate" ELSE pc[w]]
  BY DEF EnqueueRequest, NotifyAll
<1>3. \E longest \in {s.tokens : s \in fresh} \cup {maxActive[req[r].model]} :
          maxActive' = [maxActive EXCEPT ![req[r].model] = longest]
  BY DEF EnqueueRequest
<1>4. DOMAIN req[r].segments = DOMAIN histories[r]
  BY <1>2 DEF IInv, HistoriesRight, Made
<1>5. fresh \subseteq Sentences /\ IsFiniteSet(fresh) /\ Cardinality(fresh) \in Nat
  <2>1. req[r].segments \in Seq(Segments) BY <1>1 DEF TypeOK, RequestRecord
  <2>2. J \in SUBSET (1..Len(req[r].segments)) /\ Len(req[r].segments) \in Nat
    BY <2>1, LenProperties
  <2>3. IsFiniteSet(J) BY <2>2, IntervalCardinality, FS_Subset
  <2>4. fresh \subseteq Sentences BY <1>1, SentenceType
  <2> QED BY <2>3, <2>4, FreshFinite, FS_CardinalityType
<1>6. /\ stage'[r] = "enqueued"
      /\ \A p \in Requests \ {r} : stage'[p] = stage[p]
  BY <1>1, <1>2 DEF TypeOK
<1> HIDE DEF fresh, J
<1>7. /\ \A w \in Workers : Busy(w) \/ Busy(w)' => pc'[w] = pc[w]
      /\ \A w \in Workers : pc'[w] \in {"generate", "waiting", "exited"} =>
                              pc[w] \in {"generate", "waiting", "exited"}
  BY <1>2 DEF Busy
<1>8. TypeOK'
  <2>1. stage' \in [Requests -> Stages] BY <1>1, <1>2 DEF TypeOK, Stages
  <2>2. pool' \in SUBSET Sentences /\ IsFiniteSet(pool')
    <3>1. IsFiniteSet(pool \cup fresh) BY <1>1, <1>5, FS_Union DEF TypeOK
    <3> QED BY <1>1, <1>2, <1>5, <3>1 DEF TypeOK
  <2>3. maxActive' \in [Models -> Nat]
    <3>1. \A s \in fresh : s.tokens \in Nat BY <1>5 DEF Sentences
    <3>2. req[r].model \in Models BY <1>2 DEF IInv, RequestLinks
    <3> QED BY <1>1, <1>3, <3>1, <3>2 DEF TypeOK
  <2>4. enqueued' \in 0..(SizeMod - 1)
    BY <1>1, <1>2, <1>5, WrapAround DEF TypeOK
  <2>5. aggregateQueue' \in SUBSET Models
    BY <1>1, <1>2 DEF TypeOK, IInv, RequestLinks
  <2>6. pc' \in [Workers -> {"generate", "waiting", "complete", "store", "count",
                            "respond", "exited"}]
    BY <1>1, <1>2 DEF TypeOK
  <2> QED BY <1>1, <2>1, <2>2, <2>3, <2>4, <2>5, <2>6 DEF TypeOK
<1>9. RequestLinks'
  <2>1. \A p \in Requests : /\ (stage'[p] = "new") <=> (stage[p] = "new")
                            /\ (stage'[p] = "reserved") <=> (stage[p] = "reserved")
    BY <1>2, <1>6
  <2>2. \A p \in Requests : req[p].second \in Requests \cup {None}
    BY <1>1 DEF TypeOK, RequestRecord
  <2> QED BY <1>1, <2>1, <2>2 DEF IInv, RequestLinks
<1>10. \A p \in Requests : Made(p)' <=> Made(p) BY <1>2, <1>6 DEF Made
<1>11. HistoriesRight' BY <1>1, <1>10 DEF IInv, HistoriesRight, Translation
<1>12. CacheRight' BY <1>1 DEF IInv, CacheRight
<1>13. CursorAhead' BY <1>1, <1>6 DEF IInv, CursorAhead, caching
<1>14. SentencesPlaced'
  <2>1. \A s \in Sentences : Awaits(s) => Awaits(s)'
    BY <1>1, <1>6 DEF Awaits, Sentence, Sentences
  <2>2. \A s \in fresh : Awaits(s)'
    <3> SUFFICES ASSUME NEW i \in J PROVE Awaits(Sentence(r, i))' BY <1>1 DEF fresh, Sentence
    <3>1. i \in DOMAIN req[r].segments /\ histories[r][i] = None BY DEF J
    <3> QED BY <1>1, <1>4, <1>6, <3>1, SentenceType DEF Awaits, Sentence
  <2>3. \A w \in Workers : \A s \in batch[w] : s \notin fresh
    <3>1. \A s \in fresh : s.request = r BY DEF fresh, Sentence
    <3>2. \A w \in Workers : \A s \in batch[w] : stage[s.request] = "enqueued"
      BY DEF IInv, SentencesPlaced, Awaits
    <3> QED BY <1>2, <3>1, <3>2
  <2>4. \A i \in DOMAIN histories[r] : histories[r][i] = None => Sentence(r, i) \in fresh
    BY <1>4 DEF fresh, J
  <2>5. pool \subseteq Sentences /\ \A w \in Workers : batch[w] \subseteq Sentences
    BY <1>1 DEF TypeOK
  <2>6. \A p \in Requests : \A i : Sentence(p, i)' = Sentence(p, i) BY <1>1 DEF Sentence
  <2>7. \A s \in pool' : Awaits(s)'
    BY <1>2, <2>1, <2>2, <2>5 DEF IInv, SentencesPlaced
  <2>8. \A w \in Workers : \A s \in batch'[w] :
          Awaits(s)' /\ s \notin pool' /\ \A v \in Workers \ {w} : s \notin batch'[v]
    BY <1>1, <1>2, <2>1, <2>3, <2>5 DEF IInv, SentencesPlaced
  <2>9. \A p \in Requests : \A i \in DOMAIN histories'[p] :
          stage'[p] = "enqueued" /\ histories'[p][i] = None =>
             \/ Sentence(p, i)' \in pool'
             \/ \E w \in Workers : Sentence(p, i)' \in batch'[w]
    BY <1>1, <1>2, <1>6, <2>4, <2>6 DEF IInv, SentencesPlaced
  <2> QED BY <2>7, <2>8, <2>9 DEF SentencesPlaced
<1>15. CounterExact'
  <2>1. \A p \in Requests : Outstanding(p)' = Outstanding(p)
    BY <1>1, <1>7 DEF Outstanding, Busy
  <2> QED BY <1>1, <1>10, <2>1 DEF IInv, CounterExact
<1>16. CurrentRight'
  <2>1. \A p \in Requests : stage[p] = "enqueued" => stage'[p] = "enqueued"
    BY <1>2, <1>6
  <2> QED BY <1>1, <1>7, <2>1 DEF IInv, CurrentRight, Busy, Sentences
<1>17. BatchUsed' BY <1>1, <1>7 DEF IInv, BatchUsed
<1>18. AnsweredOnce' BY <1>1, <1>2, <1>6 DEF IInv, AnsweredOnce
<1>19. ResponseComplete' BY <1>1 DEF IInv, ResponseComplete, Translation
<1> QED BY <1>8, <1>9, <1>11, <1>12, <1>13, <1>14, <1>15, <1>16, <1>17, <1>18, <1>19 DEF IInv

\* A batch moves from the pool to a worker that has none, so no sentence is lost.
LEMMA GenerateBatchStep ==
    ASSUME IInv, NEW w \in Workers, GenerateBatch(w)
    PROVE  IInv'
<1>1. /\ TypeOK
      /\ UNCHANGED <<req, stage, cursor, histories, counter, answers, requestId, cache,
                     maxActive, shutdown, current, service>>
  BY DEF IInv, GenerateBatch, requestVars
<1>2. PICK B \in SUBSET pool :
        /\ aggregateQueue' \subseteq aggregateQueue
        /\ batch' = [batch EXCEPT ![w] = B]
        /\ pool' = pool \ B
        /\ enqueued' = Minus(enqueued, Cardinality(B))
  BY DEF GenerateBatch, ModelBatch, ActiveBuckets, Draw
<1>3. /\ pc[w] = "generate" /\ pc' = [pc EXCEPT ![w] = "complete"]
      /\ batch[w] = {}
  BY DEF GenerateBatch, IInv, BatchUsed
<1>4. /\ pc'[w] = "complete" /\ batch'[w] = B
      /\ \A v \in Workers \ {w} : pc'[v] = pc[v] /\ batch'[v] = batch[v]
  BY <1>1, <1>2, <1>3 DEF TypeOK
<1>5. TypeOK'
  <2>1. IsFiniteSet(pool) /\ pool \subseteq Sentences /\ enqueued \in Int BY <1>1 DEF TypeOK
  <2>2. IsFiniteSet(pool') /\ IsFiniteSet(B) /\ Cardinality(B) \in Nat
    BY <1>2, <2>1, FS_Subset, FS_CardinalityType
  <2>3. enqueued' \in 0..(SizeMod - 1) BY <1>2, <2>1, <2>2, WrapAround
  <2>4. batch' \in [Workers -> SUBSET Sentences] BY <1>1, <1>2, <2>1 DEF TypeOK
  <2>5. pc' \in [Workers -> {"generate", "waiting", "complete", "store", "count",
                            "respond", "exited"}]
    BY <1>1, <1>3 DEF TypeOK
  <2> QED BY <1>1, <1>2, <2>2, <2>3, <2>4, <2>5 DEF TypeOK
<1>6. RequestLinks' BY <1>1 DEF IInv, RequestLinks
<1>7. HistoriesRight' BY <1>1 DEF IInv, HistoriesRight, Translation, Made
<1>8. CacheRight' BY <1>1 DEF IInv, CacheRight
<1>9. CursorAhead' BY <1>1 DEF IInv, CursorAhead, caching
<1>10. SentencesPlaced'
  <2>1. \A s : Awaits(s)' <=> Awaits(s) BY <1>1 DEF Awaits, Sentence
  <2>2. \A p \in Requests : \A i : Sentence(p, i)' = Sentence(p, i) BY <1>1 DEF Sentence
  <2>3. \A s \in pool' : Awaits(s)' BY <1>2, <2>1 DEF IInv, SentencesPlaced
  <2>4. \A v \in Workers : \A s \in batch'[v] :
          Awaits(s)' /\ s \notin pool' /\ \A u \in Workers \ {v} : s \notin batch'[u]
    BY <1>2, <1>4, <2>1 DEF IInv, SentencesPlaced
  <2>5. \A s : s \in pool \/ (\E v \in Workers : s \in batch[v]) =>
                s \in pool' \/ (\E v \in Workers : s \in batch'[v])
    BY <1>2, <1>3, <1>4
  <2> QED BY <1>1, <2>2, <2>3, <2>4, <2>5 DEF IInv, SentencesPlaced
<1>11. \A v \in Workers : Busy(v) \/ Busy(v)' => pc'[v] = pc[v]
  BY <1>3, <1>4 DEF Busy
<1>12. CounterExact'
  <2>1. \A p \in Requests : Outstanding(p)' = Outstanding(p)
    BY <1>1, <1>11 DEF Outstanding, Busy
  <2> QED BY <1>1, <2>1 DEF IInv, CounterExact, Made
<1>13. CurrentRight' BY <1>1, <1>11 DEF IInv, CurrentRight, Busy
<1>14. BatchUsed' BY <1>4 DEF IInv, BatchUsed
<1>15. AnsweredOnce' BY <1>1 DEF IInv, AnsweredOnce
<1>16. ResponseComplete' BY <1>1 DEF IInv, ResponseComplete, Translation
<1> QED BY <1>5, <1>6, <1>7, <1>8, <1>9, <1>10, <1>12, <1>13, <1>14, <1>15, <1>16 DEF IInv

\* Writing a history preserves the invariant: its segment stays outstanding until the
\* same worker has counted it.
LEMMA ProcessHistoryStep ==
    ASSUME IInv, NEW w \in Workers, ProcessHistory(w)
    PROVE  IInv'
<1>1. /\ TypeOK
      /\ UNCHANGED <<req, stage, cursor, counter, answers, requestId, cache, pool,
                     maxActive, aggregateQueue, enqueued, shutdown, service>>
  BY DEF IInv, ProcessHistory, poolVars
<1>2. PICK s \in batch[w] :
        /\ current' = [current EXCEPT ![w] = s]
        /\ batch' = [batch EXCEPT ![w] = @ \ {s}]
        /\ histories' = [histories EXCEPT ![s.request][s.index] =
                             Translation(s.request, s.index)]
  BY DEF ProcessHistory
<1>3. /\ pc[w] = "complete"
      /\ pc' = [pc EXCEPT ![w] = IF caching THEN "store" ELSE "count"]
  BY DEF ProcessHistory
<1> DEFINE r == s.request
           i == s.index
<1>4. /\ s \in Sentences /\ r \in Requests /\ i \in Nat
      /\ stage[r] = "enqueued" /\ Made(r)
      /\ i \in DOMAIN histories[r] /\ histories[r][i] = None
      /\ s = Sentence(r, i)
  BY <1>1 DEF IInv, SentencesPlaced, Awaits, TypeOK, Sentences, Made
<1>5. DOMAIN histories[r] = DOMAIN req[r].segments
  BY <1>4 DEF IInv, HistoriesRight
<1>6. Translation(r, i) \in Histories /\ Translation(r, i) # None
  BY <1>1, <1>4, <1>5, TranslationType, NoneAssumption DEF IInv
<1>7. histories[r] \in Seq(Histories \cup {None}) BY <1>1, <1>4 DEF TypeOK
<1> HIDE DEF r, i
<1>8. /\ histories' = [histories EXCEPT ![r] = [histories[r] EXCEPT ![i] = Translation(r, i)]]
      /\ histories'[r] = [histories[r] EXCEPT ![i] = Translation(r, i)]
      /\ \A p \in Requests \ {r} : histories'[p] = histories[p]
  BY <1>1, <1>2, <1>4 DEF TypeOK, r, i
<1>9. /\ histories'[r] \in Seq(Histories \cup {None})
      /\ DOMAIN histories'[r] = DOMAIN histories[r]
      /\ histories'[r][i] = Translation(r, i)
      /\ \A j \in DOMAIN histories[r] \ {i} : histories'[r][j] = histories[r][j]
  BY <1>4, <1>6, <1>7, <1>8, FillSeq
<1>10. /\ current'[w] = s /\ batch'[w] = batch[w] \ {s}
       /\ pc'[w] \in {"store", "count"}
       /\ \A v \in Workers \ {w} : /\ pc'[v] = pc[v] /\ batch'[v] = batch[v]
                                  /\ current'[v] = current[v]
  BY <1>1, <1>2, <1>3 DEF TypeOK
<1>11. TypeOK'
  <2>1. histories' \in [Requests -> Seq(Histories \cup {None})]
    BY <1>1, <1>8, <1>9 DEF TypeOK
  <2>2. current' \in [Workers -> Sentences \cup {None}] BY <1>1, <1>2, <1>4 DEF TypeOK
  <2>3. batch' \in [Workers -> SUBSET Sentences] BY <1>1, <1>2 DEF TypeOK
  <2>4. pc' \in [Workers -> {"generate", "waiting", "complete", "store", "count",
                            "respond", "exited"}]
    BY <1>1, <1>3 DEF TypeOK
  <2> QED BY <1>1, <2>1, <2>2, <2>3, <2>4 DEF TypeOK
<1>12. RequestLinks' BY <1>1 DEF IInv, RequestLinks
<1>13. \A p \in Requests : \A j \in DOMAIN histories'[p] :
         /\ DOMAIN histories'[p] = DOMAIN histories[p]
         /\ (p # r \/ j # i) => histories'[p][j] = histories[p][j]
  BY <1>8, <1>9
<1>14. HistoriesRight'
  <2>1. \A p \in Requests : Made(p)' <=> Made(p) BY <1>1 DEF Made
  <2>2. \A p, j : Translation(p, j)' = Translation(p, j) BY <1>1 DEF Translation
  <2>3. \A p \in Requests : ~Made(p) => p # r BY <1>4
  <2>4. \A p \in Requests : DOMAIN histories'[p] = DOMAIN histories[p] BY <1>8, <1>9
  <2> QED BY <1>1, <1>8, <1>9, <1>13, <2>1, <2>2, <2>3, <2>4 DEF IInv, HistoriesRight
<1>15. CacheRight' BY <1>1 DEF IInv, CacheRight
<1>16. CursorAhead' BY <1>1, <1>4, <1>8 DEF IInv, CursorAhead, caching
<1>17. \A u \in Sentences : Awaits(u) /\ u # s => Awaits(u)'
  <2> SUFFICES ASSUME NEW u \in Sentences, Awaits(u), u # s PROVE Awaits(u)' OBVIOUS
  <2>1. /\ u.request \in Requests /\ stage[u.request] = "enqueued"
        /\ u.index \in DOMAIN histories[u.request]
        /\ histories[u.request][u.index] = None
        /\ u = Sentence(u.request, u.index)
    BY DEF Awaits, Sentences
  <2>2. u.request # r \/ u.index # i BY <1>4, <2>1
  <2>3. /\ u.index \in DOMAIN histories'[u.request]
        /\ histories'[u.request][u.index] = None
    BY <1>8, <1>9, <2>1, <2>2
  <2> QED BY <1>1, <2>1, <2>3 DEF Awaits, Sentence
<1>18. SentencesPlaced'
  <2>1. \A p \in Requests : \A j : Sentence(p, j)' = Sentence(p, j) BY <1>1 DEF Sentence
  <2>2. pool \subseteq Sentences /\ \A v \in Workers : batch[v] \subseteq Sentences
    BY <1>1 DEF TypeOK
  <2>3. s \notin pool /\ \A v \in Workers \ {w} : s \notin batch[v]
    BY <1>2 DEF IInv, SentencesPlaced
  <2>4. \A u \in pool' : Awaits(u)'
    BY <1>1, <1>17, <2>2, <2>3 DEF IInv, SentencesPlaced
  <2>5. \A v \in Workers : batch'[v] \subseteq batch[v] /\ s \notin batch'[v]
    BY <1>10, <2>3
  <2>6. \A v \in Workers : \A u \in batch'[v] :
          Awaits(u)' /\ u \notin pool' /\ \A x \in Workers \ {v} : u \notin batch'[x]
    BY <1>1, <1>17, <2>2, <2>5 DEF IInv, SentencesPlaced
  <2>7. ASSUME NEW p \in Requests, NEW j \in DOMAIN histories'[p],
               stage'[p] = "enqueued", histories'[p][j] = None
        PROVE  \/ Sentence(p, j)' \in pool'
               \/ \E v \in Workers : Sentence(p, j)' \in batch'[v]
    <3>1. p # r \/ j # i BY <1>6, <1>9, <2>7
    <3>2. j \in DOMAIN histories[p] /\ histories[p][j] = None BY <1>13, <2>7, <3>1
    <3>3. Sentence(p, j) # s BY <3>1 DEF Sentence, r, i
    <3>4. Sentence(p, j) \in pool \/ \E v \in Workers : Sentence(p, j) \in batch[v]
      BY <1>1, <2>7, <3>2 DEF IInv, SentencesPlaced
    <3> QED BY <1>1, <1>10, <2>1, <3>3, <3>4
  <2> QED BY <2>4, <2>6, <2>7 DEF SentencesPlaced
<1>19. CounterExact'
  <2>1. \A p \in Requests : \A j \in DOMAIN histories[p] :
          j \in Outstanding(p)' <=> j \in Outstanding(p)
    <3> SUFFICES ASSUME NEW p \in Requests, NEW j \in DOMAIN histories[p]
                 PROVE  j \in Outstanding(p)' <=> j \in Outstanding(p)
      OBVIOUS
    <3>1. CASE p = r /\ j = i
      BY <3>1, <1>4, <1>9, <1>10 DEF Outstanding, r, i
    <3>2. CASE p # r \/ j # i
      <4>1. histories'[p][j] = histories[p][j] /\ DOMAIN histories'[p] = DOMAIN histories[p]
        BY <3>2, <1>8, <1>9
      <4>2. \A v \in Workers :
              (pc'[v] \in {"store", "count"} /\ current'[v].request = p
                 /\ current'[v].index = j)
              <=> (pc[v] \in {"store", "count"} /\ current[v].request = p
                 /\ current[v].index = j)
        BY <3>2, <1>3, <1>10 DEF r, i
      <4> QED BY <4>1, <4>2 DEF Outstanding
    <3> QED BY <3>1, <3>2
  <2>2. \A p \in Requests : DOMAIN histories'[p] = DOMAIN histories[p] BY <1>8, <1>9
  <2>3. \A p \in Requests : Outstanding(p)' = Outstanding(p)
    <3> TAKE p \in Requests
    <3>1. Outstanding(p) \subseteq DOMAIN histories[p] BY DEF Outstanding
    <3>2. Outstanding(p)' \subseteq DOMAIN histories[p] BY <2>2 DEF Outstanding
    <3> QED BY <2>1, <3>1, <3>2
  <2> QED BY <1>1, <2>3 DEF IInv, CounterExact, Made
<1>20. CurrentRight'
  <2> SUFFICES ASSUME NEW v \in Workers, pc'[v] \in {"store", "count", "respond"}
               PROVE  LET u == current'[v]
                      IN  /\ u \in Sentences
                          /\ stage[u.request] = "enqueued"
                          /\ u.index \in DOMAIN histories'[u.request]
                          /\ histories'[u.request][u.index] # None
                          /\ pc'[v] = "respond" => /\ counter[u.request] = 0
                                                   /\ answers[u.request] = <<>>
                          /\ \A x \in Workers \ {v} :
                               /\ pc'[x] \in {"store", "count"} /\ pc'[v] # "respond" =>
                                    \/ current'[x].request # u.request
                                    \/ current'[x].index # u.index
                               /\ pc'[x] = "respond" /\ pc'[v] = "respond" =>
                                    current'[x].request # u.request
    BY <1>1 DEF CurrentRight
  <2>1. \A x \in Workers \ {w} : pc[x] \in {"store", "count", "respond"} =>
          \/ current[x].request # r \/ current[x].index # i
    BY <1>4 DEF IInv, CurrentRight
  <2>2. CASE v = w
    BY <2>2, <2>1, <1>4, <1>6, <1>9, <1>10 DEF r, i
  <2>3. CASE v # w
    <3> DEFINE u == current[v]
    <3>1. current'[v] = u /\ pc'[v] = pc[v] BY <2>3, <1>10
    <3>2. /\ u \in Sentences /\ u.request \in Requests
          /\ stage[u.request] = "enqueued"
          /\ u.index \in DOMAIN histories[u.request]
          /\ histories[u.request][u.index] # None
          /\ pc[v] = "respond" => /\ counter[u.request] = 0
                                  /\ answers[u.request] = <<>>
      BY <3>1 DEF IInv, CurrentRight, Sentences
    <3>3. u.request # r \/ u.index # i BY <2>1, <2>3, <3>1
    <3> HIDE DEF u
    <3>4. /\ u.index \in DOMAIN histories'[u.request]
          /\ histories'[u.request][u.index] # None
      BY <3>2, <3>3, <1>8, <1>9
    <3>5. \A x \in Workers \ {v} :
            /\ pc'[x] \in {"store", "count"} /\ pc'[v] # "respond" =>
                 \/ current'[x].request # u.request
                 \/ current'[x].index # u.index
            /\ pc'[x] = "respond" /\ pc'[v] = "respond" =>
                 current'[x].request # u.request
      <4> TAKE x \in Workers \ {v}
      <4>1. CASE x = w BY <4>1, <3>3, <1>10 DEF r, i
      <4>2. CASE x # w
        BY <4>2, <2>3, <3>1, <1>10 DEF IInv, CurrentRight, u
      <4> QED BY <4>1, <4>2
    <3> QED BY <3>1, <3>2, <3>4, <3>5
  <2> QED BY <2>2, <2>3
<1>21. BatchUsed' BY <1>10 DEF IInv, BatchUsed
<1>22. AnsweredOnce' BY <1>1 DEF IInv, AnsweredOnce
<1>23. ResponseComplete' BY <1>1 DEF IInv, ResponseComplete, Translation
<1> QED BY <1>11, <1>12, <1>14, <1>15, <1>16, <1>18, <1>19, <1>20, <1>21, <1>22, <1>23 DEF IInv

\* Storing in the cache preserves the invariant: the record is right for its key.
LEMMA StoreStep ==
    ASSUME IInv, NEW w \in Workers, Store(w)
    PROVE  IInv'
<1> DEFINE s == current[w]
           h == histories[s.request][s.index]
           key == Hash[Translation(s.request, s.index)]
<1>1. /\ TypeOK
      /\ UNCHANGED <<req, stage, cursor, histories, counter, answers, requestId, pool,
                     maxActive, aggregateQueue, enqueued, shutdown, batch, current,
                     service>>
  BY DEF IInv, Store, requestVars, poolVars
<1>2. /\ pc[w] = "store" /\ pc' = [pc EXCEPT ![w] = "count"]
      /\ cache' = [cache EXCEPT ![Slot(key)] = [key |-> key, value |-> h]]
  BY DEF Store
<1>3. /\ s.request \in Requests /\ stage[s.request] = "enqueued"
      /\ s.index \in DOMAIN histories[s.request] /\ h # None
  BY <1>2 DEF IInv, CurrentRight, Sentences
<1>4. s.index \in DOMAIN req[s.request].segments /\ h = Translation(s.request, s.index)
  BY <1>3 DEF IInv, HistoriesRight, Made
<1>5. h \in Histories /\ key = Hash[h] /\ key \in Keys
  BY <1>1, <1>3, <1>4, TranslationType DEF IInv
<1> HIDE DEF s, h, key
<1>6. /\ pc'[w] = "count"
      /\ \A v \in Workers \ {w} : pc'[v] = pc[v]
  BY <1>1, <1>2 DEF TypeOK
<1>7. TypeOK'
  <2>1. cache' \in [0..(CacheSize - 1) -> [key : Keys, value : Histories] \cup {NoRecord}]
    BY <1>1, <1>2, <1>5 DEF TypeOK
  <2>2. pc' \in [Workers -> {"generate", "waiting", "complete", "store", "count",
                            "respond", "exited"}]
    BY <1>1, <1>2 DEF TypeOK
  <2> QED BY <1>1, <2>1, <2>2 DEF TypeOK
<1>8. RequestLinks' BY <1>1 DEF IInv, RequestLinks
<1>9. HistoriesRight' BY <1>1 DEF IInv, HistoriesRight, Translation, Made
<1>10. CacheRight'
  <2> SUFFICES ASSUME NEW slot \in DOMAIN cache, NEW g \in Histories,
                      cache'[slot].key = Hash[g]
               PROVE  cache'[slot].value = g
    BY <1>2 DEF CacheRight
  <2>1. CASE slot = Slot(key)
    <3>1. cache'[slot] = [key |-> key, value |-> h] BY <2>1, <1>2
    <3>2. g = h BY <3>1, <1>5, HashAssumption
    <3> QED BY <3>1, <3>2
  <2>2. CASE slot # Slot(key)
    <3>1. cache'[slot] = cache[slot] BY <2>2, <1>2
    <3> QED BY <3>1 DEF IInv, CacheRight
  <2> QED BY <2>1, <2>2
<1>11. CursorAhead' BY <1>1 DEF IInv, CursorAhead, caching
<1>12. SentencesPlaced' BY <1>1, PlacedStable DEF IInv
<1>13. CounterExact'
  <2>1. \A v \in Workers : pc'[v] \in {"store", "count"} <=> pc[v] \in {"store", "count"}
    BY <1>2, <1>6
  <2>2. \A p \in Requests : Outstanding(p)' = Outstanding(p)
    BY <1>1, <2>1 DEF Outstanding
  <2> QED BY <1>1, <2>2 DEF IInv, CounterExact, Made
<1>14. CurrentRight'
  <2>1. \A v \in Workers :
          /\ pc'[v] \in {"store", "count"} <=> pc[v] \in {"store", "count"}
          /\ pc'[v] = "respond" <=> pc[v] = "respond"
    BY <1>2, <1>6
  <2> QED BY <1>1, <2>1 DEF IInv, CurrentRight
<1>15. BatchUsed' BY <1>1, <1>6 DEF IInv, BatchUsed
<1>16. AnsweredOnce' BY <1>1 DEF IInv, AnsweredOnce
<1>17. ResponseComplete' BY <1>1 DEF IInv, ResponseComplete, Translation
<1> QED BY <1>7, <1>8, <1>9, <1>10, <1>11, <1>12, <1>13, <1>14, <1>15, <1>16, <1>17 DEF IInv

\* Counting down preserves the invariant: one segment less is outstanding, and the
\* worker that reaches 0 is the only one about to respond.
LEMMA CountDownStep ==
    ASSUME IInv, NEW w \in Workers, CountDown(w)
    PROVE  IInv'
<1>0. PICK r, i : r = current[w].request /\ i = current[w].index OBVIOUS
<1>1. /\ TypeOK
      /\ UNCHANGED <<req, stage, cursor, histories, answers, requestId, cache, pool,
                     maxActive, aggregateQueue, enqueued, shutdown, batch, current,
                     service>>
  BY DEF IInv, CountDown, poolVars
<1>2. /\ pc[w] = "count"
      /\ counter' = [counter EXCEPT ![r] = @ - 1]
      /\ pc' = [pc EXCEPT ![w] = IF counter[r] = 1 THEN "respond" ELSE "complete"]
  BY <1>0 DEF CountDown
<1>3. /\ r \in Requests /\ stage[r] = "enqueued"
      /\ i \in DOMAIN histories[r] /\ histories[r][i] # None
      /\ \A v \in Workers \ {w} : pc[v] \in {"store", "count"} =>
            current[v].request # r \/ current[v].index # i
  BY <1>0, <1>2 DEF IInv, CurrentRight, Sentences
<1>4. counter[r] = Cardinality(Outstanding(r)) BY <1>3 DEF IInv, CounterExact, Made
<1>5. i \in Outstanding(r) BY <1>0, <1>2, <1>3 DEF Outstanding
<1>6. counter[r] \in Nat /\ counter[r] # 0
  BY <1>1, <1>3, <1>4, <1>5, OutstandingFinite
<1>7. answers[r] = <<>> BY <1>3, <1>6 DEF IInv, AnsweredOnce
<1>8. /\ counter'[r] = counter[r] - 1
      /\ \A p \in Requests \ {r} : counter'[p] = counter[p]
      /\ pc'[w] = IF counter[r] = 1 THEN "respond" ELSE "complete"
      /\ \A v \in Workers \ {w} : pc'[v] = pc[v]
  BY <1>1, <1>2, <1>3 DEF TypeOK
<1>9. TypeOK'
  <2>1. counter' \in [Requests -> Int] BY <1>1, <1>2, <1>3 DEF TypeOK
  <2>2. pc' \in [Workers -> {"generate", "waiting", "complete", "store", "count",
                            "respond", "exited"}]
    BY <1>1, <1>2 DEF TypeOK
  <2> QED BY <1>1, <2>1, <2>2 DEF TypeOK
<1>10. RequestLinks' BY <1>1 DEF IInv, RequestLinks
<1>11. HistoriesRight' BY <1>1 DEF IInv, HistoriesRight, Translation, Made
<1>12. CacheRight' BY <1>1 DEF IInv, CacheRight
<1>13. CursorAhead' BY <1>1 DEF IInv, CursorAhead, caching
<1>14. SentencesPlaced' BY <1>1, PlacedStable DEF IInv
<1>15. CounterExact'
  <2>1. Outstanding(r)' = Outstanding(r) \ {i}
    <3>1. \A j \in DOMAIN histories[r] : j \in Outstanding(r)' <=> j \in Outstanding(r) \ {i}
      <4> TAKE j \in DOMAIN histories[r]
      <4>1. CASE j = i
        BY <4>1, <1>1, <1>3, <1>8 DEF Outstanding
      <4>2. CASE j # i
        <5>1. \A v \in Workers :
                (pc'[v] \in {"store", "count"} /\ current[v].request = r
                   /\ current[v].index = j)
                <=> (pc[v] \in {"store", "count"} /\ current[v].request = r
                   /\ current[v].index = j)
          BY <4>2, <1>0, <1>8
        <5> QED BY <4>2, <5>1, <1>1 DEF Outstanding
      <4> QED BY <4>1, <4>2
    <3>2. Outstanding(r) \subseteq DOMAIN histories[r] BY DEF Outstanding
    <3>3. Outstanding(r)' \subseteq DOMAIN histories[r] BY <1>1 DEF Outstanding
    <3> QED BY <3>1, <3>2, <3>3
  <2>2. \A p \in Requests \ {r} : Outstanding(p)' = Outstanding(p)
    <3> TAKE p \in Requests \ {r}
    <3>1. \A v \in Workers : \A j :
            (pc'[v] \in {"store", "count"} /\ current[v].request = p
               /\ current[v].index = j)
            <=> (pc[v] \in {"store", "count"} /\ current[v].request = p
               /\ current[v].index = j)
      BY <1>0, <1>8
    <3> QED BY <3>1, <1>1 DEF Outstanding
  <2>3. Cardinality(Outstanding(r) \ {i}) = Cardinality(Outstanding(r)) - 1
    BY <1>1, <1>3, <1>5, OutstandingFinite, FS_RemoveElement
  <2> QED BY <1>1, <1>4, <1>8, <2>1, <2>2, <2>3 DEF IInv, CounterExact, Made
<1>16. CurrentRight'
  <2>1. \A v \in Workers \ {w} : pc[v] = "respond" => current[v].request # r
    BY <1>6 DEF IInv, CurrentRight, Sentences
  <2>2. \A v \in Workers : pc'[v] \in {"store", "count"} => v # w /\ pc[v] \in {"store", "count"}
    BY <1>8
  <2>3. ASSUME NEW v \in Workers \ {w}, pc[v] \in {"store", "count", "respond"}
        PROVE  /\ current[v] \in Sentences
               /\ stage[current[v].request] = "enqueued"
               /\ current[v].index \in DOMAIN histories[current[v].request]
               /\ histories[current[v].request][current[v].index] # None
               /\ pc[v] = "respond" => /\ counter'[current[v].request] = 0
                                       /\ answers[current[v].request] = <<>>
    BY <1>8, <2>1, <2>3 DEF IInv, CurrentRight, Sentences
  <2>4. ASSUME pc'[w] = "respond"
        PROVE  /\ current[w] \in Sentences
               /\ stage[r] = "enqueued"
               /\ i \in DOMAIN histories[r] /\ histories[r][i] # None
               /\ counter'[r] = 0 /\ answers[r] = <<>>
    BY <1>0, <1>2, <1>3, <1>7, <1>8, <2>4 DEF IInv, CurrentRight
  <2> SUFFICES ASSUME NEW v \in Workers, pc'[v] \in {"store", "count", "respond"}
               PROVE  LET u == current[v]
                      IN  /\ u \in Sentences
                          /\ stage[u.request] = "enqueued"
                          /\ u.index \in DOMAIN histories[u.request]
                          /\ histories[u.request][u.index] # None
                          /\ pc'[v] = "respond" => /\ counter'[u.request] = 0
                                                   /\ answers[u.request] = <<>>
                          /\ \A x \in Workers \ {v} :
                               /\ pc'[x] \in {"store", "count"} /\ pc'[v] # "respond" =>
                                    \/ current[x].request # u.request
                                    \/ current[x].index # u.index
                               /\ pc'[x] = "respond" /\ pc'[v] = "respond" =>
                                    current[x].request # u.request
    BY <1>1 DEF CurrentRight
  <2>5. CASE v = w
    BY <2>5, <2>1, <2>4, <1>0, <1>8
  <2>6. CASE v # w
    <3>1. pc'[v] = pc[v] BY <2>6, <1>8
    <3>2. \A x \in Workers \ {v} :
            /\ pc'[x] \in {"store", "count"} /\ pc'[v] # "respond" =>
                 \/ current[x].request # current[v].request
                 \/ current[x].index # current[v].index
            /\ pc'[x] = "respond" /\ pc'[v] = "respond" =>
                 current[x].request # current[v].request
      <4> TAKE x \in Workers \ {v}
      <4>1. CASE x = w BY <4>1, <2>1, <2>6, <3>1, <1>0, <1>8
      <4>2. CASE x # w
        BY <4>2, <3>1, <1>8 DEF IInv, CurrentRight
      <4> QED BY <4>1, <4>2
    <3> QED BY <2>3, <2>6, <3>1, <3>2
  <2> QED BY <2>5, <2>6
<1>17. BatchUsed' BY <1>1, <1>8 DEF IInv, BatchUsed
<1>18. AnsweredOnce' BY <1>1, <1>7, <1>8 DEF IInv, AnsweredOnce
<1>19. ResponseComplete' BY <1>1 DEF IInv, ResponseComplete, Translation
<1> QED BY <1>9, <1>10, <1>11, <1>12, <1>13, <1>14, <1>15, <1>16, <1>17, <1>18, <1>19 DEF IInv

\* The invariant holds initially.
LEMMA InitInductive == Init => IInv
<1> SUFFICES ASSUME Init PROVE IInv OBVIOUS
<1>1. TypeOK BY TypeInit
<1>2. /\ \A r \in Requests : /\ req[r] = Unused /\ stage[r] = "new"
                            /\ histories[r] = <<>> /\ answers[r] = <<>>
      /\ \A w \in Workers : pc[w] = "generate" /\ batch[w] = {}
      /\ pool = {}
      /\ \A slot \in DOMAIN cache : cache[slot] = NoRecord
  BY DEF Init
<1>3. RequestLinks BY <1>2 DEF RequestLinks, Unused
<1>4. HistoriesRight BY <1>2 DEF HistoriesRight, Made
<1>5. CacheRight BY <1>2, HashAssumption DEF CacheRight, NoRecord
<1>6. CursorAhead BY <1>2 DEF CursorAhead
<1>7. SentencesPlaced BY <1>2 DEF SentencesPlaced
<1>8. CounterExact BY <1>2 DEF CounterExact, Made
<1>9. CurrentRight BY <1>2 DEF CurrentRight
<1>10. BatchUsed BY <1>2 DEF BatchUsed
<1>11. AnsweredOnce BY <1>2 DEF AnsweredOnce
<1>12. ResponseComplete BY <1>2 DEF ResponseComplete
<1> QED BY <1>1, <1>3, <1>4, <1>5, <1>6, <1>7, <1>8, <1>9, <1>10, <1>11, <1>12 DEF IInv

\* Every step preserves the invariant.
LEMMA StepInductive == IInv /\ [Next]_vars => IInv'
<1> SUFFICES ASSUME IInv, [Next]_vars PROVE IInv' OBVIOUS
<1>1. ASSUME NEW c \in Clients, NEW r \in Requests, NEW m \in Models,
             NEW text \in Texts, Translate(c, r, m, text)
      PROVE  IInv'
  BY <1>1, TranslateStep
<1>2. ASSUME NEW c \in Clients, NEW r \in Requests, NEW q \in Requests,
             NEW p \in Pivots, NEW text \in Texts, Pivot(c, r, q, p[1], p[2], text)
      PROVE  IInv'
  <2>1. p[1] \in Models /\ p[2] \in Models BY PivotsAssumption
  <2> QED BY <1>2, <2>1, PivotStep
<1>3. ASSUME NEW r \in Requests, Make(r) PROVE IInv'
  BY <1>3, NumberStep, PrefillStep, RespondEarlyStep, ReturnRequestStep,
     EnqueueRequestStep DEF Make
<1>4. ASSUME NEW w \in Workers, Work(w) PROVE IInv'
  BY <1>4, QuietActions, GenerateBatchStep, ProcessHistoryStep, StoreStep,
     CountDownStep, RespondLastStep DEF Work
<1>5. ASSUME NEW w \in Workers, SpuriousWakeup(w) PROVE IInv' BY <1>5, QuietActions
<1>6. ASSUME NEW c \in Clients, Clear(c) PROVE IInv' BY <1>6, QuietActions
<1>7. CASE Shutdown \/ Join BY <1>7, QuietActions
<1>8. CASE Terminated \/ UNCHANGED vars BY <1>8, QuietActions DEF Terminated
<1> QED BY <1>1, <1>2, <1>3, <1>4, <1>5, <1>6, <1>7, <1>8 DEF Next

\* The inductive invariant of the service (request.cpp, the batching pools, cache.h).
THEOREM Inductive == Spec => []IInv
  BY InitInductive, StepInductive, PTL DEF Spec

\* Every variable keeps its type; enqueued_ stays within size_t also when clear()
\* makes it wrap around.
THEOREM TypeCorrect == Spec => []TypeOK
<1>1. IInv => TypeOK BY DEF IInv
<1> QED BY <1>1, Inductive, PTL

\* A response is built from all the histories of its own segments, by its own model
\* (Request::processHistory and the constructor of Request).
THEOREM EveryResponseComplete == Spec => []ResponseComplete
<1>1. IInv => ResponseComplete BY DEF IInv
<1> QED BY <1>1, Inductive, PTL

\* responseBuilder_ is called at most once for each request.
THEOREM AtMostOneResponse == Spec => []OneResponse
<1>1. IInv => OneResponse BY DEF IInv, AnsweredOnce, OneResponse
<1> QED BY <1>1, Inductive, PTL

\* counter_ is the number of segments whose completion has not been counted.
THEOREM CounterCounts == Spec => []CounterExact
<1>1. IInv => CounterExact BY DEF IInv
<1> QED BY <1>1, Inductive, PTL

\* A sentence that needs a history is in the pools or in one batch, also after clear().
THEOREM NoSentenceLost == Spec => []SentencesPlaced
<1>1. IInv => SentencesPlaced BY DEF IInv
<1> QED BY <1>1, Inductive, PTL

\* Only enqueueRequest and shutdown() make work, and both notify all the workers.
LEMMA WakeupStep == TypeOK /\ NoLostWakeup /\ [Next]_vars => NoLostWakeup'
<1> SUFFICES ASSUME TypeOK, NoLostWakeup, [Next]_vars PROVE NoLostWakeup' OBVIOUS
<1> DEFINE Same == UNCHANGED <<enqueued, shutdown, pc>>
<1>1. Same => NoLostWakeup' BY DEF NoLostWakeup
<1>2. ASSUME NEW c \in Clients, NEW r \in Requests, NEW m \in Models,
             NEW text \in Texts, Translate(c, r, m, text)
      PROVE  Same
  BY <1>2 DEF Translate, poolVars, workerVars
<1>3. ASSUME NEW c \in Clients, NEW r \in Requests, NEW q \in Requests,
             NEW p \in Pivots, NEW text \in Texts, Pivot(c, r, q, p[1], p[2], text)
      PROVE  Same
  BY <1>3 DEF Pivot, poolVars, workerVars
<1>4. ASSUME NEW r \in Requests, Make(r) PROVE NoLostWakeup'
  <2>1. CASE Number(r) \/ Prefill(r) \/ RespondEarly(r) \/ ReturnRequest(r)
    <3>1. Same
      BY <2>1 DEF Number, Prefill, RespondEarly, ReturnRequest, poolVars, workerVars
    <3> QED BY <1>1, <3>1
  <2>2. CASE EnqueueRequest(r)
    <3>1. pc' = [w \in Workers |-> IF pc[w] = "waiting" THEN "generate" ELSE pc[w]]
      BY <2>2 DEF EnqueueRequest, NotifyAll
    <3> QED BY <3>1 DEF NoLostWakeup
  <2> QED BY <1>4, <2>1, <2>2 DEF Make
<1>5. ASSUME NEW w \in Workers, Work(w) \/ SpuriousWakeup(w) PROVE NoLostWakeup'
  <2>1. CASE Wait(w) BY <2>1 DEF Wait, NoLostWakeup, poolVars
  <2>2. CASE GenerateBatch(w) \/ Exit(w)
    <3>1. /\ enqueued # 0 \/ shutdown
          /\ \E next \in {"complete", "exited"} : pc' = [pc EXCEPT ![w] = next]
      BY <2>2 DEF GenerateBatch, Exit
    <3>2. \A v \in Workers : pc[v] # "waiting"
      BY <3>1 DEF TypeOK, NoLostWakeup
    <3> QED BY <3>1, <3>2 DEF TypeOK, NoLostWakeup
  <2>3. CASE ProcessHistory(w) \/ Store(w) \/ CountDown(w) \/ RespondLast(w)
             \/ EndBatch(w) \/ SpuriousWakeup(w)
    <3>1. /\ UNCHANGED <<enqueued, shutdown>>
          /\ \E next \in {"store", "count", "respond", "complete", "generate"} :
               pc' = [pc EXCEPT ![w] = next]
      BY <2>3 DEF ProcessHistory, Store, CountDown, RespondLast, EndBatch,
                  SpuriousWakeup, poolVars
    <3> QED BY <3>1 DEF TypeOK, NoLostWakeup
  <2> QED BY <1>5, <2>1, <2>2, <2>3 DEF Work
<1>6. ASSUME NEW c \in Clients, Clear(c) PROVE NoLostWakeup'
  BY <1>6 DEF Clear, NoLostWakeup, workerVars
<1>7. CASE Shutdown
  <2>1. pc' = [w \in Workers |-> IF pc[w] = "waiting" THEN "generate" ELSE pc[w]]
    BY <1>7 DEF Shutdown, NotifyAll
  <2> QED BY <2>1 DEF NoLostWakeup
<1>8. CASE Join BY <1>1, <1>8 DEF Join, poolVars, workerVars
<1>9. CASE Terminated \/ UNCHANGED vars
  BY <1>1, <1>9 DEF Terminated, vars, poolVars, workerVars
<1> HIDE DEF Same
<1> QED BY <1>1, <1>2, <1>3, <1>4, <1>5, <1>6, <1>7, <1>8, <1>9 DEF Next

\* No worker sleeps on work_ while there are sentences enqueued or the service shuts
\* down (ThreadsafeBatchingPool).
THEOREM NoWorkerSleepsOnWork == Spec => []NoLostWakeup
<1>1. Init => NoLostWakeup BY DEF Init, NoLostWakeup
<1> QED BY <1>1, WakeupStep, TypeCorrect, PTL DEF Spec

-----------------------------------------------------------------------------
(* What the theorems assume beyond the assumptions of AsyncService.        *)

\* A segment fits into a batch of its own.  The constructor of BatchingPool aborts when
\* max-length-break, at which texts are wrapped, allows longer ones.
SegmentsFit == \A s \in Segments : Tokens[s] <= MiniBatchWords

\* All the sentences there can be are fewer than the values of size_t.
BacklogFits(n) ==
    /\ n \in Nat
    /\ \A text \in Texts : Len(text) <= n
    /\ Cardinality(Requests) * n < SizeMod

\* The constructor of AsyncService aborts when there is no worker.
WorkersExist == Workers # {}

-----------------------------------------------------------------------------
(* The invariant of the service, beyond that of its requests.              *)

LengthsBounded(n) == \A r \in Requests : Len(req[r].segments) <= n

\* The second request of a pivot() is linked back, and is never itself a first one.
LinkedBack ==
    \A q \in Requests :
        /\ stage[q] = "reserved" => req[q].parent # None
        /\ req[q].parent # None => /\ req[req[q].parent].second = q
                                   /\ req[q].second = None
                                   /\ stage[req[q].parent] # "new"

\* The second request has the segments made of the translation of the first.
PivotText ==
    \A r \in Requests : req[r].second # None /\ answers[r] # <<>> =>
        req[req[r].second].segments =
            [i \in DOMAIN req[r].segments |-> Retokenize[Translation(r, i)]]

\* A request that is being made has a thread; a worker makes one inside its callback.
MakersKnown ==
    \A r \in Requests : Active(r) =>
        /\ req[r].thread \in Threads
        /\ req[r].thread \in Workers => pc[req[r].thread] = "complete"

\* A request without response has something to count down, or the worker that counted
\* it to 0 is about to respond.
ResponseDue ==
    \A r \in Requests : answers[r] = <<>> =>
        /\ stage[r] = "built" => counter[r] # 0
        /\ stage[r] = "enqueued" /\ counter[r] = 0 =>
              \E w \in Workers : pc[w] = "respond" /\ current[w].request = r

\* A worker ends only after shutdown(), and the last one leaves nothing in the pools.
WorkersEnd ==
    /\ shutdown <=> service # "up"
    /\ service # "up" => \A c \in Clients : Idle(c)
    /\ \A w \in Workers : pc[w] = "exited" => shutdown
    /\ (\A w \in Workers : pc[w] = "exited") => pool = {}
    /\ service = "destroyed" => \A w \in Workers : pc[w] = "exited"

\* What the two requests of a pivot() have to do with each other.
Pairing(n) == LengthsBounded(n) /\ LinkedBack /\ PivotText

\* Who makes a request, who responds to it, and when workers end.
Control == MakersKnown /\ ResponseDue /\ WorkersEnd

\* What waits for the workers is counted and reachable.
Backlog == BacklogExact /\ NoStrandedSentence

SInv(n) == IInv /\ Pairing(n) /\ Control /\ Backlog

-----------------------------------------------------------------------------
(* A pool with sentences always gives a batch.                             *)

\* generateBatch meets some sentence first: the shortest of the lowest request.
LEMMA FirstExists ==
    ASSUME NEW P \in SUBSET Sentences, P # {}
    PROVE  \E s \in P : \A u \in P : u = s \/ Before(s, u)
<1>1. ASSUME NEW s \in P
      PROVE  /\ s.tokens \in Nat /\ s.request \in Nat /\ s.index \in Nat
             /\ s = [request |-> s.request, index |-> s.index, tokens |-> s.tokens]
  <2>1. s \in [request : Requests, index : Nat, tokens : Nat]
    BY DEF Sentences
  <2> QED BY <2>1, RequestsAssumption
<1>2. PICK s1 \in P : \A u \in P : s1.tokens <= u.tokens
  <2> DEFINE values == {u.tokens : u \in P}
  <2>1. values \in SUBSET Nat /\ values # {}
    BY <1>1
  <2> HIDE DEF values
  <2>2. PICK n \in values : \A m \in values : n <= m
    BY <2>1, Smallest
  <2> USE DEF values
  <2> QED BY <2>2
<1> DEFINE Shortest == {u \in P : u.tokens = s1.tokens}
<1>3. PICK s2 \in Shortest : \A u \in Shortest : s2.request <= u.request
  <2> DEFINE values == {u.request : u \in Shortest}
  <2>1. values \in SUBSET Nat /\ values # {}
    BY <1>1, <1>2
  <2> HIDE DEF values
  <2>2. PICK n \in values : \A m \in values : n <= m
    BY <2>1, Smallest
  <2> USE DEF values
  <2> QED BY <2>2
<1> DEFINE Lowest == {u \in Shortest : u.request = s2.request}
<1>4. PICK s3 \in Lowest : \A u \in Lowest : s3.index <= u.index
  <2> DEFINE values == {u.index : u \in Lowest}
  <2>1. values \in SUBSET Nat /\ values # {}
    BY <1>1, <1>3
  <2> HIDE DEF values
  <2>2. PICK n \in values : \A m \in values : n <= m
    BY <2>1, Smallest
  <2> USE DEF values
  <2> QED BY <2>2
<1>5. ASSUME NEW u \in P, u # s3 PROVE Before(s3, u)
  <2>1. s3.tokens = s1.tokens /\ s3.request = s2.request /\ s3 \in P
    BY <1>3, <1>4
  <2>2. CASE u.tokens # s1.tokens
    BY <2>1, <2>2, <1>1, <1>2 DEF Before
  <2>3. CASE u.tokens = s1.tokens /\ u.request # s2.request
    BY <2>1, <2>3, <1>1, <1>3 DEF Before
  <2>4. CASE u.tokens = s1.tokens /\ u.request = s2.request
    <3>1. s3.index <= u.index
      BY <2>4, <1>4
    <3>2. s3.index # u.index
      BY <2>1, <2>4, <1>1, <1>5
    <3> QED BY <2>1, <2>4, <3>1, <3>2, <1>1 DEF Before
  <2> QED BY <2>2, <2>3, <2>4
<1>6. s3 \in P
  BY <1>4
<1> HIDE DEF Shortest, Lowest
<1> QED BY <1>5, <1>6

\* The first sentence is alone when it is drawn, and fits.
LEMMA DrawsSome ==
    ASSUME NEW P \in SUBSET Sentences, P # {}, \A s \in P : s.tokens <= MiniBatchWords
    PROVE  Draw(P, MiniBatchWords) # {}
<1>1. PICK s \in P : \A u \in P : u = s \/ Before(s, u)
  BY FirstExists
<1>2. {u \in P : u = s \/ Before(u, s)} = {s}
  <2>1. ASSUME NEW u \in P, u # s PROVE ~Before(u, s)
    <3>1. /\ s.tokens \in Nat /\ s.request \in Nat /\ s.index \in Nat
          /\ u.tokens \in Nat /\ u.request \in Nat /\ u.index \in Nat
      BY RequestsAssumption DEF Sentences
    <3> QED BY <1>1, <2>1, <3>1 DEF Before
  <2> QED BY <2>1
<1>3. Position(s, P) = 1
  BY <1>2, FS_Singleton DEF Position
<1>4. s.tokens \in Nat
  BY DEF Sentences
<1> QED BY <1>3, <1>4 DEF Draw

\* When no model has a batch there is no sentence left that could be reached.
LEMMA EmptyBatchEmptyPool ==
    ASSUME TypeOK, SentencesPlaced, NoStrandedSentence, SegmentsFit, HistoriesRight,
           NEW m, ModelBatch(m) = {}
    PROVE  \A s \in pool : ModelOf(s) # m
<1> SUFFICES ASSUME NEW s \in pool, ModelOf(s) = m PROVE FALSE
  OBVIOUS
<1>1. ActiveBuckets(m) \in SUBSET Sentences /\ s \in ActiveBuckets(m)
  BY DEF ActiveBuckets, TypeOK, NoStrandedSentence
<1>2. ASSUME NEW u \in pool PROVE u.tokens <= MiniBatchWords
  <2>1. /\ u.request \in Requests /\ stage[u.request] = "enqueued"
        /\ u.index \in DOMAIN histories[u.request] /\ u = Sentence(u.request, u.index)
    BY DEF SentencesPlaced, Awaits, TypeOK, Sentences
  <2>2. u.index \in DOMAIN req[u.request].segments
    BY <2>1 DEF HistoriesRight, Made
  <2>3. req[u.request].segments \in Seq(Segments)
    BY <2>1 DEF TypeOK, RequestRecord
  <2>4. req[u.request].segments[u.index] \in Segments
    BY <2>2, <2>3, ElementOfSeq, LenProperties
  <2>5. u.tokens = Tokens[req[u.request].segments[u.index]]
    BY <2>1 DEF Sentence
  <2> QED BY <2>4, <2>5 DEF SegmentsFit
<1>3. \A u \in ActiveBuckets(m) : u.tokens <= MiniBatchWords
  BY <1>2 DEF ActiveBuckets
<1> QED BY <1>1, <1>3, DrawsSome DEF ModelBatch

-----------------------------------------------------------------------------
(* The backlog is counted, and all of it is reachable.                     *)

\* Sentences told apart by their request and index, none above n, are no more than there
\* are requests times n.
LEMMA SentencesBounded ==
    ASSUME NEW n \in Nat, NEW P \in SUBSET Sentences, \A s \in P : s.index \in 1..n,
           \A s, t \in P : s.request = t.request /\ s.index = t.index => s = t
    PROVE  /\ IsFiniteSet(P) /\ Cardinality(P) \in Nat
           /\ Cardinality(P) <= Cardinality(Requests) * n
<1> DEFINE place == [s \in P |-> <<s.request, s.index>>]
<1>1. place \in Injection(P, Requests \X (1..n))
  <2>1. place \in [P -> Requests \X (1..n)]
    BY DEF Sentences
  <2>2. \A s, t \in P : place[s] = place[t] => s = t
    OBVIOUS
  <2> QED BY <2>1, <2>2 DEF Injection, IsInjective
<1>2. /\ IsFiniteSet(Requests \X (1..n))
      /\ Cardinality(Requests \X (1..n)) = Cardinality(Requests) * n
  <2>1. IsFiniteSet(1..n) /\ Cardinality(1..n) = n
    BY IntervalCardinality
  <2>2. /\ IsFiniteSet(Requests \X (1..n))
        /\ Cardinality(Requests \X (1..n)) = Cardinality(Requests) * Cardinality(1..n)
    BY <2>1, FS_Product, RequestsAssumption
  <2> QED BY <2>1, <2>2
<1> HIDE DEF place
<1>3. IsFiniteSet(P) /\ Cardinality(P) <= Cardinality(Requests \X (1..n))
  BY <1>1, <1>2, FS_Injection
<1> QED BY <1>2, <1>3, FS_CardinalityType

\* The sentence of a segment that awaits its history.
LEMMA PendingSentence ==
    ASSUME TypeOK, HistoriesRight, NEW s \in Sentences, Awaits(s)
    PROVE  /\ s.request \in Requests /\ stage[s.request] = "enqueued"
           /\ s.index \in DOMAIN req[s.request].segments
           /\ s = Sentence(s.request, s.index)
  BY DEF Awaits, Sentences, HistoriesRight, Made

\* Segments are counted from 1.
LEMMA SegmentIndex ==
    ASSUME TypeOK, NEW n \in Nat, LengthsBounded(n), NEW r \in Requests,
           NEW i \in DOMAIN req[r].segments
    PROVE  i \in 1..n
<1>1. req[r].segments \in Seq(Segments)
  BY DEF TypeOK, RequestRecord
<1>2. i \in 1..Len(req[r].segments) /\ Len(req[r].segments) \in Nat
  BY <1>1, LenProperties
<1> QED BY <1>2 DEF LengthsBounded

\* A step that touches neither the pools nor the model of an enqueued request.
LEMMA BacklogKept ==
    ASSUME IInv, Backlog, UNCHANGED <<pool, maxActive, aggregateQueue, enqueued>>,
           \A r \in Requests : stage[r] = "enqueued" => req'[r].model = req[r].model
    PROVE  Backlog'
<1>1. \A s \in pool : s.request \in Requests /\ stage[s.request] = "enqueued"
  BY DEF IInv, TypeOK, SentencesPlaced, Awaits, Sentences
<1> QED BY <1>1 DEF Backlog, BacklogExact, NoStrandedSentence, ModelOf

\* What is enqueued is counted, its model asked for batches, and its bucket visited.
LEMMA BacklogEnqueue ==
    ASSUME IInv, Backlog, NEW n \in Nat, LengthsBounded(n), BacklogFits(n),
           NEW r \in Requests, EnqueueRequest(r)
    PROVE  Backlog'
<1> DEFINE m == req[r].model
           J == {j \in DOMAIN req[r].segments : histories[r][j] = None}
           fresh == {Sentence(r, i) : i \in J}
<1>1. TypeOK /\ HistoriesRight /\ SentencesPlaced /\ UNCHANGED req
  BY DEF IInv, EnqueueRequest
<1>2. /\ stage[r] = "built" /\ pool' = pool \cup fresh
      /\ aggregateQueue' = aggregateQueue \cup {m}
      /\ enqueued' = Plus(enqueued, Cardinality(fresh))
  BY DEF EnqueueRequest
<1>3. PICK longest \in {s.tokens : s \in fresh} \cup {maxActive[m]} :
        /\ longest >= maxActive[m] /\ \A s \in fresh : longest >= s.tokens
        /\ maxActive' = [maxActive EXCEPT ![m] = longest]
  BY DEF EnqueueRequest
<1>4. m \in Models
  BY <1>2 DEF IInv, RequestLinks
<1>5. \A s \in fresh : s \in Sentences /\ s.request = r
                       /\ s.index \in DOMAIN req[r].segments /\ s = Sentence(r, s.index)
  BY <1>1, SentenceType
<1>6. \A s \in pool : /\ s \in Sentences /\ s.request \in Requests /\ s.request # r
                      /\ s.index \in DOMAIN req[s.request].segments
                      /\ s = Sentence(s.request, s.index)
  BY <1>1, <1>2, PendingSentence DEF TypeOK, SentencesPlaced
<1>7. /\ IsFiniteSet(pool \cup fresh) /\ Cardinality(pool \cup fresh) \in Nat
      /\ Cardinality(pool \cup fresh) <= Cardinality(Requests) * n
  <2> DEFINE P == pool \cup fresh
  <2>1. P \in SUBSET Sentences
    BY <1>5, <1>6
  <2>2. \A s \in P : /\ s.request \in Requests
                     /\ s.index \in DOMAIN req[s.request].segments
                     /\ s = Sentence(s.request, s.index)
    BY <1>5, <1>6
  <2>3. \A s \in P : s.index \in 1..n
    BY <2>2, <1>1, SegmentIndex
  <2> HIDE DEF P
  <2>4. /\ IsFiniteSet(P) /\ Cardinality(P) \in Nat
        /\ Cardinality(P) <= Cardinality(Requests) * n
    BY <2>1, <2>2, <2>3, SentencesBounded
  <2> QED BY <2>4 DEF P
<1>8. BacklogExact'
  <2> HIDE DEF fresh
  <2>1. IsFiniteSet(pool) /\ IsFiniteSet(fresh)
    BY <1>7, FS_Subset
  <2>2. pool \cap fresh = {}
    BY <1>5, <1>6
  <2>3. Cardinality(pool \cup fresh) = Cardinality(pool) + Cardinality(fresh)
    <3>1. Cardinality(pool \cup fresh)
              = Cardinality(pool) + Cardinality(fresh) - Cardinality(pool \cap fresh)
      BY <2>1, FS_Union
    <3>2. Cardinality(pool \cap fresh) = 0
      BY <2>2, FS_EmptySet
    <3> QED BY <2>1, <3>1, <3>2, FS_CardinalityType
  <2>4. Cardinality(pool \cup fresh) < SizeMod /\ SizeMod \in Nat
    BY <1>7, SizesAssumption, RequestsAssumption, FS_CardinalityType DEF BacklogFits
  <2>5. enqueued' = Cardinality(pool \cup fresh) % SizeMod
    BY <1>2, <2>3 DEF Plus, Backlog, BacklogExact
  <2> QED BY <1>2, <1>7, <2>4, <2>5 DEF BacklogExact
<1>9. NoStrandedSentence'
  <2>1. ASSUME NEW s \in fresh
        PROVE  ModelOf(s) \in aggregateQueue' /\ s.tokens <= maxActive'[ModelOf(s)]
    <3>1. ModelOf(s) = m
      BY <1>5, <2>1 DEF ModelOf
    <3>2. maxActive'[m] = longest
      BY <1>1, <1>3, <1>4 DEF TypeOK
    <3>3. longest \in Nat /\ s.tokens \in Nat
      BY <1>1, <1>3, <1>4, <1>5, <2>1 DEF TypeOK, Sentences
    <3> QED BY <1>2, <1>3, <3>1, <3>2, <3>3
  <2>2. ASSUME NEW s \in pool
        PROVE  ModelOf(s) \in aggregateQueue' /\ s.tokens <= maxActive'[ModelOf(s)]
    <3>1. ModelOf(s) \in aggregateQueue /\ s.tokens <= maxActive[ModelOf(s)]
      BY DEF Backlog, NoStrandedSentence
    <3>2. ModelOf(s) \in Models /\ s.tokens \in Nat /\ longest \in Nat
      BY <1>1, <1>3, <1>4, <1>5, <1>6, <3>1, SMTT(60) DEF TypeOK, Sentences
    <3>3. maxActive'[ModelOf(s)] >= maxActive[ModelOf(s)]
          /\ maxActive[ModelOf(s)] \in Nat /\ maxActive'[ModelOf(s)] \in Nat
      BY <1>1, <1>3, <1>4, <3>2 DEF TypeOK
    <3> QED BY <1>2, <3>1, <3>2, <3>3
  <2> QED BY <1>1, <1>2, <2>1, <2>2 DEF NoStrandedSentence, ModelOf
<1> QED BY <1>8, <1>9 DEF Backlog

\* A batch takes from the count what it takes from the pools, and a model loses its place
\* only when it has no sentence left.
LEMMA BacklogGenerate ==
    ASSUME IInv, Backlog, SegmentsFit, NEW w \in Workers, GenerateBatch(w)
    PROVE  Backlog'
<1>1. PICK m \in aggregateQueue,
           erased \in SUBSET {k \in aggregateQueue : ModelBatch(k) = {}} :
        /\ aggregateQueue' = aggregateQueue \ erased
        /\ pool' = pool \ ModelBatch(m)
        /\ enqueued' = Minus(enqueued, Cardinality(ModelBatch(m)))
  BY DEF GenerateBatch
<1>2. UNCHANGED <<req, maxActive>>
  BY DEF GenerateBatch, requestVars
<1>3. TypeOK /\ IsFiniteSet(pool) /\ ModelBatch(m) \in SUBSET pool
  BY DEF IInv, TypeOK, ModelBatch, Draw, ActiveBuckets
<1>4. BacklogExact'
  <2> DEFINE B == ModelBatch(m)
  <2> HIDE DEF B
  <2>1. B \in SUBSET pool /\ pool' = pool \ B /\ enqueued' = Minus(enqueued, Cardinality(B))
    BY <1>1, <1>3 DEF B
  <2>2. pool \cap B = B
    BY <2>1
  <2>3. Cardinality(pool \ B) = Cardinality(pool) - Cardinality(B)
    BY <1>3, <2>2, FS_Difference
  <2>4. IsFiniteSet(B) /\ Cardinality(B) \in Nat /\ Cardinality(pool) \in Nat
        /\ Cardinality(pool \ B) \in Nat
    BY <1>3, <2>1, FS_Subset, FS_CardinalityType, FS_Difference
  <2>5. enqueued \in 0 .. SizeMod - 1 /\ enqueued = Cardinality(pool)
    BY <1>3 DEF TypeOK, Backlog, BacklogExact
  <2>6. Cardinality(pool \ B) \in 0 .. SizeMod - 1 /\ SizeMod \in Nat \ {0}
    BY <2>3, <2>4, <2>5, SizesAssumption
  <2>7. enqueued' = Cardinality(pool \ B) % SizeMod
    BY <2>1, <2>3, <2>5 DEF Minus
  <2>8. Cardinality(pool \ B) % SizeMod = Cardinality(pool \ B)
    BY <2>6
  <2> QED BY <2>1, <2>7, <2>8 DEF BacklogExact
<1>5. NoStrandedSentence'
  <2>1. ASSUME NEW s \in pool PROVE ModelOf(s) \notin erased
    <3>1. ASSUME ModelOf(s) \in erased PROVE FALSE
      <4>1. ModelBatch(ModelOf(s)) = {}
        BY <3>1
      <4> QED BY <4>1, EmptyBatchEmptyPool DEF IInv, Backlog
    <3> QED BY <3>1
  <2> QED BY <1>1, <1>2, <2>1 DEF Backlog, NoStrandedSentence, ModelOf
<1> QED BY <1>4, <1>5 DEF Backlog

\* A worker that finds no batch leaves nothing behind: it ends after shutdown() only.
LEMMA ExitFindsNothing ==
    ASSUME IInv, Backlog, SegmentsFit, NEW w \in Workers, Exit(w)
    PROVE  pool = {} /\ shutdown
<1>1. \A m \in aggregateQueue : ModelBatch(m) = {}
  BY DEF Exit
<1>2. ASSUME NEW s \in pool PROVE FALSE
  <2>1. ModelBatch(ModelOf(s)) = {}
    BY <1>1 DEF Backlog, NoStrandedSentence
  <2> QED BY <2>1, EmptyBatchEmptyPool DEF IInv, Backlog
<1>3. pool = {}
  BY <1>2
<1>4. enqueued = 0
  BY <1>3, FS_EmptySet DEF Backlog, BacklogExact
<1> QED BY <1>3, <1>4 DEF Exit

-----------------------------------------------------------------------------
(* What the two requests of a pivot() have to do with each other.          *)

\* What a response does to the requests: r has its answer, and the second request of its
\* pivot(), if there is one, is being made by the thread that responds.
Answers(r, t, after) ==
    LET q == req[r].second
    IN  /\ answers'[r] = <<[i \in DOMAIN req[r].segments |-> Translation(r, i)]>>
        /\ \A p \in Requests \ {r} : answers'[p] = answers[p]
        /\ q = None => req' = req /\ stage' = after
        /\ q # None =>
             /\ q \in Requests \ {r} /\ stage[q] = "reserved" /\ answers[q] = <<>>
             /\ req[q].parent = r
             /\ stage'[q] = "numbering" /\ req'[q].thread = t
             /\ UNCHANGED <<req[q].model, req[q].second, req[q].parent>>
             /\ req'[q].segments =
                    [i \in DOMAIN req[r].segments |-> Retokenize[Translation(r, i)]]
             /\ \A p \in Requests \ {q} : req'[p] = req[p] /\ stage'[p] = after[p]

\* The response is made of all the histories, whoever responds.
LEMMA RespondAnswers ==
    ASSUME IInv, NEW r \in Requests, NEW t, NEW after, Respond(r, t, after),
           Made(r), counter[r] = 0, answers[r] = <<>>,
           after \in [Requests -> Stages], \A p \in Requests \ {r} : after[p] = stage[p]
    PROVE  Answers(r, t, after)
<1>1. TypeOK
  BY DEF IInv
<1>2. PICK q : q = req[r].second
  OBVIOUS
<1>3. histories[r] = [i \in DOMAIN req[r].segments |-> Translation(r, i)]
  BY AllFilled
<1>4. /\ answers'[r] = <<histories[r]>>
      /\ \A p \in Requests \ {r} : answers'[p] = answers[p]
  <2>1. answers' = [answers EXCEPT ![r] = Append(@, histories[r])]
    BY DEF Respond
  <2>2. answers'[r] = Append(<<>>, histories[r])
    BY <1>1, <2>1 DEF TypeOK
  <2> QED BY <1>1, <2>1, <2>2, AppendToEmpty DEF TypeOK
<1>5. q = None => req' = req /\ stage' = after
  BY <1>2 DEF Respond
<1>6. ASSUME q # None
      PROVE  /\ q \in Requests \ {r} /\ stage[q] = "reserved" /\ answers[q] = <<>>
             /\ req[q].parent = r
             /\ stage'[q] = "numbering" /\ req'[q].thread = t
             /\ UNCHANGED <<req[q].model, req[q].second, req[q].parent>>
             /\ req'[q].segments =
                    [i \in DOMAIN req[r].segments |-> Retokenize[Translation(r, i)]]
             /\ \A p \in Requests \ {q} : req'[p] = req[p] /\ stage'[p] = after[p]
  <2> DEFINE text == [i \in DOMAIN histories[r] |-> Retokenize[histories[r][i]]]
  <2>1. q \in Requests /\ stage[q] = "reserved" /\ q # r /\ req[q].parent = r
    BY <1>1, <1>2, <1>6 DEF TypeOK, RequestRecord, IInv, RequestLinks
  <2>2. answers[q] = <<>>
    BY <2>1 DEF IInv, AnsweredOnce
  <2>3. /\ stage' = [after EXCEPT ![q] = "numbering"]
        /\ req' = [req EXCEPT ![q].id = requestId, ![q].segments = text, ![q].thread = t]
    BY <1>2, <1>6 DEF Respond
  <2>4. text = [i \in DOMAIN req[r].segments |-> Retokenize[Translation(r, i)]]
    BY <1>3
  <2> HIDE DEF text
  <2>5. req[q] \in RequestRecord
    BY <1>1, <2>1 DEF TypeOK
  <2>6. /\ req'[q].thread = t /\ req'[q].segments = text
        /\ req'[q].model = req[q].model /\ req'[q].second = req[q].second
        /\ req'[q].parent = req[q].parent
    BY <1>1, <2>1, <2>3, <2>5 DEF TypeOK, RequestRecord
  <2>7. stage'[q] = "numbering"
        /\ \A p \in Requests \ {q} : req'[p] = req[p] /\ stage'[p] = after[p]
    BY <1>1, <2>1, <2>3 DEF TypeOK
  <2> QED BY <2>1, <2>2, <2>4, <2>6, <2>7
<1> QED BY <1>2, <1>3, <1>4, <1>5, <1>6 DEF Answers

\* The constructor responds for the thread that makes the request.
LEMMA RespondEarlyAnswers ==
    ASSUME IInv, NEW r \in Requests, RespondEarly(r)
    PROVE  /\ stage[r] = "building" /\ answers[r] = <<>>
           /\ Answers(r, req[r].thread, [stage EXCEPT ![r] = "built"])
<1> DEFINE after == [stage EXCEPT ![r] = "built"]
<1>1. stage[r] = "building" /\ counter[r] = 0 /\ Respond(r, req[r].thread, after)
  BY DEF RespondEarly
<1>2. after \in [Requests -> Stages] /\ \A p \in Requests \ {r} : after[p] = stage[p]
  BY <1>1 DEF IInv, TypeOK, Stages
<1>3. answers[r] = <<>> /\ Made(r)
  BY <1>1 DEF IInv, AnsweredOnce, Made
<1> HIDE DEF after
<1>4. Answers(r, req[r].thread, after)
  BY <1>1, <1>2, <1>3, RespondAnswers
<1> QED BY <1>1, <1>3, <1>4 DEF after

\* The worker that counted to 0 responds for the request it counted.
LEMMA RespondLastAnswers ==
    ASSUME IInv, NEW w \in Workers, RespondLast(w)
    PROVE  /\ current[w].request \in Requests
           /\ stage[current[w].request] = "enqueued" /\ answers[current[w].request] = <<>>
           /\ Answers(current[w].request, w, stage)
<1> DEFINE r == current[w].request
<1>1. pc[w] = "respond" /\ Respond(r, w, stage)
  BY DEF RespondLast
<1>2. /\ r \in Requests /\ stage[r] = "enqueued"
      /\ counter[r] = 0 /\ answers[r] = <<>>
  BY <1>1 DEF IInv, CurrentRight, Sentences
<1>3. stage \in [Requests -> Stages] /\ Made(r)
  BY <1>2 DEF IInv, TypeOK, Made
<1> HIDE DEF r
<1>4. Answers(r, w, stage)
  BY <1>1, <1>2, <1>3, RespondAnswers
<1> QED BY <1>2, <1>4 DEF r

\* Steps that make no request and give no response.
LEMMA PairingKept ==
    ASSUME NEW n, TypeOK, Pairing(n), UNCHANGED <<req, answers>>,
           \A r \in Requests : /\ stage'[r] = "new" <=> stage[r] = "new"
                               /\ stage'[r] = "reserved" => stage[r] = "reserved"
    PROVE  Pairing(n)'
<1>1. LengthsBounded(n)'
  BY DEF Pairing, LengthsBounded
<1>2. LinkedBack'
  <2>1. \A q \in Requests : req[q].parent # None => req[q].parent \in Requests
    BY DEF TypeOK, RequestRecord
  <2> QED BY <2>1 DEF Pairing, LinkedBack
<1>3. PivotText'
  BY DEF Pairing, PivotText, Translation
<1> QED BY <1>1, <1>2, <1>3 DEF Pairing

\* Entering translate() pairs nothing.
LEMMA PairingTranslate ==
    ASSUME IInv, NEW n, BacklogFits(n), Pairing(n), NEW c \in Clients, NEW r \in Requests,
           NEW m \in Models, NEW text \in Texts, Translate(c, r, m, text)
    PROVE  Pairing(n)'
<1>1. /\ TypeOK /\ UNCHANGED answers
      /\ stage[r] = "new" /\ stage'[r] = "numbering"
      /\ req'[r].segments = text /\ req'[r].second = None /\ req'[r].parent = None
      /\ \A p \in Requests \ {r} : req'[p] = req[p] /\ stage'[p] = stage[p]
  BY DEF IInv, TypeOK, Translate
<1>2. LengthsBounded(n)'
  BY <1>1 DEF Pairing, LengthsBounded, BacklogFits
<1>3. \A p \in Requests : /\ req[p].second # None => req[p].second \in Requests \ {r}
                          /\ req[p].parent # None => req[p].parent \in Requests \ {r}
  BY <1>1 DEF IInv, RequestLinks, Pairing, LinkedBack, TypeOK, RequestRecord
<1>4. LinkedBack'
  BY <1>1, <1>3 DEF Pairing, LinkedBack
<1>5. PivotText'
  <2> SUFFICES ASSUME NEW p \in Requests, req'[p].second # None, answers[p] # <<>>
               PROVE  req'[req'[p].second].segments =
                          [i \in DOMAIN req'[p].segments |-> Retokenize[Translation(p, i)']]
    BY <1>1 DEF PivotText
  <2>1. p # r
    BY <1>1
  <2>2. req'[p] = req[p]
    BY <1>1, <2>1
  <2>3. req'[req[p].second] = req[req[p].second]
    BY <1>1, <1>3, <2>2
  <2>4. req[req[p].second].segments =
            [i \in DOMAIN req[p].segments |-> Retokenize[Translation(p, i)]]
    BY <2>2 DEF Pairing, PivotText
  <2> QED BY <2>2, <2>3, <2>4 DEF Translation
<1> QED BY <1>2, <1>4, <1>5 DEF Pairing

\* Entering pivot() pairs the two requests, the first of which has no answer.
LEMMA PairingPivot ==
    ASSUME IInv, NEW n, BacklogFits(n), Pairing(n), NEW c \in Clients, NEW r \in Requests,
           NEW q \in Requests, NEW first \in Models, NEW second \in Models,
           NEW text \in Texts, Pivot(c, r, q, first, second, text)
    PROVE  Pairing(n)'
<1>1. /\ TypeOK /\ UNCHANGED answers
      /\ stage[r] = "new" /\ stage[q] = "new" /\ r # q
      /\ stage'[r] = "numbering" /\ stage'[q] = "reserved"
      /\ \A p \in Requests \ {r, q} : req'[p] = req[p] /\ stage'[p] = stage[p]
  BY DEF IInv, TypeOK, Pivot
<1>2. /\ req'[r].segments = text /\ req'[r].second = q /\ req'[r].parent = None
      /\ req'[q].segments = <<>> /\ req'[q].second = None /\ req'[q].parent = r
  BY <1>1 DEF TypeOK, Pivot, Unused
<1>3. answers[r] = <<>> /\ answers[q] = <<>>
  BY <1>1 DEF IInv, AnsweredOnce
<1>4. LengthsBounded(n)'
  BY <1>1, <1>2 DEF Pairing, LengthsBounded, BacklogFits
<1>5. \A p \in Requests : /\ req[p].second # None => req[p].second \in Requests \ {r, q}
                          /\ req[p].parent # None => req[p].parent \in Requests \ {r, q}
  <2> TAKE p \in Requests
  <2>1. req[p] \in RequestRecord
    BY <1>1 DEF TypeOK
  <2>2. req[p].second # None => req[p].second \in Requests \ {r, q}
    BY <1>1, <2>1 DEF IInv, RequestLinks, RequestRecord
  <2>3. req[p].parent # None => req[p].parent \in Requests \ {r, q}
    BY <1>1, <2>1 DEF Pairing, LinkedBack, RequestRecord
  <2> QED BY <2>2, <2>3
<1>6. r # None
  BY NoneAssumption
<1>7. LinkedBack'
  BY <1>1, <1>2, <1>5, <1>6 DEF Pairing, LinkedBack
<1>8. PivotText'
  <2> SUFFICES ASSUME NEW p \in Requests, req'[p].second # None, answers[p] # <<>>
               PROVE  req'[req'[p].second].segments =
                          [i \in DOMAIN req'[p].segments |-> Retokenize[Translation(p, i)']]
    BY <1>1 DEF PivotText
  <2>1. p \notin {r, q}
    BY <1>1, <1>2, <1>3
  <2>2. req'[p] = req[p]
    BY <1>1, <2>1
  <2>3. req'[req[p].second] = req[req[p].second]
    BY <1>1, <1>5, <2>2
  <2>4. req[req[p].second].segments =
            [i \in DOMAIN req[p].segments |-> Retokenize[Translation(p, i)]]
    BY <2>2 DEF Pairing, PivotText
  <2> QED BY <2>2, <2>3, <2>4 DEF Translation
<1> QED BY <1>4, <1>7, <1>8 DEF Pairing

\* A response gives the second request the segments of its text.
LEMMA PairingAnswers ==
    ASSUME IInv, NEW n \in Nat, Pairing(n), NEW r \in Requests, stage[r] # "new",
           NEW t, NEW after, Answers(r, t, after),
           \A p \in Requests \ {r} : after[p] = stage[p], after[r] \in {"built", "enqueued"}
    PROVE  Pairing(n)'
<1>1. TypeOK
  BY DEF IInv
<1>2. PICK q : q = req[r].second
  OBVIOUS
<1>3. \A p \in Requests : /\ req'[p].second = req[p].second /\ req'[p].parent = req[p].parent
                          /\ (p # q => req'[p] = req[p])
  BY <1>2 DEF Answers
<1>4. \A p \in Requests : /\ stage[p] # "new" => stage'[p] # "new"
                          /\ stage'[p] = "reserved" => stage[p] = "reserved"
  BY <1>2 DEF Answers
<1>5. q # None => /\ q \in Requests \ {r} /\ req[q].parent = r
                  /\ req'[q].segments =
                        [i \in DOMAIN req[r].segments |-> Retokenize[Translation(r, i)]]
  BY <1>2 DEF Answers
<1>6. LengthsBounded(n)'
  <2>1. ASSUME q # None PROVE Len(req'[q].segments) = Len(req[r].segments)
    <3>1. req[r].segments \in Seq(Segments)
      BY <1>1 DEF TypeOK, RequestRecord
    <3>2. DOMAIN req'[q].segments = 1..Len(req[r].segments) /\ Len(req[r].segments) \in Nat
      BY <1>5, <2>1, <3>1
    <3>3. req'[q].segments \in [1..Len(req[r].segments) -> Segments]
      <4>1. \A i \in DOMAIN req[r].segments : Translation(r, i) \in Histories
        BY <1>1, TranslationType DEF IInv
      <4>2. \A i \in DOMAIN req[r].segments : Retokenize[Translation(r, i)] \in Segments
        BY <4>1, TextsAssumption
      <4>3. DOMAIN req[r].segments = 1..Len(req[r].segments)
        BY <3>1
      <4> QED BY <1>5, <2>1, <4>2, <4>3
    <3> QED BY <3>2, <3>3, FunctionIsSeq
  <2>2. ASSUME NEW p \in Requests PROVE Len(req'[p].segments) <= n
    <3>1. CASE p = q
      <4>1. q # None
        BY <3>1, NoneAssumption
      <4> QED BY <3>1, <4>1, <2>1 DEF Pairing, LengthsBounded
    <3>2. CASE p # q
      BY <3>2, <1>3 DEF Pairing, LengthsBounded
    <3> QED BY <3>1, <3>2
  <2> QED BY <2>2 DEF LengthsBounded
<1>7. LinkedBack'
  <2>1. \A p \in Requests : req[p].parent # None => req[p].parent \in Requests
    BY <1>1 DEF TypeOK, RequestRecord
  <2> QED BY <1>3, <1>4, <2>1 DEF Pairing, LinkedBack
<1>8. PivotText'
  <2> SUFFICES ASSUME NEW p \in Requests, req[p].second # None, answers'[p] # <<>>
               PROVE  req'[req[p].second].segments =
                          [i \in DOMAIN req'[p].segments |-> Retokenize[Translation(p, i)']]
    BY <1>3 DEF PivotText
  <2>1. req[p].second \in Requests /\ req[req[p].second].parent = p
    <3>1. req[p] \in RequestRecord
      BY <1>1 DEF TypeOK
    <3>2. req[p].second \in Requests \cup {None}
      BY <3>1 DEF RequestRecord
    <3>3. req[req[p].second].parent = p
      BY DEF IInv, RequestLinks
    <3> QED BY <3>2, <3>3
  <2>2. p # q
    <3>1. q # None => req[q].second = None
      BY <1>5, NoneAssumption DEF Pairing, LinkedBack
    <3> QED BY <3>1, NoneAssumption
  <2>3. req'[p] = req[p]
    BY <1>3, <2>2
  <2>4. CASE p = r
    BY <1>2, <1>5, <2>3, <2>4 DEF Translation
  <2>5. CASE p # r
    <3>1. req[p].second # q
      BY <1>5, <2>1, <2>5
    <3>2. answers[p] # <<>>
      BY <2>5 DEF Answers
    <3> QED BY <1>3, <2>1, <2>3, <3>1, <3>2 DEF Pairing, PivotText, Translation
  <2> QED BY <2>4, <2>5
<1> QED BY <1>6, <1>7, <1>8 DEF Pairing

-----------------------------------------------------------------------------
(* Who makes a request, who responds to it, and when workers end.          *)

\* Clients enter calls only while the service is up.
LEMMA ControlEnter ==
    ASSUME IInv, Control, NEW c \in Clients, NEW r \in Requests,
           NEW q \in Requests \cup {None}, service = "up",
           \A p \in Requests \ {r, q} : req'[p] = req[p] /\ stage'[p] = stage[p],
           stage'[r] = "numbering", req'[r].thread = c,
           q # None => q # r /\ stage'[q] = "reserved",
           UNCHANGED <<counter, answers, pool, shutdown, workerVars, service>>
    PROVE  Control'
<1>0. UNCHANGED <<counter, answers, pc, current>>
  BY DEF workerVars
<1>1. MakersKnown'
  <2> SUFFICES ASSUME NEW p \in Requests, Active(p)'
               PROVE  /\ req'[p].thread \in Threads
                      /\ req'[p].thread \in Workers => pc'[req'[p].thread] = "complete"
    BY DEF MakersKnown
  <2>1. CASE p = r
    BY <2>1, ThreadsAssumption DEF Threads
  <2>2. CASE p # r
    <3>1. p # q
      BY <2>2, NoneAssumption DEF Active
    <3>2. Active(p) /\ req'[p] = req[p]
      BY <2>2, <3>1 DEF Active
    <3> QED BY <1>0, <3>2 DEF Control, MakersKnown
  <2> QED BY <2>1, <2>2
<1>2. ResponseDue'
  <2> SUFFICES ASSUME NEW p \in Requests, answers'[p] = <<>>, stage'[p] \in {"built", "enqueued"}
               PROVE  /\ stage'[p] = "built" => counter'[p] # 0
                      /\ stage'[p] = "enqueued" /\ counter'[p] = 0 =>
                            \E w \in Workers : pc'[w] = "respond" /\ current'[w].request = p
    BY DEF ResponseDue
  <2>1. p \notin {r, q}
    BY NoneAssumption
  <2>2. stage'[p] = stage[p]
    BY <2>1
  <2> QED BY <1>0, <2>2 DEF Control, ResponseDue
<1>3. WorkersEnd'
  BY DEF Control, WorkersEnd, workerVars
<1> QED BY <1>1, <1>2, <1>3 DEF Control

\* Numbering, a look-up in the cache and the return of the constructor leave a request
\* with its thread; it is built with something to count down.
LEMMA ControlMake ==
    ASSUME IInv, Control, NEW r \in Requests, Number(r) \/ Prefill(r) \/ ReturnRequest(r)
    PROVE  Control'
<1>1. /\ TypeOK /\ Active(r) /\ stage'[r] \in {"building", "built"}
      /\ \A p \in Requests \ {r} : stage'[p] = stage[p] /\ counter'[p] = counter[p]
      /\ UNCHANGED <<req, answers, pool, shutdown, pc, current, service>>
  BY DEF IInv, TypeOK, Active, Number, Prefill, ReturnRequest, poolVars, workerVars
<1>2. stage'[r] = "built" => counter'[r] # 0
  BY DEF IInv, TypeOK, Number, Prefill, ReturnRequest
<1>3. \A p \in Requests : Active(p)' <=> Active(p)
  BY <1>1 DEF Active
<1>4. MakersKnown'
  BY <1>1, <1>3 DEF Control, MakersKnown
<1>5. ResponseDue'
  BY <1>1, <1>2 DEF Control, ResponseDue
<1>6. WorkersEnd'
  BY <1>1, <1>3 DEF Control, WorkersEnd, Idle
<1> QED BY <1>4, <1>5, <1>6 DEF Control

\* A worker that was not at its end cannot have been the last one.
LEMMA NotEnded ==
    ASSUME WorkersEnd, NEW w \in Workers, pc[w] # "exited"
    PROVE  service # "destroyed"
  BY DEF WorkersEnd

\* A response by thread t hands the second request of a pivot() to t.
LEMMA ControlAnswers ==
    ASSUME IInv, Control, NEW r \in Requests, stage[r] # "new", NEW t \in Threads, NEW after,
           Answers(r, t, after),
           \A p \in Requests \ {r} : after[p] = stage[p],
           after[r] \in {"built", "enqueued"},
           after[r] = "built" => stage[r] = "building" /\ req[r].thread = t,
           after[r] = "enqueued" => stage[r] = "enqueued",
           t \in Workers => pc'[t] = "complete",
           service # "up" => t \notin Clients,
           UNCHANGED <<counter, pool, shutdown, service, current>>,
           \A w \in Workers : \/ pc'[w] = pc[w]
                              \/ /\ w = t /\ pc[w] = "respond" /\ pc'[w] = "complete"
                                 /\ current[w].request = r
    PROVE  Control'
<1>1. TypeOK
  BY DEF IInv
<1>2. PICK q : q = req[r].second
  OBVIOUS
<1>3. q # None => q \in Requests \ {r} /\ req'[q].thread = t /\ stage'[q] = "numbering"
  BY <1>2 DEF Answers
<1>4. \A p \in Requests : p # q => req'[p] = req[p] /\ stage'[p] = after[p]
  BY <1>2 DEF Answers
<1>5. answers'[r] # <<>> /\ \A p \in Requests \ {r} : answers'[p] = answers[p]
  BY DEF Answers
<1>6. r # q
  BY <1>3, NoneAssumption
<1>7. \A p \in Requests : Active(p)' => p = q \/ Active(p)
  BY <1>4 DEF Active
<1>8. MakersKnown'
  <2> SUFFICES ASSUME NEW p \in Requests, Active(p)'
               PROVE  /\ req'[p].thread \in Threads
                      /\ req'[p].thread \in Workers => pc'[req'[p].thread] = "complete"
    BY DEF MakersKnown
  <2>1. CASE p = q
    BY <2>1, <1>3, NoneAssumption
  <2>2. CASE p # q
    <3>1. Active(p) /\ req'[p] = req[p]
      BY <2>2, <1>4, <1>7
    <3> QED BY <3>1 DEF Control, MakersKnown
  <2> QED BY <2>1, <2>2
<1>9. ResponseDue'
  <2> SUFFICES ASSUME NEW p \in Requests, answers'[p] = <<>>
               PROVE  /\ stage'[p] = "built" => counter'[p] # 0
                      /\ stage'[p] = "enqueued" /\ counter'[p] = 0 =>
                            \E w \in Workers : pc'[w] = "respond" /\ current'[w].request = p
    BY DEF ResponseDue
  <2>1. CASE p = q
    BY <2>1, <1>3, NoneAssumption
  <2>2. CASE p # q
    <3>1. p # r /\ answers[p] = <<>> /\ stage'[p] = stage[p]
      BY <2>2, <1>4, <1>5
    <3>2. \A w \in Workers : pc[w] = "respond" /\ current[w].request = p => pc'[w] = pc[w]
      BY <3>1
    <3> QED BY <3>1, <3>2 DEF Control, ResponseDue
  <2> QED BY <2>1, <2>2
<1>10. WorkersEnd'
  <2>1. \A w \in Workers : pc'[w] = "exited" <=> pc[w] = "exited"
    OBVIOUS
  <2>2. ASSUME service # "up", NEW c \in Clients PROVE Idle(c)'
    <3>1. Idle(c) /\ t # c
      BY <2>2 DEF Control, WorkersEnd
    <3>2. ASSUME NEW p \in Requests, req'[p].thread = c PROVE ~Active(p)'
      <4>1. p # q
        BY <3>1, <3>2, <1>3, NoneAssumption
      <4> QED BY <3>1, <3>2, <4>1, <1>4, <1>7 DEF Idle
    <3> QED BY <3>2 DEF Idle
  <2> QED BY <2>1, <2>2 DEF Control, WorkersEnd
<1> QED BY <1>8, <1>9, <1>10 DEF Control

\* An enqueued request is no longer made by anybody, and is to be answered by workers
\* that have not all ended.
LEMMA ControlEnqueue ==
    ASSUME IInv, Control, WorkersExist, NEW r \in Requests, EnqueueRequest(r)
    PROVE  Control'
<1>1. /\ TypeOK /\ Active(r) /\ stage[r] = "built" /\ stage'[r] = "enqueued"
      /\ \A p \in Requests \ {r} : stage'[p] = stage[p]
      /\ UNCHANGED <<req, counter, answers, shutdown, current, service>>
      /\ pc' = [w \in Workers |-> IF pc[w] = "waiting" THEN "generate" ELSE pc[w]]
  BY DEF IInv, TypeOK, Active, EnqueueRequest, NotifyAll
<1>2. \A p \in Requests : Active(p)' => Active(p)
  BY <1>1 DEF Active
<1>3. \A w \in Workers : /\ pc[w] # "waiting" => pc'[w] = pc[w]
                         /\ pc'[w] = "exited" <=> pc[w] = "exited"
  BY <1>1
<1>4. MakersKnown'
  BY <1>1, <1>2, <1>3 DEF Control, MakersKnown
<1>5. ResponseDue'
  BY <1>1, <1>3 DEF Control, ResponseDue
<1>6. ~\A w \in Workers : pc[w] = "exited"
  <2> SUFFICES ASSUME \A w \in Workers : pc[w] = "exited" PROVE FALSE
    OBVIOUS
  <2>1. service # "up"
    BY DEF WorkersExist, Control, WorkersEnd
  <2>2. req[r].thread \notin Clients
    BY <1>1, <2>1 DEF Control, WorkersEnd, Idle
  <2>3. req[r].thread \in Workers /\ pc[req[r].thread] = "complete"
    BY <1>1, <2>2 DEF Control, MakersKnown, Threads
  <2> QED BY <2>3
<1>7. WorkersEnd'
  BY <1>1, <1>2, <1>3, <1>6 DEF Control, WorkersEnd, Idle
<1> QED BY <1>4, <1>5, <1>7 DEF Control

\* Steps of a worker that touch no request but the counter of the one it processes.
LEMMA ControlWork ==
    ASSUME IInv, Control, Backlog, SegmentsFit, WorkersExist, NEW w \in Workers,
           \/ Wait(w) \/ SpuriousWakeup(w) \/ GenerateBatch(w) \/ Exit(w)
           \/ ProcessHistory(w) \/ Store(w) \/ CountDown(w) \/ EndBatch(w)
    PROVE  Control'
<1>1. /\ TypeOK
      /\ UNCHANGED <<req, stage, answers, shutdown, service>>
      /\ \A v \in Workers \ {w} : pc'[v] = pc[v] /\ current'[v] = current[v]
      /\ pc[w] # "exited" /\ (pc[w] = "complete" => Idle(w))
      /\ pc[w] # "respond" /\ pool' \subseteq pool
  BY DEF IInv, TypeOK, Wait, SpuriousWakeup, GenerateBatch, Exit, ProcessHistory, Store,
         CountDown, EndBatch, requestVars, poolVars
<1>2. MakersKnown'
  <2>1. \A p \in Requests : Active(p)' => Active(p) /\ req[p].thread # w
    BY <1>1 DEF Active, Idle, Control, MakersKnown
  <2> QED BY <1>1, <2>1 DEF Control, MakersKnown
<1>3. ResponseDue'
  <2> SUFFICES ASSUME NEW p \in Requests, answers[p] = <<>>
               PROVE  /\ stage[p] = "built" => counter'[p] # 0
                      /\ stage[p] = "enqueued" /\ counter'[p] = 0 =>
                            \E v \in Workers : pc'[v] = "respond" /\ current'[v].request = p
    BY <1>1 DEF ResponseDue
  <2>1. CASE counter' = counter
    BY <1>1, <2>1 DEF Control, ResponseDue
  <2>2. CASE CountDown(w)
    <3> DEFINE r == current[w].request
    <3>1. /\ pc[w] = "count" /\ counter' = [counter EXCEPT ![r] = @ - 1]
          /\ pc' = [pc EXCEPT ![w] = IF counter[r] = 1 THEN "respond" ELSE "complete"]
          /\ UNCHANGED current
      BY <2>2 DEF CountDown
    <3>2. r \in Requests /\ stage[r] = "enqueued"
      BY <3>1 DEF IInv, CurrentRight, Sentences
    <3>3. counter'[r] = counter[r] - 1 /\ counter[r] \in Int
          /\ \A u \in Requests \ {r} : counter'[u] = counter[u]
      BY <1>1, <3>1, <3>2 DEF TypeOK
    <3>4. counter'[r] = 0 => pc'[w] = "respond"
      BY <1>1, <3>1, <3>3 DEF TypeOK
    <3> HIDE DEF r
    <3>5. CASE p = r
      BY <3>1, <3>2, <3>4, <3>5 DEF r
    <3>6. CASE p # r
      BY <1>1, <3>1, <3>3, <3>6 DEF Control, ResponseDue
    <3> QED BY <3>5, <3>6
  <2>3. CountDown(w) \/ counter' = counter
    BY DEF Wait, SpuriousWakeup, GenerateBatch, Exit, ProcessHistory, Store, EndBatch, requestVars
  <2> QED BY <2>1, <2>2, <2>3
<1>4. WorkersEnd'
  <2>1. service # "destroyed"
    BY <1>1, NotEnded DEF Control
  <2>2. Exit(w) => pool = {} /\ shutdown
    BY ExitFindsNothing
  <2>3. pc'[w] = "exited" => Exit(w)
    BY <1>1 DEF TypeOK, Wait, SpuriousWakeup, GenerateBatch, ProcessHistory, Store, CountDown,
                EndBatch
  <2>4. \A c \in Clients : Idle(c)' <=> Idle(c)
    BY <1>1 DEF Idle, Active
  <2> QED BY <1>1, <2>1, <2>2, <2>3, <2>4 DEF Control, WorkersEnd
<1> QED BY <1>2, <1>3, <1>4 DEF Control

\* Shutting down begins when no client is inside a call, and joining ends when every
\* worker has.
LEMMA ControlLife ==
    ASSUME IInv, Control, Shutdown \/ Join \/ UNCHANGED vars
    PROVE  Control'
<1>1. /\ TypeOK
      /\ UNCHANGED <<req, stage, counter, answers, pool, current>>
      /\ \A w \in Workers : pc[w] # "waiting" => pc'[w] = pc[w]
      /\ \A w \in Workers : pc'[w] = "exited" <=> pc[w] = "exited"
  BY DEF IInv, TypeOK, Shutdown, Join, NotifyAll, vars, requestVars, poolVars, workerVars
<1>2. MakersKnown'
  BY <1>1 DEF Control, MakersKnown, Active
<1>3. ResponseDue'
  BY <1>1 DEF Control, ResponseDue
<1>4. WorkersEnd'
  <2>1. \A c \in Clients : Idle(c)' <=> Idle(c)
    BY <1>1 DEF Idle, Active
  <2>2. CASE Shutdown
    BY <1>1, <2>1, <2>2 DEF Control, WorkersEnd, Shutdown
  <2>3. CASE Join
    BY <1>1, <2>1, <2>3 DEF Control, WorkersEnd, Join, poolVars
  <2>4. CASE UNCHANGED vars
    BY <1>1, <2>1, <2>4 DEF Control, WorkersEnd, vars, poolVars
  <2> QED BY <2>2, <2>3, <2>4
<1> QED BY <1>2, <1>3, <1>4 DEF Control

-----------------------------------------------------------------------------
(* The invariant of the service.                                           *)

\* The service starts up, with no request.
LEMMA ServiceInit == ASSUME NEW n, BacklogFits(n), WorkersExist, Init PROVE SInv(n)
<1>1. IInv
  BY InitInductive
<1>2. Pairing(n)
  BY DEF Init, Pairing, LengthsBounded, LinkedBack, PivotText, Unused, BacklogFits
<1>3. Control
  <2>1. MakersKnown /\ ResponseDue
    BY DEF Init, MakersKnown, ResponseDue, Active
  <2>2. WorkersEnd
    BY DEF Init, WorkersEnd, WorkersExist
  <2> QED BY <2>1, <2>2 DEF Control
<1>4. Backlog
  BY FS_EmptySet DEF Init, Backlog, BacklogExact, NoStrandedSentence
<1> QED BY <1>1, <1>2, <1>3, <1>4 DEF SInv

\* Every step but clear() preserves the invariant of the service.
LEMMA ServiceStep ==
    ASSUME NEW n, BacklogFits(n), SegmentsFit, WorkersExist, ~ClearAllowed,
           SInv(n), [Next]_vars
    PROVE  SInv(n)'
<1>1. IInv /\ Pairing(n) /\ Control /\ Backlog /\ TypeOK /\ n \in Nat
  BY DEF SInv, IInv, BacklogFits
<1>2. IInv'
  BY <1>1, StepInductive
<1>3. ASSUME NEW c \in Clients, NEW r \in Requests, NEW m \in Models,
             NEW text \in Texts, Translate(c, r, m, text)
      PROVE  Pairing(n)' /\ Control' /\ Backlog'
  <2>1. Pairing(n)'
    BY <1>1, <1>3, PairingTranslate
  <2>2. /\ stage[r] = "new" /\ stage'[r] = "numbering" /\ req'[r].thread = c
        /\ \A p \in Requests \ {r} : req'[p] = req[p] /\ stage'[p] = stage[p]
        /\ service = "up"
        /\ UNCHANGED <<counter, answers, poolVars, workerVars, service>>
    BY <1>1, <1>3 DEF TypeOK, Translate
  <2>3. Control'
    BY <1>1, <2>2, ControlEnter DEF poolVars
  <2>4. Backlog'
    BY <1>1, <2>2, BacklogKept DEF poolVars
  <2> QED BY <2>1, <2>3, <2>4
<1>4. ASSUME NEW c \in Clients, NEW r \in Requests, NEW q \in Requests,
             NEW p \in Pivots, NEW text \in Texts, Pivot(c, r, q, p[1], p[2], text)
      PROVE  Pairing(n)' /\ Control' /\ Backlog'
  <2>1. p[1] \in Models /\ p[2] \in Models
    BY PivotsAssumption
  <2>2. Pairing(n)'
    BY <1>1, <1>4, <2>1, PairingPivot
  <2>3. /\ stage[r] = "new" /\ stage[q] = "new" /\ r # q
        /\ stage'[r] = "numbering" /\ stage'[q] = "reserved" /\ req'[r].thread = c
        /\ \A u \in Requests \ {r, q} : req'[u] = req[u] /\ stage'[u] = stage[u]
        /\ service = "up"
        /\ UNCHANGED <<counter, answers, poolVars, workerVars, service>>
    BY <1>1, <1>4 DEF TypeOK, Pivot
  <2>4. Control'
    BY <1>1, <2>3, ControlEnter DEF poolVars
  <2>5. Backlog'
    BY <1>1, <2>3, BacklogKept DEF poolVars
  <2> QED BY <2>2, <2>4, <2>5
<1>5. ASSUME NEW r \in Requests, Number(r) \/ Prefill(r) \/ ReturnRequest(r)
      PROVE  Pairing(n)' /\ Control' /\ Backlog'
  <2>1. /\ UNCHANGED <<req, answers, poolVars>>
        /\ stage[r] \in {"numbering", "building"} /\ stage'[r] \in {"building", "built"}
        /\ \A p \in Requests \ {r} : stage'[p] = stage[p]
    BY <1>1, <1>5 DEF TypeOK, Number, Prefill, ReturnRequest
  <2>2. Pairing(n)'
    BY <1>1, <2>1, PairingKept
  <2>3. Control'
    BY <1>1, <1>5, ControlMake
  <2>4. Backlog'
    BY <1>1, <2>1, BacklogKept DEF poolVars
  <2> QED BY <2>2, <2>3, <2>4
<1>6. ASSUME NEW r \in Requests, RespondEarly(r)
      PROVE  Pairing(n)' /\ Control' /\ Backlog'
  <2> DEFINE t == req[r].thread
             after == [stage EXCEPT ![r] = "built"]
  <2>1. stage[r] = "building" /\ answers[r] = <<>> /\ Answers(r, t, after)
    BY <1>1, <1>6, RespondEarlyAnswers
  <2>2. UNCHANGED <<counter, poolVars, workerVars, service>>
    BY <1>6 DEF RespondEarly
  <2>3. /\ \A p \in Requests \ {r} : after[p] = stage[p]
        /\ after[r] = "built"
    BY <1>1 DEF TypeOK
  <2>4. Active(r) /\ t \in Threads /\ (t \in Workers => pc[t] = "complete")
        /\ (service # "up" => t \notin Clients)
    BY <1>1, <2>1 DEF Active, Control, MakersKnown, WorkersEnd, Idle
  <2> HIDE DEF after
  <2>5. Pairing(n)'
    BY <1>1, <2>1, <2>3, PairingAnswers
  <2>6. Control'
    BY <1>1, <2>1, <2>2, <2>3, <2>4, ControlAnswers DEF poolVars, workerVars
  <2>7. Backlog'
    BY <1>1, <2>1, <2>2, BacklogKept DEF poolVars, Answers
  <2> QED BY <2>5, <2>6, <2>7
<1>7. ASSUME NEW r \in Requests, EnqueueRequest(r)
      PROVE  Pairing(n)' /\ Control' /\ Backlog'
  <2>1. /\ UNCHANGED <<req, answers>> /\ stage[r] = "built" /\ stage'[r] = "enqueued"
        /\ \A p \in Requests \ {r} : stage'[p] = stage[p]
    BY <1>1, <1>7 DEF TypeOK, EnqueueRequest
  <2>2. Pairing(n)'
    BY <1>1, <2>1, PairingKept
  <2>3. Control'
    BY <1>1, <1>7, ControlEnqueue
  <2>4. Backlog'
    BY <1>1, <1>7, BacklogEnqueue DEF Pairing
  <2> QED BY <2>2, <2>3, <2>4
<1>8. ASSUME NEW w \in Workers, RespondLast(w)
      PROVE  Pairing(n)' /\ Control' /\ Backlog'
  <2> DEFINE r == current[w].request
  <2>1. /\ r \in Requests /\ stage[r] = "enqueued" /\ answers[r] = <<>>
        /\ Answers(r, w, stage)
    BY <1>1, <1>8, RespondLastAnswers
  <2>2. /\ UNCHANGED <<counter, poolVars, current, service>>
        /\ pc[w] = "respond" /\ pc'[w] = "complete"
        /\ \A v \in Workers \ {w} : pc'[v] = pc[v]
    BY <1>1, <1>8 DEF TypeOK, RespondLast
  <2>3. current[w].request = r /\ w \in Threads /\ w \notin Clients
    BY ThreadsAssumption DEF Threads
  <2> HIDE DEF r
  <2>4. Pairing(n)'
    BY <1>1, <2>1, PairingAnswers
  <2>5. Control'
    BY <1>1, <2>1, <2>2, <2>3, ControlAnswers DEF poolVars
  <2>6. Backlog'
    BY <1>1, <2>1, <2>2, BacklogKept DEF poolVars, Answers
  <2> QED BY <2>4, <2>5, <2>6
<1>9. ASSUME NEW w \in Workers,
             \/ Wait(w) \/ SpuriousWakeup(w) \/ GenerateBatch(w) \/ Exit(w)
             \/ ProcessHistory(w) \/ Store(w) \/ CountDown(w) \/ EndBatch(w)
      PROVE  Pairing(n)' /\ Control' /\ Backlog'
  <2>1. UNCHANGED <<req, answers, stage>>
    BY <1>9 DEF Wait, SpuriousWakeup, GenerateBatch, Exit, ProcessHistory, Store, CountDown,
                EndBatch, requestVars
  <2>2. Pairing(n)'
    BY <1>1, <2>1, PairingKept
  <2>3. Control'
    BY <1>1, <1>9, ControlWork
  <2>4. Backlog'
    <3>1. CASE GenerateBatch(w)
      BY <1>1, <3>1, BacklogGenerate
    <3>2. CASE Exit(w)
      <4>1. pool = {} /\ UNCHANGED <<pool, enqueued>>
        BY <1>1, <3>2, ExitFindsNothing DEF Exit
      <4> QED BY <1>1, <4>1 DEF Backlog, BacklogExact, NoStrandedSentence
    <3>3. CASE ~GenerateBatch(w) /\ ~Exit(w)
      <4>1. UNCHANGED poolVars
        BY <1>9, <3>3 DEF Wait, SpuriousWakeup, ProcessHistory, Store, CountDown, EndBatch
      <4> QED BY <1>1, <2>1, <4>1, BacklogKept DEF poolVars
    <3> QED BY <3>1, <3>2, <3>3
  <2> QED BY <2>2, <2>3, <2>4
<1>10. CASE Shutdown \/ Join \/ UNCHANGED vars
  <2>1. UNCHANGED <<req, answers, stage, pool, maxActive, aggregateQueue, enqueued>>
    BY <1>10 DEF Shutdown, Join, vars, requestVars, poolVars
  <2>2. Pairing(n)'
    BY <1>1, <2>1, PairingKept
  <2>3. Control'
    BY <1>1, <1>10, ControlLife
  <2>4. Backlog'
    BY <1>1, <2>1, BacklogKept
  <2> QED BY <1>2, <2>2, <2>3, <2>4 DEF SInv
<1>11. ASSUME NEW c \in Clients, Clear(c) PROVE FALSE
  BY <1>11 DEF Clear
<1> QED BY <1>2, <1>3, <1>4, <1>5, <1>6, <1>7, <1>8, <1>9, <1>10, <1>11
        DEF SInv, Next, Make, Work, Terminated

\* When every worker has ended, every request that was made has had its response: what
\* has none is being made by somebody, waits for the first half of its pivot(), or has
\* a sentence left in the pools.
LEMMA EndedAnswered ==
    ASSUME NEW n, SInv(n), WorkersExist, \A w \in Workers : pc[w] = "exited",
           NEW r \in Requests, stage[r] # "new"
    PROVE  answers[r] # <<>>
<1>1. TypeOK /\ IInv /\ Pairing(n) /\ Control
  BY DEF SInv, IInv
<1>2. pool = {} /\ \A c \in Clients : Idle(c)
  BY <1>1 DEF Control, WorkersEnd, WorkersExist
<1>3. \A p \in Requests : ~Active(p)
  BY <1>1, <1>2 DEF Control, MakersKnown, Threads, Idle
<1>4. ASSUME NEW p \in Requests, stage[p] = "enqueued" PROVE answers[p] # <<>>
  <2> SUFFICES ASSUME answers[p] = <<>> PROVE FALSE
    OBVIOUS
  <2>1. counter[p] # 0
    BY <1>1, <1>4 DEF Control, ResponseDue
  <2>2. Outstanding(p) # {}
    BY <1>1, <1>4, <2>1, OutstandingFinite DEF IInv, CounterExact, Made
  <2>3. PICK i \in DOMAIN histories[p] : histories[p][i] = None
    BY <2>2 DEF Outstanding
  <2>4. \A w \in Workers : batch[w] = {}
    BY <1>1 DEF IInv, BatchUsed
  <2> QED BY <1>1, <1>2, <1>4, <2>3, <2>4 DEF IInv, SentencesPlaced
<1>5. stage[r] \in {"reserved", "enqueued"}
  BY <1>1, <1>3 DEF TypeOK, Stages, Active
<1>6. CASE stage[r] = "reserved"
  <2> DEFINE p == req[r].parent
  <2>1. p # None /\ req[p].second = r /\ stage[p] # "new" /\ p \in Requests
    BY <1>1, <1>6 DEF Pairing, LinkedBack, TypeOK, RequestRecord
  <2>2. r # None
    BY NoneAssumption
  <2>3. stage[p] # "reserved" /\ answers[p] = <<>>
    BY <1>1, <1>6, <2>1, <2>2 DEF IInv, RequestLinks
  <2>4. stage[p] = "enqueued"
    BY <1>1, <1>3, <2>1, <2>3 DEF TypeOK, Stages, Active
  <2> QED BY <1>4, <2>1, <2>3, <2>4
<1> QED BY <1>4, <1>5, <1>6

-----------------------------------------------------------------------------
(* Every step of the service is one that its promise allows.               *)

\* Nothing is asked before the service has a client.
LEMMA MapInit == Init => TP!Init
<1> SUFFICES ASSUME Init PROVE TP!Init
  OBVIOUS
<1>1. \A r \in Requests : askedOf(r) = None
  BY DEF Init, askedOf
<1>2. \A r \in Requests : toldOf(r) = None
  BY DEF Init, toldOf, Unused
<1> QED BY <1>1, <1>2 DEF Init, TP!Init

\* A step inside the service, of which the client sees nothing.
LEMMA MapKept ==
    ASSUME TypeOK, UNCHANGED <<req, answers, service>>,
           \A r \in Requests : /\ stage'[r] = "new" <=> stage[r] = "new"
                               /\ stage'[r] = "reserved" <=> stage[r] = "reserved"
    PROVE  UNCHANGED TP!vars
<1>1. \A r \in Requests : askedOf(r)' = askedOf(r)
  BY DEF askedOf
<1>2. \A r \in Requests : toldOf(r)' = toldOf(r)
  BY DEF toldOf
<1> QED BY <1>1, <1>2 DEF TP!vars

\* Calling translate() asks a question.
LEMMA MapTranslate ==
    ASSUME IInv, NEW c \in Clients, NEW r \in Requests, NEW m \in Models,
           NEW text \in Texts, Translate(c, r, m, text)
    PROVE  TP!Ask(r)
<1>1. /\ TypeOK /\ UNCHANGED <<answers, service>> /\ service = "up"
      /\ stage[r] = "new" /\ stage'[r] = "numbering"
      /\ req'[r].segments = text /\ req'[r].model = m
      /\ req'[r].second = None /\ req'[r].parent = None
      /\ \A p \in Requests \ {r} : req'[p] = req[p] /\ stage'[p] = stage[p]
  BY DEF IInv, TypeOK, Translate
<1>2. answers[r] = <<>> /\ req[r] = Unused
  BY <1>1 DEF IInv, AnsweredOnce, RequestLinks
<1>3. \A p \in Requests : req[p].second # None => req[p].second \in Requests \ {r}
  BY <1>1 DEF IInv, RequestLinks, TypeOK, RequestRecord
<1> DEFINE question == [text |-> text, first |-> m, second |-> None]
<1>4. askedOf(r) = None /\ askedOf(r)' = question
  BY <1>1 DEF askedOf
<1>5. \A p \in Requests \ {r} : askedOf(p)' = askedOf(p)
  BY <1>1, <1>3 DEF askedOf
<1>6. \A p \in Requests : toldOf(p)' = toldOf(p)
  BY <1>1, <1>2, <1>3 DEF toldOf, Unused
<1>7. question \in TP!Question
  BY DEF TP!Question
<1> HIDE DEF question
<1> QED BY <1>1, <1>4, <1>5, <1>6, <1>7 DEF TP!Ask

\* Calling pivot() asks a question too, whatever becomes of the second request.
LEMMA MapPivot ==
    ASSUME IInv, LinkedBack, NEW c \in Clients, NEW r \in Requests, NEW q \in Requests,
           NEW p \in Pivots, NEW text \in Texts, Pivot(c, r, q, p[1], p[2], text)
    PROVE  TP!Ask(r)
<1>1. /\ TypeOK /\ UNCHANGED <<answers, service>> /\ service = "up"
      /\ stage[r] = "new" /\ stage[q] = "new" /\ r # q
      /\ stage'[r] = "numbering" /\ stage'[q] = "reserved"
      /\ \A u \in Requests \ {r, q} : req'[u] = req[u] /\ stage'[u] = stage[u]
  BY DEF IInv, TypeOK, Pivot
<1>2. /\ req'[r].segments = text /\ req'[r].model = p[1]
      /\ req'[r].second = q /\ req'[r].parent = None
      /\ req'[q].model = p[2] /\ req'[q].parent = r
  BY <1>1 DEF TypeOK, Pivot, Unused
<1>3. answers[r] = <<>> /\ answers[q] = <<>> /\ req[r] = Unused /\ req[q] = Unused
  BY <1>1 DEF IInv, AnsweredOnce, RequestLinks
<1>4. \A u \in Requests : req[u].second # None => req[u].second \in Requests \ {r, q}
  <2> TAKE u \in Requests
  <2>1. req[u] \in RequestRecord
    BY <1>1 DEF TypeOK
  <2>2. req[u].second \in Requests \cup {None}
    BY <2>1 DEF RequestRecord
  <2>3. req[u].second # None => req[u].second # r /\ req[u].second # q
    BY <1>1 DEF IInv, RequestLinks
  <2> QED BY <2>2, <2>3
<1>5. q # None /\ r # None
  BY NoneAssumption
<1> DEFINE question == [text |-> text, first |-> p[1], second |-> p[2]]
<1>6. askedOf(r) = None /\ askedOf(r)' = question
  BY <1>1, <1>2, <1>5 DEF askedOf
<1>7. \A u \in Requests \ {r} : askedOf(u)' = askedOf(u)
  <2> TAKE u \in Requests \ {r}
  <2>1. CASE u = q
    BY <1>1, <2>1 DEF askedOf
  <2>2. CASE u # q
    BY <1>1, <1>4, <2>2 DEF askedOf
  <2> QED BY <2>1, <2>2
<1>8. \A u \in Requests : toldOf(u)' = toldOf(u)
  <2> TAKE u \in Requests
  <2>1. CASE u = r
    BY <1>1, <1>2, <1>3, <1>5, <2>1 DEF toldOf, Unused
  <2>2. CASE u = q
    BY <1>1, <1>2, <1>3, <1>5, <2>2 DEF toldOf, Unused
  <2>3. CASE u \notin {r, q}
    BY <1>1, <1>4, <2>3 DEF toldOf
  <2> QED BY <2>1, <2>2, <2>3
<1>9. question \in TP!Question
  BY DEF TP!Question
<1> HIDE DEF question
<1> QED BY <1>1, <1>6, <1>7, <1>8, <1>9 DEF TP!Ask

\* A response is told to the client, unless it is that of the first model of a pivot().
LEMMA MapAnswers ==
    ASSUME IInv, IInv', LinkedBack, PivotText, NEW r \in Requests,
           stage[r] \in {"building", "enqueued"}, answers[r] = <<>>,
           NEW t, NEW after, Answers(r, t, after),
           \A p \in Requests \ {r} : after[p] = stage[p], after[r] \in {"built", "enqueued"},
           UNCHANGED service
    PROVE  (\E c \in Requests : TP!Tell(c)) \/ UNCHANGED TP!vars
<1>1. TypeOK /\ r # None /\ req[r] \in RequestRecord
  BY NoneAssumption DEF IInv, TypeOK
<1>2. PICK q : q = req[r].second
  OBVIOUS
<1> DEFINE told == [i \in DOMAIN req[r].segments |-> Translation(r, i)]
<1>3. /\ answers'[r] = <<told>> /\ answers'[r][1] = told /\ answers'[r] # <<>>
      /\ \A p \in Requests \ {r} : answers'[p] = answers[p]
  BY DEF Answers
<1>4. \A p \in Requests : /\ req'[p].second = req[p].second /\ req'[p].parent = req[p].parent
                          /\ req'[p].model = req[p].model
                          /\ p # q => req'[p] = req[p]
  BY <1>2 DEF Answers
<1>5. q # None => /\ q \in Requests \ {r} /\ req[q].parent = r /\ answers[q] = <<>>
                  /\ stage[q] = "reserved" /\ stage'[q] = "numbering"
  BY <1>2 DEF Answers
<1>6. \A p \in Requests : p # q => (stage'[p] \in {"new", "reserved"}
                                       <=> stage[p] \in {"new", "reserved"})
  BY <1>2 DEF Answers
<1>7. \A p \in Requests : askedOf(p)' = askedOf(p)
  <2> TAKE p \in Requests
  <2>1. CASE p = q
    <3>1. q # None /\ req[q].parent # None
      BY <2>1, <1>1, <1>5, NoneAssumption
    <3> QED BY <2>1, <3>1, <1>4, <1>5 DEF askedOf
  <2>2. CASE p # q
    <3>1. req[p].second # None => req[p].second \in Requests
      BY <1>1 DEF TypeOK, RequestRecord
    <3> QED BY <2>2, <3>1, <1>4, <1>6 DEF askedOf
  <2> QED BY <2>1, <2>2
<1> HIDE DEF told
<1>8. CASE q # None
  <2>1. req[r].parent = None
    <3>1. req[r].parent # None => req[r].second = None
      BY DEF LinkedBack
    <3> QED BY <3>1, <1>2, <1>8
  <2>2. \A p \in Requests : toldOf(p)' = toldOf(p)
    <3> TAKE p \in Requests
    <3>1. CASE p = r
      BY <3>1, <1>2, <1>3, <1>4, <1>5, <1>8 DEF toldOf
    <3>2. CASE p # r
      <4>1. req[p].second # None => req[p].second # r
        BY <2>1, <3>2, NoneAssumption DEF IInv, RequestLinks
      <4>2. req[p].second # None => req[p].second \in Requests \ {r}
        BY <4>1, <1>1 DEF TypeOK, RequestRecord
      <4> QED BY <3>2, <4>2, <1>3, <1>4 DEF toldOf
    <3> QED BY <3>1, <3>2
  <2> QED BY <2>2, <1>7 DEF TP!vars
<1>9. CASE q = None /\ req[r].parent = None
  <2>1. toldOf(r) = None /\ toldOf(r)' = told
    BY <1>2, <1>3, <1>4, <1>9 DEF toldOf
  <2>2. \A p \in Requests \ {r} : toldOf(p)' = toldOf(p)
    <3> TAKE p \in Requests \ {r}
    <3>1. req[p].second # None => req[p].second # r
      BY <1>9, NoneAssumption DEF IInv, RequestLinks
    <3>2. req[p].second # None => req[p].second \in Requests \ {r}
      BY <3>1, <1>1 DEF TypeOK, RequestRecord
    <3> QED BY <3>2, <1>3, <1>4 DEF toldOf
  <2>3. askedOf(r) = [text |-> req[r].segments, first |-> req[r].model, second |-> None]
    BY <1>2, <1>9 DEF askedOf
  <2>4. askedOf(r) # None
    BY <1>1, <2>3, NoneAssumption DEF IInv, RequestLinks, RequestRecord
  <2>5. told = TP!Answer(askedOf(r))
    BY <2>3 DEF told, TP!Answer, Translation
  <2>6. TP!Tell(r)
    BY <1>7, <2>1, <2>2, <2>4, <2>5 DEF TP!Tell
  <2> QED BY <2>6
<1>10. CASE q = None /\ req[r].parent # None
  <2>0. PICK c : c = req[r].parent
    OBVIOUS
  <2>1. /\ c \in Requests /\ c # r /\ req[c].second = r /\ stage[c] # "new"
        /\ req[c] \in RequestRecord
    <3>1. c \in Requests
      BY <1>1, <1>10, <2>0 DEF RequestRecord
    <3>2. req[c].second = r /\ stage[c] # "new"
      BY <1>10, <2>0 DEF LinkedBack
    <3>3. c # r
      BY <1>1, <1>2, <1>10, <3>2
    <3> QED BY <3>1, <3>2, <3>3, <1>1 DEF TypeOK
  <2>2. req[c].parent = None /\ stage[c] # "reserved" /\ answers[c] # <<>>
    BY <1>1, <2>1 DEF LinkedBack, IInv, RequestLinks
  <2>3. req[r].segments = [i \in DOMAIN req[c].segments |-> Retokenize[Translation(c, i)]]
    BY <1>1, <2>1, <2>2 DEF PivotText
  <2>4. askedOf(c) = [text |-> req[c].segments, first |-> req[c].model, second |-> req[r].model]
    BY <1>1, <2>1, <2>2 DEF askedOf
  <2>5. req[c].model \in Models /\ req[r].model \in Models
    BY <2>1 DEF IInv, RequestLinks
  <2>6. askedOf(c) # None /\ req[r].model # None
    BY <2>1, <2>4, <2>5, NoneAssumption DEF RequestRecord
  <2>7. told = TP!Answer(askedOf(c))
    <3>1. askedOf(c).second # None /\ askedOf(c).second = req[r].model
          /\ askedOf(c).first = req[c].model /\ askedOf(c).text = req[c].segments
      BY <2>4, <2>6
    <3>2. TP!Answer(askedOf(c)) =
            [i \in DOMAIN req[c].segments |->
                <<req[r].model, Retokenize[<<req[c].model, req[c].segments[i]>>]>>]
      BY <3>1 DEF TP!Answer
    <3>3. told = [i \in DOMAIN req[c].segments |->
                    <<req[r].model, Retokenize[<<req[c].model, req[c].segments[i]>>]>>]
      BY <2>3 DEF told, Translation
    <3> QED BY <3>2, <3>3
  <2>8. toldOf(c) = None /\ toldOf(c)' = told
    BY <1>1, <1>3, <1>4, <2>1, <2>2 DEF toldOf
  <2>9. \A p \in Requests \ {c} : toldOf(p)' = toldOf(p)
    <3> TAKE p \in Requests \ {c}
    <3>1. CASE p = r
      BY <3>1, <1>4, <1>10 DEF toldOf
    <3>2. CASE p # r
      <4>1. req[p].second # None => req[p].second # r
        BY <2>0 DEF IInv, RequestLinks
      <4>2. req[p].second # None => req[p].second \in Requests \ {r}
        BY <4>1, <1>1 DEF TypeOK, RequestRecord
      <4> QED BY <3>2, <4>2, <1>3, <1>4 DEF toldOf
    <3> QED BY <3>1, <3>2
  <2>10. c \in Requests
    BY <2>1
  <2>11. TP!Tell(c)
    BY <1>7, <2>6, <2>7, <2>8, <2>9, <2>10 DEF TP!Tell
  <2> QED BY <2>10, <2>11
<1> QED BY <1>8, <1>9, <1>10

\* A step of Make() that is not a response is not seen by the client.
LEMMA MapMake ==
    ASSUME IInv, NEW r \in Requests, Number(r) \/ Prefill(r) \/ ReturnRequest(r)
                                     \/ EnqueueRequest(r)
    PROVE  UNCHANGED TP!vars
<1>1. /\ TypeOK /\ UNCHANGED <<req, answers, service>>
      /\ stage[r] \in {"numbering", "building", "built"}
      /\ stage'[r] \in {"building", "built", "enqueued"}
      /\ \A p \in Requests \ {r} : stage'[p] = stage[p]
  BY DEF Number, Prefill, ReturnRequest, EnqueueRequest, IInv, TypeOK
<1> QED BY <1>1, MapKept

\* Of the steps of a worker, the client sees only the responses.
LEMMA MapWork ==
    ASSUME IInv, NEW w \in Workers, Work(w) \/ SpuriousWakeup(w), ~RespondLast(w)
    PROVE  UNCHANGED TP!vars
<1>1. TypeOK /\ UNCHANGED <<req, answers, service, stage>>
  BY DEF Work, Wait, GenerateBatch, Exit, ProcessHistory, Store, CountDown, EndBatch,
         SpuriousWakeup, requestVars, IInv
<1> QED BY <1>1, MapKept

\* Whatever has been asked is answered before the service is gone.
LEMMA MapJoin ==
    ASSUME NEW n, SInv(n), WorkersExist, Join
    PROVE  TP!Destroy
<1>1. /\ service = "joining" /\ service' = "destroyed"
      /\ \A w \in Workers : pc[w] = "exited"
      /\ UNCHANGED <<req, answers, stage>>
  BY DEF Join, requestVars
<1>2. IInv /\ TypeOK
  BY DEF SInv, IInv
<1>3. ASSUME NEW c \in Requests, askedOf(c) # None
      PROVE  toldOf(c) # None
  <2>1. req[c].parent = None /\ stage[c] # "new"
    BY <1>3 DEF askedOf
  <2>2. PICK last : last = IF req[c].second = None THEN c ELSE req[c].second
    OBVIOUS
  <2>3. last \in Requests /\ stage[last] # "new"
    <3>1. req[c] \in RequestRecord
      BY <1>2 DEF TypeOK
    <3>2. req[c].second \in Requests \cup {None}
      BY <3>1 DEF RequestRecord
    <3> QED BY <2>1, <2>2, <3>2, <1>2 DEF IInv, RequestLinks
  <2>4. answers[last] # <<>>
    BY <2>3, <1>1, EndedAnswered
  <2>5. answers[last] \in Seq(Seq(Histories \cup {None})) /\ 1 \in DOMAIN answers[last]
    BY <2>3, <2>4, <1>2 DEF TypeOK
  <2>6. answers[last][1] = [i \in DOMAIN req[last].segments |-> Translation(last, i)]
    BY <2>3, <2>5, <1>2 DEF IInv, ResponseComplete
  <2>7. req[last] \in RequestRecord /\ req[last].model \in Models
    BY <2>3, <1>2 DEF TypeOK, IInv, RequestLinks
  <2>8. req[last].segments \in Seq(Segments)
    BY <2>7 DEF RequestRecord
  <2>9. answers[last][1] \in Seq(Histories)
    BY <2>6, <2>7, <2>8 DEF Translation, Histories
  <2>10. toldOf(c) = answers[last][1]
    BY <2>1, <2>2, <2>4 DEF toldOf
  <2> QED BY <2>9, <2>10, NoneAssumption
<1>4. UNCHANGED <<[r \in Requests |-> askedOf(r)], [r \in Requests |-> toldOf(r)]>>
  BY <1>1 DEF askedOf, toldOf
<1> QED BY <1>1, <1>3, <1>4 DEF TP!Destroy

\* Every step of the service is one of the promise, or one that the client does not see.
LEMMA MapStep ==
    ASSUME NEW n, BacklogFits(n), SegmentsFit, WorkersExist, ~ClearAllowed,
           SInv(n), [Next]_vars
    PROVE  [TP!Next]_(TP!vars)
<1>1. IInv /\ TypeOK /\ LinkedBack /\ PivotText
  BY DEF SInv, IInv, Pairing
<1>2. IInv'
  BY <1>1, StepInductive
<1>3. ASSUME NEW c \in Clients, NEW r \in Requests, NEW m \in Models,
             NEW text \in Texts, Translate(c, r, m, text)
      PROVE  TP!Next
  <2>1. TP!Ask(r)
    BY <1>1, <1>3, MapTranslate
  <2> QED BY <2>1 DEF TP!Next
<1>4. ASSUME NEW c \in Clients, NEW r \in Requests, NEW q \in Requests,
             NEW p \in Pivots, NEW text \in Texts, Pivot(c, r, q, p[1], p[2], text)
      PROVE  TP!Next
  <2>1. TP!Ask(r)
    BY <1>1, <1>4, MapPivot
  <2> QED BY <2>1 DEF TP!Next
<1>5. ASSUME NEW r \in Requests, Make(r)
      PROVE  TP!Next \/ UNCHANGED TP!vars
  <2>1. CASE RespondEarly(r)
    <3> DEFINE after == [stage EXCEPT ![r] = "built"]
    <3>1. /\ stage[r] = "building" /\ answers[r] = <<>>
          /\ Answers(r, req[r].thread, after)
      BY <1>1, <2>1, RespondEarlyAnswers
    <3>2. after[r] = "built" /\ \A p \in Requests \ {r} : after[p] = stage[p]
      BY <1>1 DEF TypeOK
    <3>3. UNCHANGED service
      BY <2>1 DEF RespondEarly
    <3>4. PICK t : t = req[r].thread
      OBVIOUS
    <3> HIDE DEF after
    <3>5. (\E c \in Requests : TP!Tell(c)) \/ UNCHANGED TP!vars
      BY <1>1, <1>2, <3>1, <3>2, <3>3, <3>4, MapAnswers
    <3> QED BY <3>5 DEF TP!Next
  <2>2. CASE ~RespondEarly(r)
    BY <1>1, <1>5, <2>2, MapMake DEF Make
  <2> QED BY <2>1, <2>2
<1>6. ASSUME NEW w \in Workers, Work(w) \/ SpuriousWakeup(w)
      PROVE  TP!Next \/ UNCHANGED TP!vars
  <2>1. CASE RespondLast(w)
    <3>1. PICK r : r = current[w].request
      OBVIOUS
    <3>2. /\ r \in Requests /\ stage[r] = "enqueued" /\ answers[r] = <<>>
          /\ Answers(r, w, stage)
      BY <1>1, <2>1, <3>1, RespondLastAnswers
    <3>3. UNCHANGED service
      BY <2>1 DEF RespondLast
    <3>4. (\E c \in Requests : TP!Tell(c)) \/ UNCHANGED TP!vars
      BY <1>1, <1>2, <3>2, <3>3, MapAnswers
    <3> QED BY <3>4 DEF TP!Next
  <2>2. CASE ~RespondLast(w)
    BY <1>1, <1>6, <2>2, MapWork
  <2> QED BY <2>1, <2>2
<1>7. CASE Shutdown
  <2>1. UNCHANGED <<[r \in Requests |-> askedOf(r)], [r \in Requests |-> toldOf(r)]>>
    BY <1>7 DEF Shutdown, requestVars, askedOf, toldOf
  <2>2. TP!Shutdown
    BY <1>7, <2>1 DEF Shutdown, TP!Shutdown
  <2> QED BY <2>2 DEF TP!Next
<1>8. CASE Join
  <2>1. TP!Destroy
    BY <1>8, MapJoin
  <2> QED BY <2>1 DEF TP!Next
<1>9. CASE Terminated \/ UNCHANGED vars
  <2>1. UNCHANGED <<req, answers, service, stage>>
    BY <1>9 DEF Terminated, vars, requestVars
  <2> QED BY <2>1, <1>1, MapKept
<1>10. \A c \in Clients : ~Clear(c)
  BY DEF Clear
<1> QED BY <1>3, <1>4, <1>5, <1>6, <1>7, <1>8, <1>9, <1>10 DEF Next

-----------------------------------------------------------------------------
(* What the service keeps as long as no client calls clear().              *)

\* The invariant of the whole service: its requests, its pools and its threads
\* (service.cpp, threadsafe_batching_pool.cpp, request.cpp).
THEOREM ServiceInvariant ==
    ASSUME NEW n, BacklogFits(n), SegmentsFit, WorkersExist, ~ClearAllowed
    PROVE  Spec => []SInv(n)
<1>1. Init => SInv(n)
  BY ServiceInit
<1>2. SInv(n) /\ [Next]_vars => SInv(n)'
  BY ServiceStep
<1> QED BY <1>1, <1>2, PTL DEF Spec

\* enqueued_ is the number of sentences in the pools of the models, whatever the
\* interleaving of enqueueRequest and generateBatch (threadsafe_batching_pool.cpp).
THEOREM BacklogIsExact ==
    ASSUME NEW n, BacklogFits(n), SegmentsFit, WorkersExist, ~ClearAllowed
    PROVE  Spec => []BacklogExact
<1>1. SInv(n) => BacklogExact
  BY DEF SInv, Backlog
<1> QED BY <1>1, ServiceInvariant, PTL

\* Every sentence in a pool is one that generateBatch will come to
\* (aggregate_batching_pool.cpp, batching_pool.cpp).
THEOREM NoSentenceStranded ==
    ASSUME NEW n, BacklogFits(n), SegmentsFit, WorkersExist, ~ClearAllowed
    PROVE  Spec => []NoStrandedSentence
<1>1. SInv(n) => NoStrandedSentence
  BY DEF SInv, Backlog
<1> QED BY <1>1, ServiceInvariant, PTL

\* The destructor returns only when every request, also the second one of a pivot()
\* that a worker made after shutdown(), has had its response (service.cpp).
THEOREM DestructorAnswersAll ==
    ASSUME NEW n, BacklogFits(n), SegmentsFit, WorkersExist, ~ClearAllowed
    PROVE  Spec => []DestroyedAnswered
<1>1. ASSUME SInv(n), service = "destroyed", NEW r \in Requests, stage[r] # "new"
      PROVE  answers[r] # <<>>
  <2>1. \A w \in Workers : pc[w] = "exited"
    BY <1>1 DEF SInv, Control, WorkersEnd
  <2> QED BY <1>1, <2>1, EndedAnswered
<1>2. SInv(n) => DestroyedAnswered
  BY <1>1 DEF DestroyedAnswered
<1> QED BY <1>2, ServiceInvariant, PTL

\* The service does what TranslationPromise allows and nothing else: a callback is
\* triggered once, with the translation of the text of its own call (service.cpp).
THEOREM PromiseKept ==
    ASSUME NEW n, BacklogFits(n), SegmentsFit, WorkersExist, ~ClearAllowed
    PROVE  Spec => TP!Init /\ [][TP!Next]_(TP!vars)
<1>1. Init => TP!Init
  BY MapInit
<1>2. SInv(n) /\ [Next]_vars => [TP!Next]_(TP!vars)
  BY MapStep
<1> QED BY <1>1, <1>2, ServiceInvariant, PTL DEF Spec
=============================================================================
