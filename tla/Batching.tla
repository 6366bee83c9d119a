------------------------------ MODULE Batching ------------------------------
(***************************************************************************)
(* How a BatchingPool of the Bergamot inference engine orders sentences    *)
(* and which of them one call of generateBatch takes                       *)
(* (inference/src/translator/batching_pool.cpp).                           *)
(*                                                                         *)
(* A sentence is a record [request, index, tokens]: the address of its     *)
(* Request, its place among the segments of the request, and its length in *)
(* tokens.  The buckets of the pool are keyed by length, and a bucket is a *)
(* std::set ordered by operator< of RequestSentence, which compares the    *)
(* ADDRESS of the request (a shared_ptr) and then the index.               *)
(***************************************************************************)
EXTENDS Naturals, FiniteSets

\* The order in which generateBatch visits the sentences of a pool: bucket by
\* bucket (by length), and inside a bucket in the order of operator<.
Before(a, b) ==
    \/ a.tokens < b.tokens
    \/ /\ a.tokens = b.tokens
       /\ \/ a.request < b.request
          \/ a.request = b.request /\ a.index < b.index

\* s is the k-th sentence of P that the loop meets.
Position(s, P) == Cardinality({u \in P : u = s \/ Before(u, s)})

\* The batch drawn from the pool P when a batch may hold "budget" words,
\* padding included.  The k-th sentence, of length n, enters the batch when
\* k * n <= budget; the loop returns at the first one that does not fit, and
\* every later one is at least as long.
Draw(P, budget) == {s \in P : Position(s, P) * s.tokens <= budget}

\* s is the next sentence of P.
IsFirst(s, P) == s \in P /\ \A u \in P : u = s \/ Before(s, u)
=============================================================================
