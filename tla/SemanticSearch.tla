--------------------------- MODULE SemanticSearch ---------------------------
(***************************************************************************)
(* SemanticSearch.search(): score the stored contexts, select the most     *)
(* similar ones, rerank those.  Similarities are integers, in hundredths;  *)
(* the factors of the reranking are integers too, so that a final score    *)
(* carries FactorScale.  Rounding of floating-point numbers is left out.   *)
(***************************************************************************)
EXTENDS Integers, SequencesExt, PythonValues

CONSTANTS DefaultTopK, MaxResults, DefaultThreshold, RerankingEnabled

\* A stored context: its similarity to the query if both have a norm (zero if
\* its own is zero), the length of its content, how old it is, and whether the
\* filter of the call lets it pass.
StoredContexts == [id : Nat, similarity : Int, length : {"short", "medium", "long"},
                   age : {"recent", "old"}, passes : BOOLEAN]

\* A query's embedding is "fine", "empty", "zero", or "wide": of another width.

\* batch_cosine_similarity(); a query of another width raises.
Similarities(query, contexts) ==
  [i \in DOMAIN contexts |-> IF query \in {"empty", "zero"} THEN 0 ELSE contexts[i].similarity]

\* Those of the indices that come before i in the order by descending key,
\* equal ones in their own order.
Ahead(key, indices, i) == {j \in indices : key[j] > key[i] \/ (key[j] = key[i] /\ j < i)}

\* The indices in this order: as many are ahead of one as its place says.
ByKey(key, indices) ==
  [n \in 1..Cardinality(indices) |->
     CHOOSE i \in indices : Cardinality(Ahead(key, indices, i)) = n - 1]

\* Mutant of RankBySimilarity: the threshold is exclusive.
RankAboveThreshold(similarities, threshold) ==
  ByKey(similarities, {i \in DOMAIN similarities : threshold = None \/ similarities[i] > threshold})

\* rank_by_similarity(): what the threshold leaves keeps its order.
RankBySimilarity(similarities, threshold) ==
  ByKey(similarities, {i \in DOMAIN similarities : threshold = None \/ similarities[i] >= threshold})

\* Python's s[:k], which for a negative k leaves out the last ones.
Upto(s, k) == SubSeq(s, 1, IF k >= 0 THEN Min({k, Len(s)}) ELSE Len(s) + k)

\* The default of RankingConfig: short_boost 1.1, long_penalty 0.9,
\* recency_boost 1.05, score_cap 1.
LengthFactor(c) == CASE c.length = "short" -> 11 [] c.length = "long" -> 9 [] OTHER -> 10

RecencyFactor(c) == IF c.age = "recent" THEN 105 ELSE 100

FactorScale == 10 * 100

ScoreCap == 100 * FactorScale

AdjustedScore(c, score) == Min({score * LengthFactor(c) * RecencyFactor(c), ScoreCap})

\* Mutant of Rerank: the first of the results that look alike.
RerankByContent(results) ==
  LET adjusted == [i \in DOMAIN results |-> AdjustedScore(results[i].context, results[i].score)]
      Place(i) == Min({j \in DOMAIN results : /\ results[j].context.length = results[i].context.length
                                              /\ adjusted[j] = adjusted[i]})
  IN  [n \in DOMAIN results |->
        LET i == ByKey(adjusted, DOMAIN results)[n]
        IN  [context |-> results[Place(i)].context, score |-> adjusted[i]]]

\* rerank() and _apply_rerank(): the results by their adjusted scores.
Rerank(results) ==
  LET adjusted == [i \in DOMAIN results |-> AdjustedScore(results[i].context, results[i].score)]
  IN  [n \in DOMAIN results |->
        LET i == ByKey(adjusted, DOMAIN results)[n]
        IN  [context |-> results[i].context, score |-> adjusted[i]]]

Given(value, default) == IF value = None THEN default ELSE value

\* The contexts search() scores, in their order.  The positions of the pool are
\* the identities.
Candidates(pool, filtered) ==
  LET passing == ByKey([i \in DOMAIN pool |-> 0], {i \in DOMAIN pool : filtered => pool[i].passes})
  IN  [n \in DOMAIN passing |-> [pool[passing[n]] EXCEPT !.id = passing[n]]]

\* A call is a record of query, topK, threshold, filtered, reranked.
SearchRaises(pool, call) == call.query = "wide" /\ Candidates(pool, call.filtered) # <<>>

Search(pool, call) ==
  LET candidates == Candidates(pool, call.filtered)
      similarities == Similarities(call.query, candidates)
      ranked == Upto(RankBySimilarity(similarities, Given(call.threshold, DefaultThreshold)),
                     Min({Given(call.topK, DefaultTopK), MaxResults}))
      primary == [n \in DOMAIN ranked |->
                    [context |-> candidates[ranked[n]], score |-> similarities[ranked[n]]]]
  IN  IF Given(call.reranked, RerankingEnabled) THEN Rerank(primary) ELSE primary

\* find_top_k(), without metadata: the indices.
FindTopK(query, candidates, k, threshold) ==
  IF k <= 0 THEN <<>> ELSE Upto(RankBySimilarity(Similarities(query, candidates), threshold), k)

-----------------------------------------------------------------------------
\* search() returns as many of the contexts that pass the filter and reach the
\* threshold as asked for, none twice, none while a more similar one is left
\* out, each with the score that its own content and age give it, in
\* descending order of the scores.
ReturnsTheBest(pool, call, results) ==
  LET Similarity(i) == IF call.query \in {"empty", "zero"} THEN 0 ELSE pool[i].similarity
      eligible == {i \in DOMAIN pool : /\ call.filtered => pool[i].passes
                                       /\ Similarity(i) >= Given(call.threshold, DefaultThreshold)}
      returned == {results[n].context.id : n \in DOMAIN results}
      k == Min({Given(call.topK, DefaultTopK), MaxResults})
  IN  /\ returned \subseteq eligible
      /\ Cardinality(returned) = Len(results)
      /\ k >= 0 => Len(results) = Min({k, Cardinality(eligible)})
      /\ \A i \in returned, j \in eligible \ returned : Similarity(i) >= Similarity(j)
      /\ \A n \in DOMAIN results :
           LET i == results[n].context.id IN
           results[n].score = IF Given(call.reranked, RerankingEnabled)
                              THEN AdjustedScore(pool[i], Similarity(i)) ELSE Similarity(i)
      /\ \A n \in 2..Len(results) : results[n - 1].score >= results[n].score
=============================================================================
