----------------------------- MODULE Algorithms -----------------------------
(***************************************************************************)
(* The algorithms of the SDK that take an input and return: chunking,      *)
(* semantic search, the tools for a language model and the filter of       *)
(* meta-facts.  They share no state: a behaviour is one call of one of     *)
(* them.                                                                   *)
(***************************************************************************)
EXTENDS Chunking, SemanticSearch, ModelTools

CONSTANTS Characters, Texts, ChunkOptions, \* of chunk_text()
          GroupCalls,                      \* of chunk_by_sentences() and chunk_by_paragraphs()
          Pools, SearchCalls,              \* of SemanticSearch.search()
          Hits, Pages, ToolCalls,          \* what a backend answers a tool, and its calls
          Users,
          Facts, FactLists, FilterConfigs, DefaultPatterns

ASSUME ChunkingAssumption ==
  /\ \A t \in Texts : t \in Seq(Characters)
  /\ \A o \in ChunkOptions : o \in [size : Int, overlap : Int, words : BOOLEAN,
                                    separator : Characters, min : Int \cup {None}]
  /\ \A c \in GroupCalls : c.n \in Nat /\ c.max \in Nat /\ c.overlap \in Nat

ASSUME SearchAssumption ==
  /\ \A p \in Pools : p \in Seq(StoredContexts)
  /\ \A c \in SearchCalls : /\ c.query \in {"fine", "empty", "zero", "wide"}
                           /\ c.topK \in Int \cup {None} /\ c.threshold \in Int \cup {None}
  /\ DefaultTopK \in Int /\ MaxResults \in Int /\ DefaultThreshold \in Int /\ None \notin Int

ASSUME ToolsAssumption ==
  /\ \A p \in Pages : p \in Seq(Hits)
  /\ \A h \in Hits : h.length \in Nat
  /\ MaxHitContent \in Nat /\ MaxTotalContent \in Nat /\ DefaultLimit \in Nat /\ MaxSearchLimit \in Nat
  /\ None \notin {"MemoryToolError", "CancelledError"}

ASSUME FactsAssumption ==
  /\ \A s \in FactLists : s \in Seq(Facts)
  /\ DefaultPatterns \in Seq(UNION Facts)
  /\ \A c \in FilterConfigs : c.patterns \in Seq(UNION Facts) \cup {None}

VARIABLE job \* the algorithm's input and what it returned, None before

Returns(name, input, output) == job' = [name |-> name, in |-> input, out |-> output]

\* chunk_text_with_metadata()
Chunks == \E t \in Texts, o \in ChunkOptions :
  Returns("chunks", [text |-> t, options |-> o],
          IF t # <<>> /\ OptionsRefused(o) THEN None ELSE ChunkText(t, o))

GroupsUnits == \E c \in GroupCalls : Returns("groups", c, Groups(c.n, c.max, c.overlap))

Searches == \E pool \in Pools, c \in SearchCalls :
  Returns("search", [pool |-> pool, call |-> c], IF SearchRaises(pool, c) THEN None ELSE Search(pool, c))

FindsTopK == \E pool \in Pools, c \in SearchCalls :
  /\ c.query # "wide" /\ c.topK # None /\ ~c.filtered /\ c.reranked = FALSE
  /\ Returns("topk", [pool |-> pool, query |-> c.query, k |-> c.topK, threshold |-> c.threshold],
             FindTopK(c.query, Candidates(pool, FALSE), c.topK, c.threshold))

\* memory_tools() for a user, then one call of one of them.
CallsTool == \E user \in Users, c \in ToolCalls, page \in Pages :
  /\ UserAccepted(user)
  /\ Returns("tool", [call |-> c, page |-> page], Execute(c.tool, c.args, c.client, page))

FiltersFacts == \E items \in FactLists, config \in FilterConfigs :
  Returns("facts", [items |-> items, config |-> config], FilterMetaFacts(items, config, DefaultPatterns))

AlgorithmInit == job = None

AlgorithmNext ==
  /\ job = None
  /\ Chunks \/ GroupsUnits \/ Searches \/ FindsTopK \/ CallsTool \/ FiltersFacts

AlgorithmSpec == AlgorithmInit /\ [][AlgorithmNext]_job

-----------------------------------------------------------------------------
Did(name) == job # None /\ job.name = name

\* search() of the local store, and find_top_k(), return the best there is.
SearchReturnsTheBest ==
  /\ Did("search") /\ job.out # None => ReturnsTheBest(job.in.pool, job.in.call, job.out)
  /\ Did("topk") => LET Similarity(i) == IF job.in.query = "fine" THEN job.in.pool[i].similarity ELSE 0
                    IN  \A n \in DOMAIN job.out, i \in DOMAIN job.in.pool :
                          Similarity(i) > Similarity(job.out[n]) => \E m \in 1..n : job.out[m] = i

\* Nothing of a text, of an answer to a tool or of a list of facts gets lost
\* without a sign: chunks and groups cover what they were made from, a tool
\* says what it cut, the filter of meta-facts tells what it dropped.
NothingLostUntold ==
  /\ Did("chunks") /\ job.out # None => ChunksCover(job.in.text, job.in.options, job.out)
  /\ Did("groups") => GroupsCover(job.in.n, job.in.max, job.in.overlap, job.out)
  /\ Did("tool") => ToolAnswers(job.in.call.tool, job.in.call.args, job.in.call.client, job.in.page, job.out)
  /\ Did("facts") => FilterDrops(job.in.items, job.in.config, DefaultPatterns, job.out)
=============================================================================
