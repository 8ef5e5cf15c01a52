---------------------------- MODULE MCLocalParts ----------------------------
(* LocalParts on lists of up to four memories, of five there can be, and   *)
(* on small inputs of each algorithm.                                      *)
EXTENDS LocalParts

ListsDef == {<<>>, <<1, 2>>, <<1, 2, 3>>, <<1, 2, 3, 4>>}

TextsDef == UNION {[1..n -> Characters] : n \in 0..7}

ChunkOptionsDef == [size : 0..4, overlap : -1..3, words : BOOLEAN, separator : {" "}, min : {None, 1, 2, 3}]

GroupCallsDef == [n : 0..6, max : 1..4, overlap : 0..4]

Context(s, l, a, p) == [id |-> 0, similarity |-> s, length |-> l, age |-> a, passes |-> p]

Contexts == {Context(95, "short", "recent", TRUE), Context(92, "short", "recent", TRUE),
             Context(96, "long", "old", TRUE), Context(60, "medium", "old", FALSE),
             Context(60, "medium", "recent", TRUE), Context(10, "short", "old", TRUE),
             Context(0, "short", "recent", TRUE)}

PoolsDef == UNION {[1..n -> Contexts] : n \in 0..3}

SearchCallsDef ==
  [query : {"fine"}, topK : {None, -1, 0, 1, 2}, threshold : {None, 0, 60},
   filtered : BOOLEAN, reranked : {None, FALSE}]
    \cup [query : {"empty", "zero", "wide"}, topK : {None, 2}, threshold : {None, 0},
          filtered : BOOLEAN, reranked : {FALSE}]

Hit(i, n, f) == [id |-> i, length |-> n, finite |-> f]

HitsDef == {Hit("a", 0, TRUE), Hit("b", 2, TRUE), Hit("c", 3, TRUE), Hit("d", 4, TRUE),
         Hit(None, 1, TRUE), Hit("e", 1, FALSE)}

PagesDef == UNION {[1..n -> HitsDef] : n \in 0..3}

Text(k, n, b) == [kind |-> k, length |-> n, blank |-> b]

FineText == Text("text", 1, FALSE)

ToolTexts == {None, FineText, Text("text", 0, TRUE), Text("text", 2, TRUE), Text("text", 5, FALSE),
              Text("other", 1, FALSE)}

Call(t, x, l, e, c) == [tool |-> t, args |-> [text |-> x, limit |-> l, extra |-> e], client |-> c]

ToolCallsDef ==
  {Call(t, x, None, e, "returns") : t \in {"ingest", "search"}, x \in ToolTexts, e \in BOOLEAN}
    \cup {Call("search", FineText, l, FALSE, "returns") : l \in {0, 1, 3, 4}}
    \cup {Call(t, FineText, None, FALSE, c) : t \in {"ingest", "search"}, c \in {"raises", "cancelled"}}

UsersDef == {x @@ [project |-> p] : x \in ToolTexts \ {None}, p \in BOOLEAN}

FactsDef == SUBSET {"p", "d", "q"}

FactListsDef == UNION {[1..n -> SUBSET {"p", "d"}] : n \in 0..3}

FilterConfigsDef == [enabled : BOOLEAN, patterns : {None, <<>>, <<"p">>, <<"q", "p">>},
                     mode : {"replace", "extend"}, onDrop : {None, "returns", "raises"}]

DefaultPatternsDef == <<"d">>

Date(c, u, z) == [tag |-> "date", clock |-> c, us |-> u, zone |-> z]

Dates == {Date(5, 0, None), Date(5, 7, 2), Date(6, 0, 0)}

Plain == [tag |-> "plain"]

\* Of a dictionary: a date, or one in a list with something else.
Metadata == {<<1>> :> Plain, <<1>> :> Date(5, 7, 2), (<<1, 1>> :> Date(5, 0, None)) @@ (<<1, 2>> :> Plain)}

ProvenancesDef ==
  {None} \cup [source : {None, "s"}, source_url : {None, "u"}, source_id : {"i"}, extractor : {None}]

Memory(c, u, k, p, v) ==
  [id |-> "m", content |-> "text", scope |-> "scope", kind |-> k, created_at |-> c, updated_at |-> u,
   provenance |-> p, metadata |-> v]

SomeMemories == {Memory(c, u, k, p, v) : c \in Dates, u \in {None, Date(6, 0, 0), Date(5, 0, None)},
                   k \in {None, "fact"}, p \in ProvenancesDef, v \in {None} \cup Metadata}

Result(m, r, v) ==
  [memory |-> m, score |-> 1, similarity |-> None, ranking_score |-> r, relevance |-> None,
   version_id |-> v, observed_at |-> None]

FineResult == Result(Memory(Date(5, 0, 0), None, None, None, None), 2, "v")

ResultLists ==
  {<<>>} \cup {<<Result(m, r, v)>> : m \in SomeMemories, r \in {None, 2}, v \in {None, "v"}}
         \cup {<<FineResult, Result(m, None, None)>> : m \in SomeMemories}

ResultPagesDef ==
  [results : ResultLists, cursor : {None, "3"},
   retrieval : {None, [embedding_provider |-> None, candidate_ids |-> <<"m">>, trace_id |-> "t"]}]

Wires == {EncodeMemory(m) : m \in {n \in SomeMemories : n.kind = "fact"}}

\* With a key more, a key less, a null, or a key more in the provenance.
WireMemoriesDef ==
  Wires \cup {w @@ (k :> "x") : w \in Wires, k \in {"created_at", "source_url"}}
    \cup UNION {{[j \in DOMAIN w \ {k} |-> w[j]] : k \in DOMAIN w} : w \in Wires}
    \cup UNION {{[w EXCEPT ![k] = None] : k \in DOMAIN w} : w \in Wires}
    \cup {[w EXCEPT !["provenance"] = @ @@ ("source_id" :> "x")] :
            w \in {v \in Wires : "provenance" \in DOMAIN v}}

Field(v) == [op |-> "field", value |-> v]

Node(o) == [op |-> o, value |-> None]

\* A date, something else, a list of two, nothing.
Operands == {<<>> :> Date(5, 7, 2), <<>> :> Plain, (<<1>> :> Plain) @@ (<<2>> :> Plain), None}

Filters == {<<>> :> Field(v) : v \in Operands}
             \cup {(<<>> :> Node(o)) @@ (<<1>> :> Field(v)) @@ (<<2>> :> Node("not_")) @@ (<<2, 1>> :> Field(w)) :
                     o \in {"and_", "or_"}, v \in Operands, w \in Operands}

RequestsDef == [query : {"q"}, scope : {"scope"}, limit : {None, 3}, threshold : {None, 1},
                filter : {None} \cup Filters, reranker : {None}]

IngestsDef ==
  [mode : {"text", "messages"}, content : {"c"}, scope : {"scope"}, provenance : ProvenancesDef,
   metadata : {None} \cup Metadata, content_class : {None, "raw"}]
    \cup [mode : {"verbatim"}, content : {"c"}, scope : {"scope"}, provenance : ProvenancesDef,
          metadata : {None} \cup Metadata, content_class : {None, "raw"}, kind : {None, "fact"}]

IngestAnswersDef ==
  UNION {[keys -> {<<>>, <<"m">>, None}] : keys \in SUBSET {"created", "updated", "unchanged", "deleted"}}
=============================================================================
