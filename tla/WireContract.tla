---------------------------- MODULE WireContract ----------------------------
(***************************************************************************)
(* The codec between the in-process models and the v1 wire form: names,    *)
(* dates, absent values, and what is refused.  Models are functions of all *)
(* the fields of their class; wire objects are functions of the keys that  *)
(* are there.  Values the codec passes on are opaque.  What the code walks *)
(* recursively is a function of positions: a nested value, of the          *)
(* positions of its leaves (an empty list or dictionary is a leaf); a      *)
(* filter, of the positions of its nodes.                                  *)
(***************************************************************************)
EXTENDS Integers, SequencesExt, PythonValues

MemoryKeys == {"id", "content", "scope", "kind", "createdAt", "updatedAt", "provenance", "metadata"}
ProvenanceKeys == {"source", "sourceUrl", "sourceId", "extractor"}
ResultKeys == {"memory", "score", "similarity", "rankingScore", "relevance", "version_id", "observed_at"}
PageKeys == {"results", "cursor", "retrieval"}
IngestResultKeys == {"created", "updated", "unchanged"}

MemoryFields == {"id", "content", "scope", "kind", "created_at", "updated_at", "provenance", "metadata"}
ProvenanceFields == {"source", "source_url", "source_id", "extractor"}
ResultFields == {"memory", "score", "similarity", "ranking_score", "relevance", "version_id", "observed_at"}
RequestFields == {"query", "scope", "limit", "threshold", "filter", "reranker"}

\* The fields of the models whose wire names differ.
MemoryNames == [created_at |-> "createdAt", updated_at |-> "updatedAt"]
ProvenanceNames == [source_url |-> "sourceUrl", source_id |-> "sourceId"]
ResultNames == [ranking_score |-> "rankingScore"]
FilterNames == [and_ |-> "and", or_ |-> "or", not_ |-> "not"]

Name(names, field) == IF field \in DOMAIN names THEN names[field] ELSE field

Renamed(data, names) ==
  [key \in {Name(names, f) : f \in DOMAIN data} |->
     data[CHOOSE f \in DOMAIN data : Name(names, f) = key]]

\* model_dump(exclude_none=True)
Dump(model) == [f \in {g \in DOMAIN model : model[g] # None} |-> model[f]]

\* model_validate(): what is absent is None; what is no field is ignored.
Validated(data, fields) == [f \in fields |-> IF f \in DOMAIN data THEN data[f] ELSE None]

Present(wire, key) == key \in DOMAIN wire /\ wire[key] # None

\* Mutant of ToIsoZ: a date without a zone is of the host's, an hour off.
ToIsoZLocal(d) == [tag |-> "iso", ms |-> d.clock - IF d.zone = None THEN 1 ELSE d.zone]

\* A date is a clock in milliseconds and microseconds and the offset of its
\* zone, None for a naive one.  The wire has milliseconds of UTC.
ToIsoZ(d) == [tag |-> "iso", ms |-> d.clock - IF d.zone = None THEN 0 ELSE d.zone]

FromIso(v) == [tag |-> "date", clock |-> v.ms, us |-> 0, zone |-> 0]

IsDate(leaf) == leaf.tag = "date"

\* _jsonify(): dates at any depth, nothing else, and nothing moves.
Jsonify(v) == [p \in DOMAIN v |-> IF IsDate(v[p]) THEN ToIsoZ(v[p]) ELSE v[p]]

-----------------------------------------------------------------------------
EncodeProvenance(p) == Renamed(Dump(p), ProvenanceNames)

ProvenanceRefused(wire) == DOMAIN wire \ ProvenanceKeys # {}

DecodeProvenance(wire) ==
  [f \in ProvenanceFields |->
     LET key == Name(ProvenanceNames, f) IN IF Present(wire, key) THEN wire[key] ELSE None]

EncodeField(f, value) ==
  IF f \in {"created_at", "updated_at"} THEN ToIsoZ(value)
  ELSE IF f = "provenance" THEN EncodeProvenance(value)
  ELSE IF f = "metadata" THEN Jsonify(value)
  ELSE value

EncodeMemory(m) == Renamed([f \in DOMAIN Dump(m) |-> EncodeField(f, m[f])], MemoryNames)

MemoryRefused(wire) ==
  \/ DOMAIN wire \ MemoryKeys # {}
  \/ \E key \in {"id", "content", "scope", "createdAt"} : ~Present(wire, key)
  \/ Present(wire, "provenance") /\ ProvenanceRefused(wire["provenance"])

DecodeField(f, value) ==
  IF f \in {"created_at", "updated_at"} THEN FromIso(value)
  ELSE IF f = "provenance" THEN DecodeProvenance(value)
  ELSE value

\* Mutant of DecodeMemory: one of the two dates keeps its wire name, which
\* validation ignores.
DecodeMemoryCreatedOnly(wire) ==
  [f \in MemoryFields |->
     LET key == Name([created_at |-> "createdAt"], f)
     IN  IF Present(wire, key) THEN DecodeField(f, wire[key]) ELSE None]

DecodeMemory(wire) ==
  [f \in MemoryFields |->
     LET key == Name(MemoryNames, f)
     IN  IF Present(wire, key) THEN DecodeField(f, wire[key]) ELSE None]

EncodeResult(r) ==
  Renamed([f \in DOMAIN Dump(r) |-> IF f = "memory" THEN EncodeMemory(r[f]) ELSE r[f]], ResultNames)

ResultRefused(wire) ==
  \/ DOMAIN wire \ ResultKeys # {}
  \/ ~Present(wire, "memory") \/ ~Present(wire, "score")
  \/ MemoryRefused(wire["memory"])

DecodeResult(wire) ==
  [f \in ResultFields |->
     LET key == Name(ResultNames, f)
     IN  IF ~Present(wire, key) THEN None
         ELSE IF f = "memory" THEN DecodeMemory(wire[key]) ELSE wire[key]]

\* The receipt passes as it is; keys it does not have are ignored, not refused.
ReceiptFields == {"embedding_provider", "candidate_ids", "trace_id"}

EncodePage(page) ==
  [key \in {"results"} \cup DOMAIN Dump(page) |->
     IF key = "results" THEN [i \in DOMAIN page.results |-> EncodeResult(page.results[i])]
     ELSE IF key = "retrieval" THEN Dump(page.retrieval)
     ELSE page[key]]

\* Absent results are none; a null is no list to go through.
PageRefused(wire) ==
  \/ DOMAIN wire \ PageKeys # {}
  \/ "results" \in DOMAIN wire /\ \/ wire["results"] = None
                                  \/ \E i \in DOMAIN wire["results"] : ResultRefused(wire["results"][i])
  \/ Present(wire, "retrieval") /\ ~Present(wire["retrieval"], "trace_id")

DecodePage(wire) ==
  [results |-> IF "results" \in DOMAIN wire
               THEN [i \in DOMAIN wire["results"] |-> DecodeResult(wire["results"][i])] ELSE <<>>,
   cursor |-> IF Present(wire, "cursor") THEN wire["cursor"] ELSE None,
   retrieval |-> IF Present(wire, "retrieval") THEN Validated(wire["retrieval"], ReceiptFields) ELSE None]

-----------------------------------------------------------------------------
\* A node of a filter is "and_", "or_" or "not_" of those below it, or a field,
\* which alone has an operand.
EncodeFilter(f) ==
  [p \in DOMAIN f |-> [op |-> Name(FilterNames, f[p].op),
                       value |-> IF f[p].value = None THEN None ELSE Jsonify(f[p].value)]]

\* Which class of node a wire object is.
NodeOf(op) == CHOOSE n \in DOMAIN FilterNames \cup {"field"} : Name(FilterNames, n) = op

DecodeFilter(wire) == [p \in DOMAIN wire |-> [op |-> NodeOf(wire[p].op), value |-> wire[p].value]]

EncodeRequest(r) ==
  [f \in DOMAIN Dump(r) |-> IF f = "filter" THEN EncodeFilter(r[f]) ELSE r[f]]

DecodeRequest(wire) ==
  [f \in RequestFields |->
     IF ~Present(wire, f) THEN None ELSE IF f = "filter" THEN DecodeFilter(wire[f]) ELSE wire[f]]

\* Text, messages and verbatim ingests; content stands for their messages too.
IngestRefused(i) == i.content_class # None /\ i.mode # "verbatim"

EncodeIngest(i) == [f \in DOMAIN Dump(i) |-> EncodeField(f, i[f])]

\* decode_ingest_result(): what is absent is the empty list.
IngestResultRefused(wire) == DOMAIN wire \ IngestResultKeys # {} \/ \E k \in DOMAIN wire : wire[k] = None

DecodeIngestResult(wire) == [k \in IngestResultKeys |-> IF k \in DOMAIN wire THEN wire[k] ELSE <<>>]

-----------------------------------------------------------------------------
\* What comes in: models, and JSON objects whose values are of the types that
\* validation demands.
IsModel(m, fields) == m = [f \in fields |-> m[f]]

IsObject(o) == IsModel(o, DOMAIN o)

IsProvenance(p) == p = None \/ IsModel(p, ProvenanceFields)

IsMemory(m) ==
  /\ IsModel(m, MemoryFields)
  /\ \A f \in {"id", "content", "scope", "created_at"} : m[f] # None
  /\ IsProvenance(m.provenance)

IsResult(r) == IsModel(r, ResultFields) /\ r.memory # None /\ r.score # None /\ IsMemory(r.memory)

IsPage(page) ==
  /\ IsModel(page, {"results", "cursor", "retrieval"})
  /\ \A i \in DOMAIN page.results : IsResult(page.results[i])
  /\ page.retrieval # None => IsModel(page.retrieval, ReceiptFields) /\ page.retrieval.trace_id # None

IsWireMemory(wire) ==
  /\ IsObject(wire)
  /\ \A key \in DOMAIN wire \cap {"createdAt", "updatedAt"} :
       wire[key] \in [tag : {"iso"}, ms : Int] \cup {None}
  /\ \A key \in DOMAIN wire \cap {"provenance", "metadata"} : wire[key] = None \/ IsObject(wire[key])
  /\ Present(wire, "metadata") => \A p \in DOMAIN wire["metadata"] : ~IsDate(wire["metadata"][p])

IsRequest(r) ==
  /\ IsModel(r, RequestFields)
  /\ r.filter # None => \A p \in DOMAIN r.filter : r.filter[p].op \in DOMAIN FilterNames \cup {"field"}

IngestFields(mode) ==
  {"mode", "content", "scope", "provenance", "metadata", "content_class"}
    \cup IF mode = "verbatim" THEN {"kind"} ELSE {}

IsIngest(i) == IsModel(i, IngestFields(i.mode)) /\ IsProvenance(i.provenance)

-----------------------------------------------------------------------------
\* What a model keeps on its way over the wire: dates in milliseconds of UTC,
\* as texts where the model does not know that they are dates.
OnTheWire(d) == [tag |-> "date", clock |-> d.clock - (IF d.zone = None THEN 0 ELSE d.zone),
                 us |-> 0, zone |-> 0]

SameValue(v, w) ==
  /\ DOMAIN w = DOMAIN v
  /\ \A p \in DOMAIN v : IF IsDate(v[p]) THEN w[p].tag = "iso" /\ w[p].ms = OnTheWire(v[p]).clock
                         ELSE w[p] = v[p]

SameOptional(v, w) == IF v = None THEN w = None ELSE w # None /\ SameValue(v, w)

SameMemory(m, n) ==
  /\ \A f \in MemoryFields \ {"created_at", "updated_at", "metadata"} : n[f] = m[f]
  /\ \A f \in {"created_at", "updated_at"} : n[f] = IF m[f] = None THEN None ELSE OnTheWire(m[f])
  /\ SameOptional(m.metadata, n.metadata)

\* A page that is encoded has but keys of the contract, is accepted by the
\* decoder, and comes back as it was, up to the dates.
PageSurvives(page, wire) ==
  /\ DOMAIN wire \subseteq PageKeys
  /\ \A i \in DOMAIN page.results : LET r == wire["results"][i] IN
       /\ DOMAIN r \subseteq ResultKeys /\ DOMAIN r["memory"] \subseteq MemoryKeys
       /\ "provenance" \in DOMAIN r["memory"] => DOMAIN r["memory"]["provenance"] \subseteq ProvenanceKeys
  /\ ~PageRefused(wire)
  /\ LET back == DecodePage(wire) IN
     /\ back.cursor = page.cursor /\ back.retrieval = page.retrieval
     /\ DOMAIN back.results = DOMAIN page.results
     /\ \A i \in DOMAIN page.results :
          /\ SameMemory(page.results[i].memory, back.results[i].memory)
          /\ \A f \in ResultFields \ {"memory"} : back.results[i][f] = page.results[i][f]

\* A wire memory is refused for any key that is not of the contract, in it or
\* in its provenance; one that is accepted is encoded again as it was, less
\* its nulls.
MemoryReturns(wire) ==
  MemoryRefused(wire) \/
       /\ DOMAIN wire \subseteq MemoryKeys
       /\ Present(wire, "provenance") => DOMAIN wire["provenance"] \subseteq ProvenanceKeys
       /\ LET again == EncodeMemory(DecodeMemory(wire))
          IN  /\ DOMAIN again = {k \in DOMAIN wire : wire[k] # None}
              /\ \A k \in DOMAIN again : again[k] = IF k = "provenance" THEN Dump(wire[k]) ELSE wire[k]

\* A filter comes back with the same nodes at the same places.
SameFilter(f, g) ==
  /\ DOMAIN g = DOMAIN f
  /\ \A p \in DOMAIN f : g[p].op = f[p].op /\ SameOptional(f[p].value, g[p].value)

RequestSurvives(r, wire) ==
  LET back == DecodeRequest(wire) IN
  /\ \A f \in RequestFields \ {"filter"} : back[f] = r[f]
  /\ IF r.filter = None THEN back.filter = None ELSE SameFilter(r.filter, back.filter)

\* What the schema of each mode of ingest knows.
IngestKeys(mode) ==
  {"mode", "content", "scope", "provenance", "metadata"}
    \cup IF mode = "verbatim" THEN {"kind", "content_class"} ELSE {}

\* An ingest is refused exactly when its schema would not know a field it has;
\* else what it has is sent.
IngestSurvives(i) ==
  IF IngestRefused(i) THEN ~({f \in DOMAIN i : i[f] # None} \subseteq IngestKeys(i.mode))
  ELSE LET wire == EncodeIngest(i) IN
       /\ DOMAIN wire \subseteq IngestKeys(i.mode)
       /\ \A f \in DOMAIN i : (i[f] # None) <=> f \in DOMAIN wire
       /\ i.provenance # None => DecodeProvenance(wire["provenance"]) = i.provenance
       /\ i.metadata # None => SameValue(i.metadata, wire["metadata"])
=============================================================================
