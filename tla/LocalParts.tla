----------------------------- MODULE LocalParts -----------------------------
(***************************************************************************)
(* The parts of the SDK that run in the caller's thread and share no       *)
(* state: a walk over list() pages, an event emitter, and the algorithms   *)
(* that take an input and return.  A behaviour is of one part; their state *)
(* spaces add up.                                                          *)
(***************************************************************************)
EXTENDS ListWalk, Events, Algorithms, WireContract

CONSTANTS ResultPages, WireMemories, Requests, Ingests, IngestAnswers \* of the codec

ASSUME CodecAssumption ==
  /\ \A page \in ResultPages : IsPage(page)
  /\ \A wire \in WireMemories : IsWireMemory(wire)
  /\ \A r \in Requests : IsRequest(r)
  /\ \A i \in Ingests : IsIngest(i)

VARIABLE part \* "walk", "emitter" or "algorithm"

localVars == <<part, job>>
allVars == <<walkVars, eventVars, localVars>>

NoWalk ==
  /\ kind = None /\ rows = <<>> /\ limit = None /\ cursor = None /\ over = TRUE
  /\ seen = {} /\ repeats = 0 /\ added = {} /\ deleted = {}

LocalInit ==
  /\ AlgorithmInit
  /\ EventsInit
  /\ \/ part = "walk" /\ WalkInit
     \/ part \in {"emitter", "algorithm"} /\ NoWalk

Walks == part = "walk" /\ WalkNext /\ UNCHANGED <<eventVars, localVars>>

Emits == part = "emitter" /\ EventsNext /\ UNCHANGED <<walkVars, localVars>>

EncodesPage == \E page \in ResultPages : Returns("page", page, EncodePage(page))

DecodesMemory == \E wire \in WireMemories :
  Returns("memory", wire, IF MemoryRefused(wire) THEN None ELSE DecodeMemory(wire))

EncodesRequest == \E r \in Requests : Returns("request", r, EncodeRequest(r))

EncodesIngest == \E i \in Ingests :
  Returns("ingest", i, IF IngestRefused(i) THEN None ELSE EncodeIngest(i))

DecodesAnswer == \E wire \in IngestAnswers :
  Returns("answer", wire, IF IngestResultRefused(wire) THEN None ELSE DecodeIngestResult(wire))

CodecNext ==
  /\ job = None
  /\ EncodesPage \/ DecodesMemory \/ EncodesRequest \/ EncodesIngest \/ DecodesAnswer

Calculates ==
  /\ part = "algorithm"
  /\ AlgorithmNext \/ CodecNext
  /\ UNCHANGED <<part, walkVars, eventVars>>

LocalNext == Walks \/ Emits \/ Calculates

\* The caller of list() goes on while it has a cursor.
LocalSpec == /\ LocalInit /\ [][LocalNext]_allVars
             /\ WF_allVars(Walks /\ \E l \in Limits : List(l))

-----------------------------------------------------------------------------
\* What goes over the wire comes back; what the contract does not know is
\* neither sent nor accepted.
CodecRoundTrips ==
  /\ Did("page") => PageSurvives(job.in, job.out)
  /\ Did("memory") => MemoryReturns(job.in)
  /\ Did("request") => RequestSurvives(job.in, job.out)
  /\ Did("ingest") => IngestSurvives(job.in)
  /\ Did("answer") /\ job.out # None => \A k \in DOMAIN job.in : job.out[k] = job.in[k]
=============================================================================
