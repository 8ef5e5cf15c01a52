----------------------- MODULE AggregateClientProofs -----------------------
(***************************************************************************)
(* What the error codes and the answers of the aggregate client tell, for  *)
(* any number of callers and of close() calls, any artifacts, entities,    *)
(* scopes and memories.  The invariant says of each call, by its place,    *)
(* what it asked for and what its request met: a call keeps both only      *)
(* until it is answered, and the answer must agree with them.              *)
(***************************************************************************)
EXTENDS AggregateClient, SequenceTheorems, TLAPS

CallFields == {"pc", "ns", "op", "arg", "fate", "reply", "error", "value", "saw"}

IsCall(k) == k = [f \in CallFields |-> k[f]]

-----------------------------------------------------------------------------
(* What a call asks for.                                                   *)

Reads == {"get", "get_content", "stream_content", "head", "verify"}
Contents == {"get_content", "stream_content"}
There == {"pointer", "managed"}

StorageArgOK(op, arg) ==
  \/ op = "capabilities"
  \/ op = "put" /\ arg.input \in There
  \/ op \in Reads \cup {"delete"} /\ arg.id \in Artifacts

EntitiesArgOK(op, arg) ==
  \/ op = "list" /\ \E page \in {None, 0, 1} : arg = ListRequest(page)
  \/ \E e \in Entities :
       \/ op = "profile" /\ arg = ProfileRequest(e)
       \/ op = "get" /\ arg = GetRequest(e)
       \/ op = "delete" /\ arg = DeleteRequest(e)
       \/ op = "attributes" /\ \E limit \in {None, 0} : arg = AttributesRequest(e, limit)
       \/ op = "memory_history" /\ \E m \in Memories : arg = MemoryHistoryRequest(e, m)
       \/ op = "patch_settings" /\ \E given \in [Settings -> Values \cup {None}] :
                                      arg = PatchSettingsRequest(e, given)
       \/ op = "merge" /\ \E target \in Entities : arg = MergeRequest(e, target)

RowRoutes == {"ingest", "search", "expand", "list", "get", "delete"}
AdminOps == Categories \cup {"lessons", "lesson_stats", "report", "delete_lesson", "health", "update_config",
                             "set_trust", "get_trust", "conflicts", "resolve", "auto_resolve"}

\* An operation on memories sends the scope it was given as far as its route
\* knows of it.
ScopedArgOK(op, asked, sent) ==
  /\ op \in RowRoutes /\ sent.route = op
  /\ asked.scope \in Scopes /\ asked.user = asked.scope.user
  /\ sent.user = asked.scope.user /\ sent.workspace = asked.scope.workspace
  /\ op = "ingest" =>
       /\ sent.agent = asked.scope.agent /\ sent.thread = asked.scope.thread
       /\ asked.more \in Visibilities
       /\ asked.scope.kind = "workspace" => sent.visibility = asked.more
       /\ asked.scope.kind # "workspace" => asked.more = None
  /\ op \in {"search", "list", "ingest"} => asked.ids = {}
  /\ op = "search" => sent.agent_scope = asked.scope.agent_scope /\ sent.agent = asked.scope.agent
  /\ op = "list" => sent.site = IF asked.more = "" THEN None ELSE asked.more
  /\ op \in {"expand", "get", "delete"} => sent.ids = asked.ids
  /\ op = "delete" => \E i \in MemoryIds : asked.ids = {i}

\* An administrative operation sends whom it is about and whether it is for
\* show.
AdminArgOK(op, asked, sent) ==
  /\ op \in AdminOps /\ sent.route \notin RowRoutes
  /\ asked.scope = None
  /\ op \notin UnquotedReads \cup {"resolve"} => sent.user = asked.user
  /\ sent.route \in {"consolidate", "decay", "reconcile", "reset-source"} => sent.user = asked.user
  /\ sent.route = "lessons/delete" => op = "delete_lesson"
  /\ op = "consolidate" <=> sent.route = "consolidate"
  /\ op = "consolidate" => asked.more \in BOOLEAN /\ sent.execute = IF asked.more THEN TRUE ELSE None
  /\ op = "decay" <=> sent.route = "decay"
  /\ op = "decay" => asked.more \in BOOLEAN /\ sent.dry_run = IF asked.more THEN FALSE ELSE None
  /\ op = "update_config" <=> sent.route = "config"
  /\ op = "update_config" =>
       /\ DOMAIN asked.more = {"threshold", "results"}
       /\ sent.updates = [f \in {g \in {"threshold", "results"} : asked.more[g] # None} |-> asked.more[f]]

HandleArgOK(op, arg) == ScopedArgOK(op, arg.asked, arg.sent) \/ AdminArgOK(op, arg.asked, arg.sent)

ArgOK(ns, op, arg) ==
  \/ ns = "storage" /\ StorageArgOK(op, arg)
  \/ ns = "entities" /\ EntitiesArgOK(op, arg)
  \/ ns = "memory" /\ HandleArgOK(op, arg)

-----------------------------------------------------------------------------
(* What the answer on its way says of what the request met.                *)

StorageDone(op, arg, reply, saw) ==
  \/ op = "capabilities" /\ saw = None
  \/ op = "put" /\ reply.mode = arg.input /\ saw.mode = arg.input
  \/ /\ op \in Reads /\ saw.mode \in There /\ (op \in Contents => saw.mode = "managed")
     /\ reply.id = arg.id /\ reply.mode = saw.mode /\ reply.kind = saw.kind
  \/ op = "delete" /\ saw.mode \in There /\ reply.cascaded = saw.references

StorageRefused(op, arg, reply, saw) ==
  LET told(status, code) ==
        reply.status = status /\ reply.code = IF op = "head" THEN None ELSE code IN
  /\ "count" \in DOMAIN reply
  /\ \/ op = "put" /\ told(501, "filecoin_direct_storage_not_yet_supported") /\ saw.mode \in There
     \/ op \in Reads \cup {"delete"} /\ saw.mode \in {"free", "gone"} /\ told(404, "artifact_not_found")
     \/ op \in Reads \cup {"delete"} /\ saw.mode \in There /\ told(400, "unsupported_capability")
     \/ /\ op = "delete" /\ saw.mode \in There /\ told(409, "artifact_in_use")
        /\ arg.policy # "with_documents" /\ reply.count = Cardinality(saw.references)
     \/ op \in Contents /\ saw.mode = "pointer" /\ told(409, "pointer_content_not_managed")

StorageReplyOK(op, arg, fate, reply, saw) ==
  \/ fate = "done" /\ reply.status = 200 /\ StorageDone(op, arg, reply, saw)
  \/ fate = "refused" /\ StorageRefused(op, arg, reply, saw)

EntitiesReplyOK(op, arg, fate, reply) ==
  \/ /\ fate = "done" /\ reply.status = 200
     /\ {"op", "id"} \subseteq DOMAIN reply.value
     /\ reply.value.op = op /\ reply.value.id = arg.meant.id
  \/ fate = "refused" /\ reply.status = 422

\* A memory that is told was one of those asked for.
RawOK(op, asked, m, row) ==
  /\ asked.ids # {} => m.id \in asked.ids
  /\ row.workspace = asked.scope.workspace
  /\ asked.scope.workspace = None => row.user = asked.scope.user
  /\ m.session \in {None, row.thread}
  /\ op = "search" /\ asked.scope.agent_scope = "self" => row.agent = asked.scope.agent
  /\ op = "list" /\ asked.more = "site" => row.site = "site"

HandleReplyOK(op, arg, fate, reply, saw) ==
  \/ /\ fate = "done"
     /\ reply = [status |-> 200, raws |-> reply.raws, user |-> arg.sent.user, ids |-> reply.ids]
     /\ op \in {"search", "list", "expand", "get"} =>
          \A m \in reply.raws : RawOK(op, arg.asked, m, saw.rows[m.id])
     /\ op = "consolidate" => reply.ids = arg.asked.more
  \/ /\ fate = "refused"
     /\ reply.status \in {404, 422, 429}
     /\ reply.status = 404 => op \in {"get", "delete", "delete_lesson"}

ReplyOK(ns, op, arg, fate, reply, saw) ==
  \/ ns = "storage" /\ StorageReplyOK(op, arg, fate, reply, saw)
  \/ ns = "entities" /\ EntitiesReplyOK(op, arg, fate, reply)
  \/ ns = "memory" /\ HandleReplyOK(op, arg, fate, reply, saw)

-----------------------------------------------------------------------------
(* The invariant.                                                          *)

\* How a call may end that knows nothing of its request.
Unknowing == {"network_error", "CancelledError", "http_502", "ProviderError", "entities_request_failed"}

\* The errors an operation may raise before it sends anything.
Complaints(ns, op) ==
  LocalErrors \cup {e \in {"ValueError"} : ns = "memory" /\ op \in {"list", "update_config"}}

\* AnswerTellsFate, of one call; and what a call may not say while its
\* request may still be served.
Told(ns, op, fate, error) ==
  /\ error \in LocalErrors => fate = "unsent"
  /\ error \in {None, "invalid_storage_response", "invalid_head_response", "invalid_entities_response",
                "AttributeError", "KeyError", "TypeError", "ValueError"}
       => \/ fate = "done"
          \/ fate = "refused" /\ op \in {"get", "delete"} /\ ns = "memory"
          \/ error = "ValueError" /\ fate = "unsent" /\ op \in {"list", "update_config"} /\ ns = "memory"
  /\ error \in {"artifact_in_use", "artifact_not_found", "pointer_content_not_managed",
                "filecoin_direct_storage_not_yet_supported", "unsupported_capability", "RateLimitError"}
       => fate = "refused"
  /\ fate = "sent" => error \in Unknowing

CallOK(k) ==
  /\ IsCall(k)
  /\ k.pc \in {"idle", "waiting", "streaming", "ended"}
  /\ k.fate \in {"unsent", "sent", "done", "refused"}
  /\ k.pc = "idle" => k.fate = "unsent" /\ k.saw = None
  /\ k.fate = "sent" => ArgOK(k.ns, k.op, k.arg) /\ k.pc \in {"waiting", "ended"}
  /\ k.pc = "waiting" =>
       /\ ArgOK(k.ns, k.op, k.arg)
       /\ k.fate = "sent" => k.reply = None /\ k.saw = None
       /\ k.fate # "sent" => ReplyOK(k.ns, k.op, k.arg, k.fate, k.reply, k.saw)
  /\ k.pc = "streaming" => k.ns = "storage" /\ k.op = "stream_content" /\ k.fate = "done" /\ k.saw.mode = "managed"
  /\ k.pc = "ended" => Told(k.ns, k.op, k.fate, k.error)

CallsOK == call = [c \in Callers |-> call[c]] /\ \A c \in Callers : CallOK(call[c])

CoreOK ==
  /\ core = [f \in {"rows", "trust", "lessons", "conflicts", "config"} |-> core[f]]
  /\ core.rows = [i \in MemoryIds |-> core.rows[i]]
  /\ core.config = [f \in {"threshold", "results"} |-> core.config[f]]

ArtifactsOK == artifacts \in [Artifacts -> {"free", "pointer", "managed", "gone"}]

EntitiesOK ==
  /\ settings = [e \in Entities |-> settings[e]]
  /\ \A e \in Entities : settings[e] = [f \in Settings |-> settings[e][f]]
  /\ memories = [e \in Entities |-> memories[e]]

\* The first error of those there were, None without any.
FirstError(outcomes, first) ==
  /\ first = None <=> \A i \in DOMAIN outcomes : outcomes[i] = None
  /\ \A i \in DOMAIN outcomes :
       outcomes[i] # None /\ (\A j \in 1..(i - 1) : outcomes[j] = None) => first = outcomes[i]

\* A closer has been to the namespaces before the one it is in, and left
\* none of them open but a memory namespace that did not let itself be closed.
CloserOK(k) ==
  /\ k = [f \in {"pc", "first", "outcomes"} |-> k[f]]
  /\ k.pc \in 0..4
  /\ k.outcomes \in Seq({None, "error", "CancelledError"})
  /\ Len(k.outcomes) = IF k.pc = 0 THEN 0 ELSE k.pc - 1
  /\ FirstError(k.outcomes, k.first)
  /\ k.pc # 0 => built = "yes"
  /\ \A i \in 1..3 : i < k.pc /\ open[NamespaceOrder[i]] => i = 1 /\ k.outcomes[1] # None

ClosersOK ==
  /\ closer = [k \in Closers |-> closer[k]]
  /\ \A k \in Closers : CloserOK(closer[k])
  /\ open \in [Namespaces -> BOOLEAN]
  /\ (\A k \in Closers : closer[k].pc = 0) => \A ns \in Namespaces : open[ns] = (built = "yes")

Inv == CallsOK /\ CoreOK /\ ArtifactsOK /\ EntitiesOK /\ ClosersOK

-----------------------------------------------------------------------------
(* Calls begin.                                                            *)

LEMMA OneCallMoves ==
  ASSUME CallsOK, NEW c \in Callers, NEW new, CallOK(new), call' = [call EXCEPT ![c] = new]
  PROVE  /\ CallsOK'
         /\ call'[c] = new
         /\ \A x \in Callers \ {c} : call'[x] = call[x]
<1>1. call'[c] = new /\ \A x \in Callers \ {c} : call'[x] = call[x]
  BY DEF CallsOK
<1>2. call' = [x \in Callers |-> call'[x]]
  BY DEF CallsOK
<1>3. \A x \in Callers : CallOK(call'[x])
  BY <1>1 DEF CallsOK
<1> QED
  BY <1>1, <1>2, <1>3 DEF CallsOK

\* A call begins: it is over at once, or waits for what it asks for.
Begins(c) ==
  /\ call[c].pc = "idle"
  /\ UNCHANGED open
  /\ \E new : CallOK(new) /\ new.fate \in {"unsent", "sent"} /\ call' = [call EXCEPT ![c] = new]

LEMMA NoCallIsCall == IsCall(NoCall)
BY DEF IsCall, NoCall, CallFields

LEMMA RejectedBegins ==
  ASSUME NEW c \in Callers, NEW ns, NEW op, NEW code \in Complaints(ns, op),
         Rejected(c, ns, op, code), UNCHANGED open
  PROVE  Begins(c)
<1> DEFINE new == [NoCall EXCEPT !.pc = "ended", !.ns = ns, !.op = op, !.error = code]
<1>1. call[c].pc = "idle" /\ call' = [call EXCEPT ![c] = new]
  BY DEF Rejected
<1>2. IsCall(new) /\ new.pc = "ended" /\ new.error = code /\ new.fate = NoCall.fate
  BY NoCallIsCall DEF IsCall, CallFields
<1>3. NoCall.fate = "unsent"
  BY DEF NoCall
<1> HIDE DEF new
<1>4. new.ns = ns /\ new.op = op
  BY NoCallIsCall DEF new, IsCall, CallFields
<1>5. Told(new.ns, new.op, new.fate, new.error)
  BY <1>2, <1>3, <1>4, NoneAssumption
  DEF Told, Complaints, LocalErrors, StorageErrors, EntitiesErrors, HandleErrors, CommonErrors
<1>6. CallOK(new)
  BY <1>2, <1>3, <1>5 DEF CallOK
<1> QED
  BY <1>1, <1>2, <1>3, <1>6 DEF Begins

LEMMA SentBegins ==
  ASSUME NEW c \in Callers, NEW ns, NEW op, NEW arg, ArgOK(ns, op, arg),
         Sent(c, ns, op, arg), UNCHANGED open
  PROVE  Begins(c)
<1>1. CASE ~open[ns]
  BY <1>1, RejectedBegins DEF Sent, Complaints, LocalErrors
<1>2. CASE open[ns]
  <2> DEFINE new == [NoCall EXCEPT !.pc = "waiting", !.ns = ns, !.op = op, !.arg = arg, !.fate = "sent"]
  <2>1. call[c].pc = "idle" /\ call' = [call EXCEPT ![c] = new]
    BY <1>2 DEF Sent
  <2>2. /\ IsCall(new) /\ new.fate = "sent" /\ new.pc = "waiting"
        /\ new.ns = ns /\ new.op = op /\ new.arg = arg
        /\ new.reply = NoCall.reply /\ new.saw = NoCall.saw
    BY NoCallIsCall DEF IsCall, CallFields
  <2>3. NoCall.reply = None /\ NoCall.saw = None
    BY DEF NoCall
  <2> HIDE DEF new
  <2>4. CallOK(new)
    BY <2>2, <2>3 DEF CallOK
  <2> QED
    BY <2>1, <2>2, <2>4 DEF Begins
<1> QED
  BY <1>1, <1>2

LEMMA StorageCallBegins ==
  ASSUME NEW c \in Callers, NEW op, NEW arg, NEW complaint \in LocalErrors \cup {None},
         complaint = None => StorageArgOK(op, arg),
         StorageCall(c, op, arg, complaint)
  PROVE  Begins(c)
<1>1. CASE complaint # None
  BY <1>1, RejectedBegins DEF StorageCall, Complaints
<1>2. CASE complaint = None
  <2>1. ArgOK("storage", op, arg)
    BY <1>2 DEF ArgOK
  <2> QED
    BY <1>2, <2>1, SentBegins DEF StorageCall, StorageRequest
<1> QED
  BY <1>1, <1>2

LEMMA StorageBegins ==
  ASSUME NEW c \in Callers,
         \/ Capabilities(c) \/ Put(c) \/ Get(c) \/ GetContent(c) \/ StreamContent(c)
         \/ Head_(c) \/ Delete(c) \/ Verify(c)
  PROVE  Begins(c)
<1>2. \A ref \in Refs :
        /\ RequireArtifactId(ref) \in LocalErrors \cup {None}
        /\ RequireArtifactId(ref) = None => ref \in Artifacts
  BY NoneAssumption DEF RequireArtifactId, LocalErrors, Refs, StorageErrors
<1>3. \A option : CoerceOptions(option) \in LocalErrors \cup {None}
  BY DEF CoerceOptions, LocalErrors
<1>4. \A a, b \in LocalErrors \cup {None} :
         /\ FirstOf(a, b) \in LocalErrors \cup {None}
         /\ FirstOf(a, b) = None => a = None /\ b = None
  BY DEF FirstOf
<1>5. CASE Capabilities(c)
  BY <1>5, StorageCallBegins DEF Capabilities, StorageArgOK
<1>6. CASE Put(c)
  <2>1. PICK input \in PutInputs : StorageCall(c, "put", [input |-> input], CoercePutInput(input))
    BY <1>6 DEF Put
  <2>2. /\ CoercePutInput(input) \in LocalErrors \cup {None}
        /\ CoercePutInput(input) = None => input \in There
    BY NoneAssumption DEF CoercePutInput, PutInputs, LocalErrors, There, StorageErrors
  <2>3. CoercePutInput(input) = None => StorageArgOK("put", [input |-> input])
    BY <2>2 DEF StorageArgOK
  <2> QED
    BY <2>1, <2>2, <2>3, StorageCallBegins
<1>7. \A ref \in Refs, op \in Reads :
        StorageCall(c, op, [id |-> ref], RequireArtifactId(ref)) => Begins(c)
  <2> TAKE ref \in Refs, op \in Reads
  <2>1. RequireArtifactId(ref) = None => StorageArgOK(op, [id |-> ref])
    BY <1>2 DEF StorageArgOK
  <2>2. RequireArtifactId(ref) \in LocalErrors \cup {None}
    BY <1>2
  <2> QED
    BY <2>1, <2>2, StorageCallBegins
<1>8. CASE Get(c) \/ GetContent(c) \/ StreamContent(c) \/ Head_(c)
  BY <1>7, <1>8 DEF Get, GetContent, StreamContent, Head_, Reads
<1>9. CASE Delete(c)
  <2>1. PICK ref \in Refs, policy \in Policies :
          StorageCall(c, "delete", [id |-> ref, policy |-> policy],
                      FirstOf(RequireArtifactId(ref), CoerceOptions(policy)))
    BY <1>9 DEF Delete
  <2> DEFINE complaint == FirstOf(RequireArtifactId(ref), CoerceOptions(policy))
  <2>2. complaint \in LocalErrors \cup {None} /\ (complaint = None => ref \in Artifacts)
    BY <1>2, <1>3, <1>4
  <2>3. complaint = None => StorageArgOK("delete", [id |-> ref, policy |-> policy])
    BY <2>2 DEF StorageArgOK
  <2> HIDE DEF complaint
  <2> QED
    BY <2>1, <2>2, <2>3, StorageCallBegins DEF complaint
<1>10. CASE Verify(c)
  <2>1. PICK ref \in Refs, option \in VerifyOptions :
          StorageCall(c, "verify", [id |-> ref], FirstOf(CoerceOptions(option), RequireArtifactId(ref)))
    BY <1>10 DEF Verify
  <2> DEFINE complaint == FirstOf(CoerceOptions(option), RequireArtifactId(ref))
  <2>2. complaint \in LocalErrors \cup {None} /\ (complaint = None => ref \in Artifacts)
    BY <1>2, <1>3, <1>4
  <2>3. complaint = None => StorageArgOK("verify", [id |-> ref])
    BY <2>2 DEF StorageArgOK, Reads
  <2> HIDE DEF complaint
  <2> QED
    BY <2>1, <2>2, <2>3, StorageCallBegins DEF complaint
<1> QED
  BY <1>5, <1>6, <1>8, <1>9, <1>10

LEMMA EntitiesCallBegins ==
  ASSUME NEW c \in Callers, NEW op, NEW request, NEW type, EntitiesArgOK(op, request),
         EntitiesCall(c, op, request, type)
  PROVE  Begins(c)
<1>1. CASE ValidateEntityType(type) # None
  <2>1. ValidateEntityType(type) \in LocalErrors
    BY <1>1 DEF ValidateEntityType, LocalErrors
  <2> QED
    BY <1>1, <2>1, RejectedBegins DEF EntitiesCall, Complaints
<1>2. CASE ValidateEntityType(type) = None
  <2>1. ArgOK("entities", op, request)
    BY DEF ArgOK
  <2> QED
    BY <1>2, <2>1, SentBegins DEF EntitiesCall, EntitiesRequest
<1> QED
  BY <1>1, <1>2

LEMMA EntitiesBegins ==
  ASSUME NEW c \in Callers,
         \/ Profile(c) \/ ListEntities(c) \/ GetEntity(c) \/ DeleteEntity(c) \/ Attributes(c)
         \/ MemoryHistory(c) \/ PatchSettings(c) \/ Merge(c)
  PROVE  Begins(c)
<1>1. CASE Profile(c)
  <2>1. PICK e \in Entities, t \in AnyType : EntitiesCall(c, "profile", ProfileRequest(e), t)
    BY <1>1 DEF Profile
  <2>2. EntitiesArgOK("profile", ProfileRequest(e))
    BY DEF EntitiesArgOK
  <2> QED
    BY <2>1, <2>2, EntitiesCallBegins
<1>2. CASE ListEntities(c)
  <2>1. PICK page \in {None, 0, 1} : EntitiesCall(c, "list", ListRequest(page), "user")
    BY <1>2 DEF ListEntities
  <2>2. EntitiesArgOK("list", ListRequest(page))
    BY DEF EntitiesArgOK
  <2> QED
    BY <2>1, <2>2, EntitiesCallBegins
<1>3. CASE GetEntity(c)
  <2>1. PICK e \in Entities, t \in AnyType : EntitiesCall(c, "get", GetRequest(e), t)
    BY <1>3 DEF GetEntity
  <2>2. EntitiesArgOK("get", GetRequest(e))
    BY DEF EntitiesArgOK
  <2> QED
    BY <2>1, <2>2, EntitiesCallBegins
<1>4. CASE DeleteEntity(c)
  <2>1. PICK e \in Entities, t \in AnyType : EntitiesCall(c, "delete", DeleteRequest(e), t)
    BY <1>4 DEF DeleteEntity
  <2>2. EntitiesArgOK("delete", DeleteRequest(e))
    BY DEF EntitiesArgOK
  <2> QED
    BY <2>1, <2>2, EntitiesCallBegins
<1>5. CASE Attributes(c)
  <2>1. PICK e \in Entities, t \in AnyType, limit \in {None, 0} :
          EntitiesCall(c, "attributes", AttributesRequest(e, limit), t)
    BY <1>5 DEF Attributes
  <2>2. EntitiesArgOK("attributes", AttributesRequest(e, limit))
    BY DEF EntitiesArgOK
  <2> QED
    BY <2>1, <2>2, EntitiesCallBegins
<1>6. CASE MemoryHistory(c)
  <2>1. PICK e \in Entities, m \in Memories, t \in AnyType :
          EntitiesCall(c, "memory_history", MemoryHistoryRequest(e, m), t)
    BY <1>6 DEF MemoryHistory
  <2>2. EntitiesArgOK("memory_history", MemoryHistoryRequest(e, m))
    BY DEF EntitiesArgOK
  <2> QED
    BY <2>1, <2>2, EntitiesCallBegins
<1>7. CASE PatchSettings(c)
  <2>1. PICK e \in Entities, t \in AnyType, given \in [Settings -> Values \cup {None}] :
          EntitiesCall(c, "patch_settings", PatchSettingsRequest(e, given), t)
    BY <1>7 DEF PatchSettings
  <2>2. EntitiesArgOK("patch_settings", PatchSettingsRequest(e, given))
    BY DEF EntitiesArgOK
  <2> QED
    BY <2>1, <2>2, EntitiesCallBegins
<1>8. CASE Merge(c)
  <2>1. PICK e \in Entities, target \in Entities, t \in AnyType :
          EntitiesCall(c, "merge", MergeRequest(e, target), t)
    BY <1>8 DEF Merge
  <2>2. EntitiesArgOK("merge", MergeRequest(e, target))
    BY DEF EntitiesArgOK
  <2> QED
    BY <2>1, <2>2, EntitiesCallBegins
<1> QED
  BY <1>1, <1>2, <1>3, <1>4, <1>5, <1>6, <1>7, <1>8

LEMMA HandleCallBegins ==
  ASSUME NEW c \in Callers, NEW op, NEW asked, NEW sent, NEW complaint \in Complaints("memory", op) \cup {None},
         complaint = None => ScopedArgOK(op, asked, sent) \/ AdminArgOK(op, asked, sent),
         HandleCall(c, op, asked, sent, complaint)
  PROVE  Begins(c)
<1>1. CASE complaint # None
  BY <1>1, RejectedBegins DEF HandleCall
<1>2. CASE complaint = None
  <2> DEFINE arg == [asked |-> asked, sent |-> sent]
  <2>1. arg.asked = asked /\ arg.sent = sent
    OBVIOUS
  <2>2. Sent(c, "memory", op, arg) /\ UNCHANGED open
    BY <1>2 DEF HandleCall
  <2> HIDE DEF arg
  <2>3. ArgOK("memory", op, arg)
    BY <1>2, <2>1 DEF ArgOK, HandleArgOK
  <2> QED
    BY <2>2, <2>3, SentBegins
<1> QED
  BY <1>1, <1>2

LEMMA ScopesAre ==
  ASSUME NEW s \in Scopes
  PROVE  /\ s.kind \in {"user", "workspace"}
         /\ s.kind = "workspace" <=> s.workspace # None
         /\ StripReadFilters(s).user = s.user /\ StripReadFilters(s).workspace = s.workspace
BY ScopesAssumption, NoneAssumption DEF UserScope, WorkspaceScope, StripReadFilters

\* The requests of the base routes agree with what is asked.
LEMMA ScopedRequests ==
  ASSUME NEW s \in Scopes
  PROVE  /\ \A v \in Visibilities, skip \in BOOLEAN : AssertScopeAllowsVisibility(s, v) = None
              => ScopedArgOK("ingest", Asked(s, {}, v), PostIngest(s, v, skip))
         /\ ScopedArgOK("search", Asked(s, {}, None), PostSearch(s))
         /\ ScopedArgOK("expand", Asked(s, MemoryIds, None), ExpandRequest(MemoryIds, s))
         /\ \A o : ScopedArgOK("list", Asked(s, {}, o.site), ListMemoriesRequest(s, o))
         /\ \A id \in MemoryIds :
              /\ ScopedArgOK("get", Asked(s, {id}, None), GetMemoryRequest(id, s))
              /\ ScopedArgOK("delete", Asked(s, {id}, None), DeleteMemoryRequest(id, s))
<1>1. ASSUME NEW v \in Visibilities, NEW skip \in BOOLEAN, AssertScopeAllowsVisibility(s, v) = None
      PROVE  ScopedArgOK("ingest", Asked(s, {}, v), PostIngest(s, v, skip))
  BY <1>1, ScopesAre, NoneAssumption
  DEF AssertScopeAllowsVisibility, ScopedArgOK, Asked, PostIngest, With, ScopeToFields, RowRoutes, HandleErrors
<1>2. ScopedArgOK("search", Asked(s, {}, None), PostSearch(s))
  BY DEF ScopedArgOK, Asked, PostSearch, With, ScopeToFields, RowRoutes
<1>3. ScopedArgOK("expand", Asked(s, MemoryIds, None), ExpandRequest(MemoryIds, s))
  BY DEF ScopedArgOK, Asked, ExpandRequest, With, ScopeToFields, RowRoutes
<1>4. ASSUME NEW o
      PROVE  ScopedArgOK("list", Asked(s, {}, o.site), ListMemoriesRequest(s, o))
  BY DEF ScopedArgOK, Asked, ListMemoriesRequest, With, ScopeToFields, ScopeToQueryPairs, RowRoutes
<1>5. ASSUME NEW id \in MemoryIds
      PROVE  ScopedArgOK("get", Asked(s, {id}, None), GetMemoryRequest(id, s))
  BY ScopesAre DEF ScopedArgOK, Asked, GetMemoryRequest, With, ScopeToFields, ScopeToQueryPairs, RowRoutes
<1>6. ASSUME NEW id \in MemoryIds
      PROVE  ScopedArgOK("delete", Asked(s, {id}, None), DeleteMemoryRequest(id, s))
  BY ScopesAre DEF ScopedArgOK, Asked, DeleteMemoryRequest, With, ScopeToFields, ScopeToQueryPairs, RowRoutes
<1> QED
  BY <1>1, <1>2, <1>3, <1>4, <1>5, <1>6

LEMMA AdminBegins ==
  ASSUME NEW c \in Callers, NEW op, NEW u, NEW more, NEW sent, Admin(c, op, u, more, sent),
         AdminArgOK(op, [user |-> u, scope |-> None, ids |-> {}, more |-> more], sent)
  PROVE  Begins(c)
<1> DEFINE asked == [user |-> u, scope |-> None, ids |-> {}, more |-> more]
<1>1. HandleCall(c, op, asked, sent, None) /\ AdminArgOK(op, asked, sent)
  BY DEF Admin
<1> HIDE DEF asked
<1> QED
  BY <1>1, HandleCallBegins

LEMMA AdministrationBegins ==
  ASSUME NEW c \in Callers,
         \/ Consolidate(c) \/ Decay(c) \/ Cap(c) \/ MemoryStats(c) \/ ResetSource(c)
         \/ Reconcile(c) \/ ReconcileAll(c) \/ ReconcileStatus(c)
         \/ Summary(c) \/ Recent(c) \/ Trail(c)
         \/ Lessons(c) \/ LessonStats(c) \/ ReportLesson(c) \/ DeleteLesson(c)
         \/ Health(c) \/ UpdateConfig(c)
         \/ SetTrust(c) \/ GetTrust(c) \/ Conflicts(c) \/ ResolveConflict(c) \/ AutoResolve(c)
  PROVE  Begins(c)
<1>1. CASE Consolidate(c)
  <2>1. PICK u \in Users, x \in BOOLEAN :
          Admin(c, "consolidate", u, x, ConsolidateRequest(u, x))
    BY <1>1 DEF Consolidate
  <2>2. AdminArgOK("consolidate", [user |-> u, scope |-> None, ids |-> {}, more |-> x], ConsolidateRequest(u, x))
    BY NoneAssumption DEF AdminArgOK, ConsolidateRequest, AdminOps, Categories, RowRoutes, UnquotedReads
  <2> QED
    BY <2>1, <2>2, AdminBegins
<1>2. CASE Decay(c)
  <2>1. PICK u \in Users, dry \in BOOLEAN :
          Admin(c, "decay", u, ~dry, DecayRequest(u, dry))
    BY <1>2 DEF Decay
  <2>2. AdminArgOK("decay", [user |-> u, scope |-> None, ids |-> {}, more |-> ~dry], DecayRequest(u, dry))
    BY NoneAssumption DEF AdminArgOK, DecayRequest, AdminOps, Categories, RowRoutes, UnquotedReads
  <2> QED
    BY <2>1, <2>2, AdminBegins
<1>3. CASE Cap(c)
  <2>1. PICK u \in Users :
          Admin(c, "cap", u, None, CapRequest(u))
    BY <1>3 DEF Cap
  <2>2. AdminArgOK("cap", [user |-> u, scope |-> None, ids |-> {}, more |-> None], CapRequest(u))
    BY NoneAssumption DEF AdminArgOK, CapRequest, AdminOps, Categories, RowRoutes, UnquotedReads
  <2> QED
    BY <2>1, <2>2, AdminBegins
<1>4. CASE MemoryStats(c)
  <2>1. PICK u \in Users :
          Admin(c, "stats", u, None, MemoryStatsRequest(u))
    BY <1>4 DEF MemoryStats
  <2>2. AdminArgOK("stats", [user |-> u, scope |-> None, ids |-> {}, more |-> None], MemoryStatsRequest(u))
    BY NoneAssumption DEF AdminArgOK, MemoryStatsRequest, AdminOps, Categories, RowRoutes, UnquotedReads
  <2> QED
    BY <2>1, <2>2, AdminBegins
<1>5. CASE ResetSource(c)
  <2>1. PICK u \in Users :
          Admin(c, "reset_source", u, "site", ResetSourceRequest(u, "site"))
    BY <1>5 DEF ResetSource
  <2>2. AdminArgOK("reset_source", [user |-> u, scope |-> None, ids |-> {}, more |-> "site"], ResetSourceRequest(u, "site"))
    BY NoneAssumption DEF AdminArgOK, ResetSourceRequest, AdminOps, Categories, RowRoutes, UnquotedReads
  <2> QED
    BY <2>1, <2>2, AdminBegins
<1>6. CASE Reconcile(c)
  <2>1. PICK u \in Users :
          Admin(c, "reconcile", u, None, ReconcileRequest(u))
    BY <1>6 DEF Reconcile
  <2>2. AdminArgOK("reconcile", [user |-> u, scope |-> None, ids |-> {}, more |-> None], ReconcileRequest(u))
    BY NoneAssumption DEF AdminArgOK, ReconcileRequest, AdminOps, Categories, RowRoutes, UnquotedReads
  <2> QED
    BY <2>1, <2>2, AdminBegins
<1>7. CASE ReconcileAll(c)
  <2>1. Admin(c, "reconcile_all", None, None, ReconcileAllRequest)
    BY <1>7 DEF ReconcileAll
  <2>2. AdminArgOK("reconcile_all", [user |-> None, scope |-> None, ids |-> {}, more |-> None], ReconcileAllRequest)
    BY NoneAssumption DEF AdminArgOK, ReconcileAllRequest, AdminOps, Categories, RowRoutes, UnquotedReads
  <2> QED
    BY <2>1, <2>2, AdminBegins
<1>8. CASE ReconcileStatus(c)
  <2>1. PICK u \in Users :
          Admin(c, "reconcile_status", u, None, ReconcileStatusRequest(u))
    BY <1>8 DEF ReconcileStatus
  <2>2. AdminArgOK("reconcile_status", [user |-> u, scope |-> None, ids |-> {}, more |-> None], ReconcileStatusRequest(u))
    BY NoneAssumption DEF AdminArgOK, ReconcileStatusRequest, AdminOps, Categories, RowRoutes, UnquotedReads
  <2> QED
    BY <2>1, <2>2, AdminBegins
<1>9. CASE Summary(c)
  <2>1. PICK u \in Users :
          Admin(c, "summary", u, None, SummaryRequest(u))
    BY <1>9 DEF Summary
  <2>2. AdminArgOK("summary", [user |-> u, scope |-> None, ids |-> {}, more |-> None], SummaryRequest(u))
    BY NoneAssumption DEF AdminArgOK, SummaryRequest, AdminOps, Categories, RowRoutes, UnquotedReads
  <2> QED
    BY <2>1, <2>2, AdminBegins
<1>10. CASE Recent(c)
  <2>1. PICK u \in Users, limit \in {None, 0} :
          Admin(c, "recent", u, None, RecentRequest(u, limit))
    BY <1>10 DEF Recent
  <2>2. AdminArgOK("recent", [user |-> u, scope |-> None, ids |-> {}, more |-> None], RecentRequest(u, limit))
    BY NoneAssumption DEF AdminArgOK, RecentRequest, AdminOps, Categories, RowRoutes, UnquotedReads
  <2> QED
    BY <2>1, <2>2, AdminBegins
<1>11. CASE Trail(c)
  <2>1. PICK u \in Users, id \in MemoryIds :
          Admin(c, "trail", u, None, TrailRequest(id, u))
    BY <1>11 DEF Trail
  <2>2. AdminArgOK("trail", [user |-> u, scope |-> None, ids |-> {}, more |-> None], TrailRequest(id, u))
    BY NoneAssumption DEF AdminArgOK, TrailRequest, AdminOps, Categories, RowRoutes, UnquotedReads
  <2> QED
    BY <2>1, <2>2, AdminBegins
<1>12. CASE Lessons(c)
  <2>1. PICK u \in Users :
          Admin(c, "lessons", u, None, LessonsRequest(u))
    BY <1>12 DEF Lessons
  <2>2. AdminArgOK("lessons", [user |-> u, scope |-> None, ids |-> {}, more |-> None], LessonsRequest(u))
    BY NoneAssumption DEF AdminArgOK, LessonsRequest, AdminOps, Categories, RowRoutes, UnquotedReads
  <2> QED
    BY <2>1, <2>2, AdminBegins
<1>13. CASE LessonStats(c)
  <2>1. PICK u \in Users :
          Admin(c, "lesson_stats", u, None, LessonStatsRequest(u))
    BY <1>13 DEF LessonStats
  <2>2. AdminArgOK("lesson_stats", [user |-> u, scope |-> None, ids |-> {}, more |-> None], LessonStatsRequest(u))
    BY NoneAssumption DEF AdminArgOK, LessonStatsRequest, AdminOps, Categories, RowRoutes, UnquotedReads
  <2> QED
    BY <2>1, <2>2, AdminBegins
<1>14. CASE ReportLesson(c)
  <2>1. PICK u \in Users, sources \in {{}, MemoryIds} :
          Admin(c, "report", u, None, ReportLessonRequest(u, sources))
    BY <1>14 DEF ReportLesson
  <2>2. AdminArgOK("report", [user |-> u, scope |-> None, ids |-> {}, more |-> None], ReportLessonRequest(u, sources))
    BY NoneAssumption DEF AdminArgOK, ReportLessonRequest, AdminOps, Categories, RowRoutes, UnquotedReads
  <2> QED
    BY <2>1, <2>2, AdminBegins
<1>15. CASE DeleteLesson(c)
  <2>1. PICK u \in Users, l \in {"l", "other"} :
          Admin(c, "delete_lesson", u, l, DeleteLessonRequest(l, u))
    BY <1>15 DEF DeleteLesson
  <2>2. AdminArgOK("delete_lesson", [user |-> u, scope |-> None, ids |-> {}, more |-> l], DeleteLessonRequest(l, u))
    BY NoneAssumption DEF AdminArgOK, DeleteLessonRequest, AdminOps, Categories, RowRoutes, UnquotedReads
  <2> QED
    BY <2>1, <2>2, AdminBegins
<1>16. CASE Health(c)
  <2>1. Admin(c, "health", None, None, HealthRequest)
    BY <1>16 DEF Health
  <2>2. AdminArgOK("health", [user |-> None, scope |-> None, ids |-> {}, more |-> None], HealthRequest)
    BY NoneAssumption DEF AdminArgOK, HealthRequest, AdminOps, Categories, RowRoutes, UnquotedReads
  <2> QED
    BY <2>1, <2>2, AdminBegins
<1>17. CASE UpdateConfig(c)
  <2>1. PICK t \in {None, "zero"}, n \in {None, "one"}, valid \in BOOLEAN :
          HandleCall(c, "update_config",
                     [user |-> None, scope |-> None, ids |-> {}, more |-> [threshold |-> t, results |-> n]],
                     UpdateConfigRequest([threshold |-> t, results |-> n]), CoerceConfigUpdates(valid))
    BY <1>17 DEF UpdateConfig
  <2>2. AdminArgOK("update_config", [user |-> None, scope |-> None, ids |-> {}, more |-> [threshold |-> t, results |-> n]], UpdateConfigRequest([threshold |-> t, results |-> n]))
    BY NoneAssumption DEF AdminArgOK, UpdateConfigRequest, AdminOps, Categories, RowRoutes, UnquotedReads
  <2>3. CoerceConfigUpdates(valid) \in Complaints("memory", "update_config") \cup {None}
    BY DEF CoerceConfigUpdates, Complaints
  <2> QED
    BY <2>1, <2>2, <2>3, HandleCallBegins
<1>18. CASE SetTrust(c)
  <2>1. PICK u \in Users, level \in {0, 1} :
          Admin(c, "set_trust", u, level, SetTrustRequest(u, level))
    BY <1>18 DEF SetTrust
  <2>2. AdminArgOK("set_trust", [user |-> u, scope |-> None, ids |-> {}, more |-> level], SetTrustRequest(u, level))
    BY NoneAssumption DEF AdminArgOK, SetTrustRequest, AdminOps, Categories, RowRoutes, UnquotedReads
  <2> QED
    BY <2>1, <2>2, AdminBegins
<1>19. CASE GetTrust(c)
  <2>1. PICK u \in Users :
          Admin(c, "get_trust", u, None, GetTrustRequest(u))
    BY <1>19 DEF GetTrust
  <2>2. AdminArgOK("get_trust", [user |-> u, scope |-> None, ids |-> {}, more |-> None], GetTrustRequest(u))
    BY NoneAssumption DEF AdminArgOK, GetTrustRequest, AdminOps, Categories, RowRoutes, UnquotedReads
  <2> QED
    BY <2>1, <2>2, AdminBegins
<1>20. CASE Conflicts(c)
  <2>1. PICK u \in Users :
          Admin(c, "conflicts", u, None, ConflictsRequest(u))
    BY <1>20 DEF Conflicts
  <2>2. AdminArgOK("conflicts", [user |-> u, scope |-> None, ids |-> {}, more |-> None], ConflictsRequest(u))
    BY NoneAssumption DEF AdminArgOK, ConflictsRequest, AdminOps, Categories, RowRoutes, UnquotedReads
  <2> QED
    BY <2>1, <2>2, AdminBegins
<1>21. CASE ResolveConflict(c)
  <2>1. PICK u \in Users :
          Admin(c, "resolve", u, None, ResolveConflictRequest(u, "resolved_new"))
    BY <1>21 DEF ResolveConflict
  <2>2. AdminArgOK("resolve", [user |-> u, scope |-> None, ids |-> {}, more |-> None], ResolveConflictRequest(u, "resolved_new"))
    BY NoneAssumption DEF AdminArgOK, ResolveConflictRequest, AdminOps, Categories, RowRoutes, UnquotedReads
  <2> QED
    BY <2>1, <2>2, AdminBegins
<1>22. CASE AutoResolve(c)
  <2>1. PICK u \in Users :
          Admin(c, "auto_resolve", u, None, AutoResolveRequest(u))
    BY <1>22 DEF AutoResolve
  <2>2. AdminArgOK("auto_resolve", [user |-> u, scope |-> None, ids |-> {}, more |-> None], AutoResolveRequest(u))
    BY NoneAssumption DEF AdminArgOK, AutoResolveRequest, AdminOps, Categories, RowRoutes, UnquotedReads
  <2> QED
    BY <2>1, <2>2, AdminBegins
<1> QED
  BY <1>1, <1>2, <1>3, <1>4, <1>5, <1>6, <1>7, <1>8, <1>9, <1>10, <1>11, <1>12, <1>13, <1>14, <1>15, <1>16, <1>17, <1>18, <1>19, <1>20, <1>21, <1>22

LEMMA HandleBegins ==
  ASSUME NEW c \in Callers, HandleSteps(c), ~HandleReceives(c), ~CoreServes(c)
  PROVE  Begins(c)
<1>1. \A s \in Scopes, v \in Visibilities :
        AssertScopeAllowsVisibility(s, v) \in Complaints("memory", "ingest") \cup {None}
  BY DEF AssertScopeAllowsVisibility, Complaints, LocalErrors
<1>2. CASE IngestFull(c) \/ IngestQuick(c)
  <2>1. PICK s \in Scopes, v \in Visibilities, skip \in BOOLEAN :
          HandleCall(c, "ingest", Asked(s, {}, v), PostIngest(s, v, skip), AssertScopeAllowsVisibility(s, v))
    BY <1>2 DEF IngestFull, IngestQuick
  <2>2. AssertScopeAllowsVisibility(s, v) = None => ScopedArgOK("ingest", Asked(s, {}, v), PostIngest(s, v, skip))
    BY ScopedRequests
  <2> QED
    BY <1>1, <2>1, <2>2, HandleCallBegins
<1>3. CASE SearchMemories(c)
  BY <1>3, ScopedRequests, HandleCallBegins DEF SearchMemories
<1>4. CASE Expand(c)
  BY <1>4, ScopedRequests, HandleCallBegins DEF Expand
<1>5. CASE ListMemories(c)
  <2>1. PICK s \in Scopes, site \in Sites, limit \in {None, 1}, offset \in {None, 1}, valid \in BOOLEAN :
          LET o == [site |-> site, limit |-> limit, offset |-> offset, valid |-> valid] IN
          HandleCall(c, "list", Asked(s, {}, site), ListMemoriesRequest(s, o),
             IF CoerceListOptions(o) # None THEN CoerceListOptions(o) ELSE AssertListOptionsScopeCompat(s, o))
    BY <1>5 DEF ListMemories
  <2> DEFINE o == [site |-> site, limit |-> limit, offset |-> offset, valid |-> valid]
             complaint == IF CoerceListOptions(o) # None THEN CoerceListOptions(o)
                                                          ELSE AssertListOptionsScopeCompat(s, o)
  <2>2. o.site = site /\ HandleCall(c, "list", Asked(s, {}, site), ListMemoriesRequest(s, o), complaint)
    BY <2>1
  <2>3. complaint \in Complaints("memory", "list") \cup {None}
    BY DEF CoerceListOptions, AssertListOptionsScopeCompat, Complaints, LocalErrors
  <2> HIDE DEF o, complaint
  <2>4. ScopedArgOK("list", Asked(s, {}, site), ListMemoriesRequest(s, o))
    BY <2>2, ScopedRequests
  <2> QED
    BY <2>2, <2>3, <2>4, HandleCallBegins
<1>6. CASE GetMemory(c)
  BY <1>6, ScopedRequests, HandleCallBegins DEF GetMemory
<1>7. CASE DeleteMemory(c)
  BY <1>7, ScopedRequests, HandleCallBegins DEF DeleteMemory
<1> QED
  BY <1>2, <1>3, <1>4, <1>5, <1>6, <1>7, AdministrationBegins DEF HandleSteps

-----------------------------------------------------------------------------
(* Calls end, and requests are served.                                     *)

LEMMA CallEnds ==
  ASSUME CallsOK, NEW c \in Callers, NEW error, NEW value, Ends(c, error, value),
         call[c].pc \in {"waiting", "streaming"},
         Told(call[c].ns, call[c].op, call[c].fate, error)
  PROVE  /\ CallsOK'
         /\ \A x \in Callers \ {c} : call'[x] = call[x]
         /\ call'[c].error = error /\ call'[c].value = value
         /\ call'[c].fate = call[c].fate
<1> DEFINE k == call[c]
           new == [NoCall EXCEPT !.pc = "ended", !.ns = k.ns, !.op = k.op, !.fate = k.fate,
                                 !.arg = IF k.fate = "sent" THEN k.arg ELSE None,
                                 !.error = error, !.value = value]
<1>1. call' = [call EXCEPT ![c] = new]
  BY DEF Ends
<1>2. /\ IsCall(new) /\ new.pc = "ended" /\ new.ns = k.ns /\ new.op = k.op /\ new.fate = k.fate
      /\ new.arg = (IF k.fate = "sent" THEN k.arg ELSE None)
      /\ new.error = error /\ new.value = value
  BY NoCallIsCall DEF IsCall, CallFields
<1>3. CallOK(k)
  BY DEF CallsOK
<1> HIDE DEF new
<1>4. CallOK(new)
  BY <1>2, <1>3 DEF CallOK
<1> QED
  BY <1>1, <1>2, <1>4, OneCallMoves

LEMMA CallIsServed ==
  ASSUME CallsOK, NEW c \in Callers, NEW fate \in {"done", "refused"}, NEW reply, NEW saw,
         Answered(c, fate, reply, saw), call[c].fate = "sent",
         call[c].pc = "waiting" => ReplyOK(call[c].ns, call[c].op, call[c].arg, fate, reply, saw)
  PROVE  /\ CallsOK'
         /\ \A x \in Callers \ {c} : call'[x] = call[x]
         /\ call'[c].pc = call[c].pc /\ call'[c].fate = fate
<1> DEFINE k == call[c]
           new == [k EXCEPT !.fate = fate,
                            !.saw = IF k.pc = "waiting" THEN saw ELSE None,
                            !.reply = IF k.pc = "waiting" THEN reply ELSE None,
                            !.arg = IF k.pc = "waiting" THEN @ ELSE None]
<1>1. CallOK(k) /\ IsCall(k) /\ k.fate = "sent"
  BY DEF CallsOK, CallOK
<1>2. call' = [call EXCEPT ![c] = new]
  BY DEF Answered, CallsOK
<1>3. /\ IsCall(new) /\ new.pc = k.pc /\ new.ns = k.ns /\ new.op = k.op /\ new.error = k.error
      /\ new.fate = fate
      /\ k.pc = "waiting" => new.arg = k.arg /\ new.reply = reply /\ new.saw = saw
  BY <1>1 DEF IsCall, CallFields
<1> HIDE DEF new
<1>4. k.pc = "ended" => Told(k.ns, k.op, fate, k.error)
  BY <1>1, NoneAssumption DEF CallOK, Told, Unknowing, LocalErrors, StorageErrors, EntitiesErrors, HandleErrors,
                              CommonErrors
<1>5. CallOK(new)
  <2> HIDE DEF k
  <2> QED
    BY <1>1, <1>3, <1>4 DEF CallOK, k
<1> QED
  BY <1>2, <1>3, <1>5, OneCallMoves

\* What a step of the backend does to the calls.
Served_(c) ==
  /\ call[c].fate = "sent"
  /\ CallsOK' /\ UNCHANGED open
  /\ \A x \in Callers \ {c} : call'[x] = call[x]
  /\ call'[c].pc = call[c].pc

LEMMA StorageRefuses ==
  ASSUME CallsOK, NEW c \in Callers, NEW status, NEW code, NEW count, NEW saw,
         Refused(c, status, code, count, saw), UNCHANGED open,
         call[c].fate = "sent", call[c].ns = "storage",
         \A reply : /\ reply.status = status /\ reply.code = (IF call[c].op = "head" THEN None ELSE code)
                    /\ reply.count = count /\ "count" \in DOMAIN reply
                    => StorageRefused(call[c].op, call[c].arg, reply, saw)
  PROVE  Served_(c)
<1> DEFINE reply == [status |-> status, code |-> IF call[c].op = "head" THEN None ELSE code, count |-> count]
<1>1. Answered(c, "refused", reply, saw)
  BY DEF Refused
<1>2. /\ reply.status = status /\ reply.code = (IF call[c].op = "head" THEN None ELSE code)
      /\ reply.count = count /\ "count" \in DOMAIN reply
  OBVIOUS
<1> HIDE DEF reply
<1>3. ReplyOK(call[c].ns, call[c].op, call[c].arg, "refused", reply, saw)
  BY <1>2 DEF ReplyOK, StorageReplyOK
<1> QED
  BY <1>1, <1>3, CallIsServed DEF Served_

LEMMA StorageDoes ==
  ASSUME CallsOK, NEW c \in Callers, NEW reply, NEW saw, Done(c, reply, saw), UNCHANGED open,
         call[c].fate = "sent", call[c].ns = "storage",
         "status" \notin DOMAIN reply,
         \A r : (\A f \in DOMAIN reply : r[f] = reply[f]) => StorageDone(call[c].op, call[c].arg, r, saw)
  PROVE  Served_(c)
<1> DEFINE full == With(reply, [status |-> 200, code |-> None])
<1>1. Answered(c, "done", full, saw)
  BY DEF Done
<1>2. full.status = 200 /\ \A f \in DOMAIN reply : full[f] = reply[f]
  BY DEF With
<1> HIDE DEF full
<1>3. ReplyOK(call[c].ns, call[c].op, call[c].arg, "done", full, saw)
  BY <1>2 DEF ReplyOK, StorageReplyOK
<1> QED
  BY <1>1, <1>3, CallIsServed DEF Served_

LEMMA StorageServed ==
  ASSUME CallsOK, ArtifactsOK, NEW c \in Callers, StorageServes(c)
  PROVE  Served_(c) /\ ArtifactsOK'
<1> DEFINE k == call[c]
           a == k.arg.id
           saw == [mode |-> artifacts[a], references |-> References(a), kind |-> None]
<1>1. k.ns = "storage" /\ k.fate = "sent" /\ StorageArgOK(k.op, k.arg) /\ UNCHANGED open
  BY DEF StorageServes, CallsOK, CallOK, ArgOK
<1>2. CASE k.op = "capabilities"
  <2>1. Done(c, [id |-> None], None) /\ UNCHANGED storageVars
    BY <1>2 DEF StorageServes
  <2>2. \A r : StorageDone("capabilities", k.arg, r, None)
    BY DEF StorageDone
  <2>3. ArtifactsOK'
    BY <2>1 DEF ArtifactsOK, storageVars
  <2> QED
    BY <1>1, <1>2, <2>1, <2>2, <2>3, StorageDoes
<1>3. CASE k.op = "put"
  <2> DEFINE mode == k.arg.input
             sight == [mode |-> mode, references |-> {}]
  <2>1. ServePut(c) /\ mode \in There
    BY <1>1, <1>3 DEF StorageServes, StorageArgOK, Reads
  <2>2. CASE mode = "managed" /\ Refused(c, 501, "filecoin_direct_storage_not_yet_supported", 0, sight)
    <3>1. ArtifactsOK'
      BY <2>2 DEF Refused, ArtifactsOK, storageVars
    <3>2. \A reply : /\ reply.status = 501 /\ reply.code = "filecoin_direct_storage_not_yet_supported"
                     /\ "count" \in DOMAIN reply
                     => StorageRefused("put", k.arg, reply, sight)
      BY <2>1 DEF StorageRefused
    <3> QED
      BY <1>1, <1>3, <2>2, <3>1, <3>2, StorageRefuses
  <2>3. ASSUME NEW b \in Artifacts, artifacts' = [artifacts EXCEPT ![b] = mode],
               Done(c, [id |-> b, mode |-> mode], sight)
        PROVE  Served_(c) /\ ArtifactsOK'
    <3>1. ArtifactsOK'
      BY <2>1, <2>3 DEF ArtifactsOK, There
    <3>2. \A r : r.mode = mode => StorageDone("put", k.arg, r, sight)
      BY DEF StorageDone
    <3> QED
      BY <1>1, <1>3, <2>3, <3>1, <3>2, StorageDoes
  <2> QED
    BY <2>1, <2>2, <2>3 DEF ServePut
<1>4. CASE k.op \notin {"capabilities", "put"}
  <2>1. a \in Artifacts /\ k.op \in Reads \cup {"delete"} /\ artifacts[a] \in {"free", "pointer", "managed", "gone"}
    BY <1>1, <1>4 DEF StorageArgOK, ArtifactsOK
  <2>2. saw.mode = artifacts[a] /\ saw.references = References(a)
    OBVIOUS
  <2>3. IF a \notin Stored THEN Refused(c, 404, "artifact_not_found", 0, saw)
        ELSE \/ Refused(c, 400, "unsupported_capability", 0, saw)
             \/ k.op = "delete" /\ ServeDelete(c, a, saw)
             \/ k.op # "delete" /\ ServeRead(c, a, saw)
    BY <1>4 DEF StorageServes
  <2>4. a \in Stored <=> saw.mode \in There
    BY <2>1, <2>2 DEF Stored, There
  <2>5. ASSUME NEW status, NEW code, NEW count, Refused(c, status, code, count, saw) PROVE ArtifactsOK'
    BY <2>5 DEF Refused, ArtifactsOK, storageVars
  <2>6. CASE a \notin Stored
    <3>1. Refused(c, 404, "artifact_not_found", 0, saw)
      BY <2>3, <2>6
    <3>2. \A reply : /\ reply.status = 404 /\ reply.code = (IF k.op = "head" THEN None ELSE "artifact_not_found")
                     /\ "count" \in DOMAIN reply
                     => StorageRefused(k.op, k.arg, reply, saw)
      BY <2>1, <2>2, <2>4, <2>6 DEF StorageRefused, There
    <3> QED
      BY <1>1, <2>5, <3>1, <3>2, StorageRefuses
  <2>7. CASE a \in Stored /\ Refused(c, 400, "unsupported_capability", 0, saw)
    <3>1. \A reply : /\ reply.status = 400 /\ reply.code = (IF k.op = "head" THEN None ELSE "unsupported_capability")
                     /\ "count" \in DOMAIN reply
                     => StorageRefused(k.op, k.arg, reply, saw)
      BY <2>1, <2>4, <2>7 DEF StorageRefused
    <3> QED
      BY <1>1, <2>5, <2>7, <3>1, StorageRefuses
  <2>8. CASE a \in Stored /\ k.op = "delete" /\ ServeDelete(c, a, saw)
    <3>1. CASE References(a) # {} /\ k.arg.policy # "with_documents"
      <4>1. Refused(c, 409, "artifact_in_use", Cardinality(References(a)), saw)
        BY <2>8, <3>1 DEF ServeDelete
      <4>2. \A reply : /\ reply.status = 409 /\ reply.code = "artifact_in_use"
                       /\ reply.count = Cardinality(References(a)) /\ "count" \in DOMAIN reply
                       => StorageRefused(k.op, k.arg, reply, saw)
        BY <2>2, <2>4, <2>8, <3>1 DEF StorageRefused
      <4> QED
        BY <1>1, <2>5, <2>8, <4>1, <4>2, StorageRefuses
    <3>2. CASE ~(References(a) # {} /\ k.arg.policy # "with_documents")
      <4>1. /\ artifacts' = [artifacts EXCEPT ![a] = "gone"]
            /\ Done(c, [id |-> a, cascaded |-> References(a)], saw)
        BY <2>8, <3>2 DEF ServeDelete
      <4>2. ArtifactsOK'
        BY <4>1 DEF ArtifactsOK
      <4>3. \A r : r.cascaded = References(a) => StorageDone(k.op, k.arg, r, saw)
        BY <2>2, <2>4, <2>8 DEF StorageDone
      <4> QED
        BY <1>1, <4>1, <4>2, <4>3, StorageDoes
    <3> QED
      BY <3>1, <3>2
  <2>9. CASE a \in Stored /\ k.op # "delete" /\ ServeRead(c, a, saw)
    <3>1. CASE k.op \in Contents /\ artifacts[a] = "pointer" /\ Refused(c, 409, "pointer_content_not_managed", 0, saw)
      <4>1. \A reply : /\ reply.status = 409 /\ reply.code = "pointer_content_not_managed"
                       /\ "count" \in DOMAIN reply
                       => StorageRefused(k.op, k.arg, reply, saw)
        BY <2>2, <3>1 DEF StorageRefused, Contents
      <4> QED
        BY <1>1, <2>5, <3>1, <4>1, StorageRefuses DEF Contents
    <3>2. ASSUME NEW kind, k.op \in Contents => artifacts[a] = "managed",
                 Done(c, [id |-> a, mode |-> artifacts[a], kind |-> kind], [saw EXCEPT !.kind = kind]),
                 UNCHANGED storageVars
          PROVE  Served_(c) /\ ArtifactsOK'
      <4>1. ArtifactsOK'
        BY <3>2 DEF ArtifactsOK, storageVars
      <4> DEFINE sight == [saw EXCEPT !.kind = kind]
      <4>2. sight.mode = artifacts[a] /\ sight.kind = kind
        OBVIOUS
      <4> HIDE DEF sight, saw
      <4>3. \A r : r.id = a /\ r.mode = artifacts[a] /\ r.kind = kind => StorageDone(k.op, k.arg, r, sight)
        BY <2>1, <2>2, <2>4, <2>9, <3>2, <4>2 DEF StorageDone
      <4> QED
        BY <1>1, <3>2, <4>1, <4>3, StorageDoes DEF sight
    <3> QED
      BY <2>9, <3>1, <3>2 DEF ServeRead, Contents
  <2> QED
    BY <2>3, <2>6, <2>7, <2>8, <2>9
<1> QED
  BY <1>2, <1>3, <1>4

-----------------------------------------------------------------------------
(* Answers of the storage backend.                                         *)

\* What a step that gives a caller its answer does to the calls.
Answered_(c) ==
  /\ call[c].pc \in {"waiting", "streaming"}
  /\ CallsOK' /\ UNCHANGED open
  /\ \A x \in Callers \ {c} : call'[x] = call[x]
  /\ call'[c].fate = call[c].fate

\* StorageAnswerIsTrue, of one call.
StorageTrue(c) ==
  LET k == call[c]  error == call'[c].error  value == call'[c].value IN
  k.saw # None /\ Over(c)' =>
    /\ error = "artifact_not_found" => k.saw.mode \in {"free", "gone"}
    /\ k.op # "put" /\ k.saw.mode \in {"free", "gone"} =>
         error \in {"artifact_not_found", "network_error", "CancelledError", "http_502"}
    /\ error = "artifact_in_use" =>
         k.op = "delete" /\ k.arg.policy # "with_documents" /\ value.count = Cardinality(k.saw.references)
    /\ error = "pointer_content_not_managed" =>
         k.saw.mode = "pointer" /\ k.op \in {"get_content", "stream_content"}
    /\ error = None =>
         CASE k.op \in {"get", "head"} -> value = [id |-> k.arg.id, mode |-> k.saw.mode]
           [] k.op = "put" -> value.mode = k.arg.input
           [] k.op = "delete" -> value.cascaded \in {None, k.saw.references}
           [] k.op = "verify" -> value.kind = "verified" => k.saw.kind = "verified"
           [] OTHER -> TRUE

LEMMA ErrorsAreSomething ==
  /\ \A e \in {"artifact_in_use", "pointer_content_not_managed", "filecoin_direct_storage_not_yet_supported",
               "artifact_not_found", "unsupported_capability", "http_400", "http_502", "the caller's",
               "invalid_storage_response", "invalid_head_response", "network_error", "CancelledError",
               "entities_request_failed", "invalid_entities_response",
               "ProviderError", "RateLimitError", "ValueError", "KeyError", "AttributeError", "TypeError"} :
       e # None /\ e \notin LocalErrors
  /\ None \notin LocalErrors
BY NoneAssumption DEF StorageErrors, EntitiesErrors, HandleErrors, CommonErrors, LocalErrors

CodesFirst == {"artifact_in_use", "pointer_content_not_managed", "filecoin_direct_storage_not_yet_supported"}

LEMMA Raises ==
  ASSUME NEW r
  PROVE  /\ r.code \in CodesFirst => RaiseForStorageResponse(r) = r.code
         /\ r.code \notin CodesFirst /\ r.status = 404 => RaiseForStorageResponse(r) = "artifact_not_found"
         /\ r.code \notin CodesFirst /\ r.status # 404 /\ r.code # None => RaiseForStorageResponse(r) = r.code
         /\ r.code = None /\ r.status = 400 => RaiseForStorageResponse(r) = "http_400"
         /\ r.code = None /\ r.status = 502 => RaiseForStorageResponse(r) = "http_502"
<1>1. None \notin CodesFirst
  BY ErrorsAreSomething DEF CodesFirst
<1>2. RaiseForStorageResponse(r) =
        IF r.code \in CodesFirst THEN r.code
        ELSE IF r.status = 404 THEN "artifact_not_found"
        ELSE IF r.code # None THEN r.code
        ELSE IF r.status = 400 THEN "http_400" ELSE IF r.status = 404 THEN "http_404" ELSE "http_502"
  BY DEF RaiseForStorageResponse, HttpStatusCode, CodesFirst
<1> QED
  BY <1>1, <1>2

ArtifactOf(value, id, mode) == value = [id |-> id, mode |-> mode]

\* What an operation makes of a body is the backend's word or an error.
LEMMA MappedTells ==
  ASSUME NEW r, NEW body, NEW arg, NEW op
  PROVE  /\ op \in {"capabilities", "put", "get", "get_content", "head", "delete", "verify"} =>
              Mapped(op, r, body, arg).error \in {None, "invalid_storage_response", "invalid_head_response"}
         /\ op \in {"put", "get"} => ArtifactOf(Mapped(op, r, body, arg).value, r.id, r.mode)
         /\ op = "head" => \/ ArtifactOf(Mapped(op, r, body, arg).value, r.id, r.mode)
                           \/ ArtifactOf(Mapped(op, r, body, arg).value, arg.id, r.mode)
         /\ op = "delete" => Mapped(op, r, body, arg).value.cascaded \in {None, r.cascaded}
         /\ op = "verify" => Mapped(op, r, body, arg).value.kind \in {r.kind, "unsupported"}
<1>1. \A fields : FaultOf(body, fields) \in {None, "invalid_storage_response"}
  BY DEF FaultOf
<1>2. CASE op = "capabilities"
  <2>1. Mapped(op, r, body, arg) = MapCapabilities(r, body)
    BY <1>2, Zenon DEF Mapped
  <2> QED
    BY <1>2, <2>1 DEF MapCapabilities
<1>3. CASE op \in {"put", "get"}
  <2>1. Mapped(op, r, body, arg) = MapStoredArtifact(r, body)
    BY <1>3, Zenon DEF Mapped
  <2> QED
    BY <1>1, <1>3, <2>1 DEF MapStoredArtifact, ArtifactOf
<1>4. CASE op = "get_content"
  <2>1. Mapped(op, r, body, arg) = [error |-> None, value |-> [mode |-> r.mode]]
    BY <1>4, Zenon DEF Mapped
  <2> QED
    BY <1>4, <2>1
<1>5. CASE op = "head"
  <2>1. Mapped(op, r, body, arg) = MapHeadHeaders(r, body, arg.id)
    BY <1>5, Zenon DEF Mapped
  <2> QED
    BY <1>5, <2>1 DEF MapHeadHeaders, ArtifactOf
<1>6. CASE op = "delete"
  <2>1. Mapped(op, r, body, arg) = MapDeleteResult(r, body)
    BY <1>6, Zenon DEF Mapped
  <2> QED
    BY <1>1, <1>6, <2>1 DEF MapDeleteResult
<1>7. CASE op = "verify"
  <2>1. Mapped(op, r, body, arg) = MapVerifyResult(r, body)
    BY <1>7, Zenon DEF Mapped
  <2> QED
    BY <1>7, <2>1 DEF MapVerifyResult
<1> QED
  BY <1>2, <1>3, <1>4, <1>5, <1>6, <1>7

LEMMA StorageReceived ==
  ASSUME CallsOK, NEW c \in Callers, StorageReceives(c)
  PROVE  Answered_(c) /\ StorageTrue(c)
<1> DEFINE k == call[c]
<1>1. PICK r \in {k.reply, BadGateway} \ {None} :
        /\ k.pc = "waiting" /\ k.ns = "storage" /\ UNCHANGED open
        /\ CASE ~Success(r) -> Ends(c, RaiseForStorageResponse(r),
                                    [count |-> IF "count" \in DOMAIN r THEN r.count ELSE 0])
             [] Success(r) /\ k.op = "stream_content" -> call' = [call EXCEPT ![c].pc = "streaming"]
             [] OTHER -> \E body \in Bodies :
                  LET m == Mapped(k.op, r, body, k.arg) IN
                  Ends(c, m.error, IF m.error = None THEN m.value ELSE None)
  BY DEF StorageReceives
<1>2. /\ CallOK(k) /\ IsCall(k)
      /\ r # BadGateway => r = k.reply /\ StorageReplyOK(k.op, k.arg, k.fate, r, k.saw)
  BY <1>1 DEF CallsOK, CallOK, ReplyOK
<1>3. StorageArgOK(k.op, k.arg)
  BY <1>1, <1>2 DEF CallOK, ArgOK
<1>4. CASE ~Success(r)
  <2> DEFINE error == RaiseForStorageResponse(r)
             value == [count |-> IF "count" \in DOMAIN r THEN r.count ELSE 0]
  <2>1. Ends(c, error, value)
    BY <1>1, <1>4, Zenon
  <2>2. CASE r = BadGateway
    <3>1. error = "http_502"
      BY <2>2, Raises DEF BadGateway
    <3>2. Told(k.ns, k.op, k.fate, "http_502")
      BY ErrorsAreSomething DEF Told, Unknowing
    <3> HIDE DEF error, value
    <3>3. Answered_(c) /\ call'[c].error = "http_502"
      BY <1>1, <2>1, <3>1, <3>2, CallEnds DEF Answered_
    <3> QED
      BY <3>3, ErrorsAreSomething DEF StorageTrue
  <2>3. CASE r # BadGateway
    <3>1. k.fate = "refused" /\ StorageRefused(k.op, k.arg, r, k.saw)
      BY <1>2, <1>4, <2>3 DEF StorageReplyOK, Success
    <3>2. \/ k.op = "put" /\ error = "filecoin_direct_storage_not_yet_supported"
          \/ k.saw.mode \in {"free", "gone"} /\ error = "artifact_not_found"
          \/ k.saw.mode \in There /\ error \in {"unsupported_capability", "http_400"}
          \/ /\ k.op = "delete" /\ k.saw.mode \in There /\ error = "artifact_in_use"
             /\ k.arg.policy # "with_documents" /\ value.count = Cardinality(k.saw.references)
          \/ k.op \in Contents /\ k.saw.mode = "pointer" /\ error = "pointer_content_not_managed"
      <4>1. None \notin CodesFirst /\ "artifact_not_found" \notin CodesFirst /\ "unsupported_capability" \notin CodesFirst
        BY ErrorsAreSomething DEF CodesFirst
      <4> DEFINE told(status, code) == r.status = status /\ r.code = IF k.op = "head" THEN None ELSE code
      <4>2. CASE k.op = "put" /\ told(501, "filecoin_direct_storage_not_yet_supported")
        BY <4>2, Raises DEF CodesFirst
      <4>3. CASE k.saw.mode \in {"free", "gone"} /\ told(404, "artifact_not_found")
        BY <4>1, <4>3, Raises
      <4>4. CASE k.saw.mode \in There /\ told(400, "unsupported_capability")
        <5>1. CASE k.op = "head"
          BY <4>4, <5>1, Raises
        <5>2. CASE k.op # "head"
          <6>1. r.status = 400 /\ r.code = "unsupported_capability"
            BY <4>4, <5>2
          <6>2. r.status # 404
            BY <6>1
          <6>4. r.code # None
            BY <6>1, ErrorsAreSomething
          <6>3. error = "unsupported_capability"
            BY <4>1, <6>1, <6>2, <6>4, Raises
          <6> QED
            BY <4>4, <6>3
        <5> QED
          BY <5>1, <5>2
      <4>5. CASE /\ k.op = "delete" /\ k.saw.mode \in There /\ told(409, "artifact_in_use")
                 /\ k.arg.policy # "with_documents" /\ r.count = Cardinality(k.saw.references)
        BY <3>1, <4>5, Raises DEF CodesFirst, StorageRefused
      <4>6. CASE k.op \in Contents /\ k.saw.mode = "pointer" /\ told(409, "pointer_content_not_managed")
        BY <4>6, Raises DEF CodesFirst, Contents
      <4> HIDE DEF error, value
      <4> QED
        BY <3>1, <4>2, <4>3, <4>4, <4>5, <4>6 DEF StorageRefused
    <3> HIDE DEF error, value
    <3>3. Told(k.ns, k.op, k.fate, error)
      BY <3>1, <3>2, ErrorsAreSomething DEF Told
    <3>4. Answered_(c) /\ call'[c].error = error /\ call'[c].value = value
      BY <1>1, <2>1, <3>3, CallEnds DEF Answered_
    <3>5. StorageTrue(c)
      BY <3>2, <3>4, ErrorsAreSomething DEF StorageTrue, There, Contents
    <3> QED
      BY <3>4, <3>5
  <2> QED
    BY <2>2, <2>3
<1>5. CASE Success(r)
  <2>1. r # BadGateway /\ k.fate = "done" /\ StorageDone(k.op, k.arg, r, k.saw)
    BY <1>2, <1>5 DEF Success, BadGateway, StorageReplyOK, StorageRefused
  <2>2. CASE k.op = "stream_content"
    <3> DEFINE new == [k EXCEPT !.pc = "streaming"]
    <3>1. call' = [call EXCEPT ![c] = new]
      BY <1>1, <1>5, <2>2, Zenon
    <3>2. /\ IsCall(new) /\ new.pc = "streaming" /\ new.fate = "done" /\ new.ns = k.ns /\ new.op = k.op
          /\ new.saw = k.saw
      BY <1>2, <2>1 DEF IsCall, CallFields
    <3>3. k.saw.mode = "managed"
      BY <2>1, <2>2 DEF StorageDone, Contents
    <3> HIDE DEF new
    <3>4. CallOK(new)
      BY <1>1, <2>2, <3>2, <3>3 DEF CallOK
    <3>5. Answered_(c) /\ call'[c] = new
      BY <1>1, <2>1, <3>1, <3>2, <3>4, OneCallMoves DEF Answered_
    <3> QED
      BY <3>2, <3>5 DEF StorageTrue, Over
  <2>3. CASE k.op # "stream_content"
    <3>1. PICK body \in Bodies :
            LET m == Mapped(k.op, r, body, k.arg) IN
            Ends(c, m.error, IF m.error = None THEN m.value ELSE None)
      BY <1>1, <1>5, <2>3, Zenon
    <3> DEFINE m == Mapped(k.op, r, body, k.arg)
               value == IF m.error = None THEN m.value ELSE None
    <3>2. k.op \in {"capabilities", "put", "get", "get_content", "head", "delete", "verify"}
      BY <1>3, <2>3 DEF StorageArgOK, Reads
    <3>3. m.error \in {None, "invalid_storage_response", "invalid_head_response"}
      BY <3>2, MappedTells
    <3>4. Ends(c, m.error, value)
      BY <3>1
    <3>5. m.error = None =>
            /\ k.op \in {"put", "get"} => ArtifactOf(value, r.id, r.mode)
            /\ k.op = "head" => ArtifactOf(value, r.id, r.mode) \/ ArtifactOf(value, k.arg.id, r.mode)
            /\ k.op = "delete" => value.cascaded \in {None, r.cascaded}
            /\ k.op = "verify" => value.kind \in {r.kind, "unsupported"}
      <4>1. m.error = None => value = m.value
        OBVIOUS
      <4>2. k.op \in {"put", "get"} => ArtifactOf(m.value, r.id, r.mode)
        BY MappedTells
      <4>3. k.op = "head" => ArtifactOf(m.value, r.id, r.mode) \/ ArtifactOf(m.value, k.arg.id, r.mode)
        BY MappedTells
      <4>4. k.op = "delete" => m.value.cascaded \in {None, r.cascaded}
        BY MappedTells
      <4>5. k.op = "verify" => m.value.kind \in {r.kind, "unsupported"}
        BY MappedTells
      <4> HIDE DEF value, m
      <4> QED
        BY <4>1, <4>2, <4>3, <4>4, <4>5
    <3> HIDE DEF m, value
    <3>6. Told(k.ns, k.op, k.fate, m.error)
      BY <2>1, <3>3, ErrorsAreSomething DEF Told
    <3>7. Answered_(c) /\ call'[c].error = m.error /\ call'[c].value = value
      BY <1>1, <3>4, <3>6, CallEnds DEF Answered_
    <3>8. k.saw # None => k.op = "put" \/ k.saw.mode \in There
      BY <2>1 DEF StorageDone
    <3>9. m.error = None /\ k.saw # None =>
            CASE k.op \in {"get", "head"} -> value = [id |-> k.arg.id, mode |-> k.saw.mode]
              [] k.op = "put" -> value.mode = k.arg.input
              [] k.op = "delete" -> value.cascaded \in {None, k.saw.references}
              [] k.op = "verify" -> value.kind = "verified" => k.saw.kind = "verified"
              [] OTHER -> TRUE
      <4>1. k.op \in {"get", "head"} /\ m.error = None => value = [id |-> k.arg.id, mode |-> k.saw.mode]
        BY <2>1, <3>5 DEF StorageDone, Reads, ArtifactOf
      <4>2. k.op = "put" /\ m.error = None => value.mode = k.arg.input
        BY <2>1, <3>5 DEF StorageDone, Reads, ArtifactOf
      <4>3. k.op = "delete" /\ m.error = None => value.cascaded \in {None, k.saw.references}
        BY <2>1, <3>5 DEF StorageDone, Reads
      <4>4. k.op = "verify" /\ m.error = None => (value.kind = "verified" => k.saw.kind = "verified")
        BY <2>1, <3>5 DEF StorageDone
      <4> HIDE DEF k
      <4> QED
        BY <4>1, <4>2, <4>3, <4>4, Zenon
    <3>10. StorageTrue(c)
      BY <3>3, <3>7, <3>8, <3>9, ErrorsAreSomething DEF StorageTrue, There
    <3> QED
      BY <3>7, <3>10
  <2> QED
    BY <2>2, <2>3
<1> QED
  BY <1>4, <1>5

LEMMA StreamEnded ==
  ASSUME CallsOK, NEW c \in Callers, StreamEnds(c)
  PROVE  Answered_(c) /\ StorageTrue(c)
<1> DEFINE k == call[c]
<1>1. PICK error \in {None, "the caller's", "network_error"} :
        Ends(c, error, IF error = None THEN [mode |-> k.saw.mode] ELSE None)
  BY DEF StreamEnds
<1>2. k.pc = "streaming" /\ k.op = "stream_content" /\ k.fate = "done" /\ k.saw.mode = "managed" /\ UNCHANGED open
  BY DEF StreamEnds, CallsOK, CallOK
<1>3. Told(k.ns, k.op, k.fate, error)
  BY <1>2, ErrorsAreSomething DEF Told
<1>4. Answered_(c) /\ call'[c].error = error
  BY <1>1, <1>2, <1>3, CallEnds DEF Answered_
<1> QED
  BY <1>2, <1>4, ErrorsAreSomething DEF StorageTrue

\* Any call may end without an answer.
LEMMA CallBreaks ==
  ASSUME CallsOK, NEW c \in Callers, NetworkFails(c) \/ CancelCall(c)
  PROVE  Answered_(c) /\ StorageTrue(c) /\ call'[c].error # None
<1>1. PICK error \in {"network_error", "CancelledError"} : Ends(c, error, None)
  BY DEF NetworkFails, CancelCall
<1>2. call[c].pc \in {"waiting", "streaming"} /\ UNCHANGED open
  BY DEF NetworkFails, CancelCall
<1>3. Told(call[c].ns, call[c].op, call[c].fate, error)
  BY ErrorsAreSomething DEF Told, Unknowing
<1>4. Answered_(c) /\ call'[c].error = error
  BY <1>1, <1>2, <1>3, CallEnds DEF Answered_
<1> QED
  BY <1>4, ErrorsAreSomething DEF StorageTrue

-----------------------------------------------------------------------------
(* The entities.                                                           *)

\* Every segment there is in a path.
AnySegment == Entities \cup {<<m>> : m \in Memories}
              \cup {<<w>> : w \in {"entities", "user", "merge", "profile", "attributes", "settings",
                                   "memories", "history"}}

UserPath == Segments(<<"entities", "user">>)

Path(p, e, tail) == p \o <<e>> \o tail

LEMMA PathsTellTheEntity ==
  ASSUME NEW S, NEW p \in Seq(S), NEW e \in S, NEW f \in S, NEW t \in Seq(S), NEW u \in Seq(S),
         Path(p, e, t) = Path(p, f, u)
  PROVE  e = f /\ t = u
<1> DEFINE pe == p \o <<e>>
           pf == p \o <<f>>
<1>1. /\ pe \in Seq(S) /\ Len(pe) = Len(p) + 1 /\ pe[Len(p) + 1] = e
      /\ pf \in Seq(S) /\ Len(pf) = Len(p) + 1 /\ pf[Len(p) + 1] = f
  BY ConcatProperties
<1>2. pe \o t = pf \o u
  BY DEF Path
<1> HIDE DEF pe, pf
<1>3. Len(t) = Len(u)
  BY <1>1, <1>2, ConcatProperties
<1>4. e = f
  BY <1>1, <1>2, ConcatProperties
<1>5. \A i \in 1..Len(t) : t[i] = u[i]
  <2> TAKE i \in 1..Len(t)
  <2>1. (pe \o t)[Len(p) + 1 + i] = t[i]
    BY <1>1
  <2>2. (pf \o u)[Len(p) + 1 + i] = u[i]
    BY <1>1, <1>3
  <2> QED
    BY <1>2, <2>1, <2>2
<1> QED
  BY <1>3, <1>4, <1>5, SeqEqual

\* The words of a path are what its segments hold.
LEMMA WordSegments ==
  /\ UserPath \in Seq(AnySegment) /\ Len(UserPath) = 2
  /\ \A w \in {"profile", "attributes", "settings"} :
       Segments(<<w>>) \in Seq(AnySegment) /\ Len(Segments(<<w>>)) = 1 /\ Segments(<<w>>)[1] = <<w>>
  /\ Segments(<<>>) = <<>>
  /\ MergePath \in Seq(AnySegment) /\ Len(MergePath) = 2
  /\ Segments(<<"entities">>) \in Seq(AnySegment) /\ Len(Segments(<<"entities">>)) = 1
  /\ \A m \in Memories :
       /\ Segments(<<"memories", m, "history">>) \in Seq(AnySegment)
       /\ Len(Segments(<<"memories", m, "history">>)) = 3
       /\ Segments(<<"memories">>) \o Quote(<<m>>) \o Segments(<<"history">>) \in Seq(AnySegment)
       /\ Len(Segments(<<"memories">>) \o Quote(<<m>>) \o Segments(<<"history">>)) = 3
<1>1. \A w \in {"entities", "user", "merge", "profile", "attributes", "settings", "memories", "history"} :
         <<w>> \in AnySegment /\ Segments(<<w>>) = << <<w>> >>
  BY DEF AnySegment, Segments
<1>2. /\ UserPath = << <<"entities">>, <<"user">> >>
      /\ MergePath = << <<"entities">>, <<"merge">> >>
      /\ Segments(<<>>) = <<>>
  BY DEF UserPath, MergePath, Segments
<1>3. \A m \in Memories :
        /\ Segments(<<"memories", m, "history">>) = << <<"memories">>, <<m>>, <<"history">> >>
        /\ Quote(<<m>>) = << <<m>> >>
        /\ <<m>> \in AnySegment
  BY DEF Segments, Quote, AnySegment
<1>4. \A x \in AnySegment : << x >> \in Seq(AnySegment) /\ Len(<< x >>) = 1 /\ << x >>[1] = x
  OBVIOUS
<1>5. \A x, y, z \in AnySegment : << x, y, z >> \in Seq(AnySegment) /\ Len(<< x, y, z >>) = 3
  OBVIOUS
<1>6. ASSUME NEW m \in Memories
      PROVE  /\ Segments(<<"memories">>) \o Quote(<<m>>) \o Segments(<<"history">>) \in Seq(AnySegment)
             /\ Len(Segments(<<"memories">>) \o Quote(<<m>>) \o Segments(<<"history">>)) = 3
  <2>1. /\ << <<"memories">> >> \in Seq(AnySegment) /\ << <<m>> >> \in Seq(AnySegment)
        /\ << <<"history">> >> \in Seq(AnySegment)
        /\ Len(<< <<"memories">> >>) = 1 /\ Len(<< <<m>> >>) = 1 /\ Len(<< <<"history">> >>) = 1
    BY <1>1, <1>3, <1>4
  <2>2. << <<"memories">> >> \o << <<m>> >> \in Seq(AnySegment) /\ Len(<< <<"memories">> >> \o << <<m>> >>) = 2
    BY <2>1, ConcatProperties
  <2>3. /\ << <<"memories">> >> \o << <<m>> >> \o << <<"history">> >> \in Seq(AnySegment)
        /\ Len(<< <<"memories">> >> \o << <<m>> >> \o << <<"history">> >>) = 3
    BY <2>1, <2>2, ConcatProperties
  <2> QED
    BY <1>1, <1>3, <2>3
<1>7. /\ UserPath \in Seq(AnySegment) /\ Len(UserPath) = 2
      /\ MergePath \in Seq(AnySegment) /\ Len(MergePath) = 2
  BY <1>1, <1>2
<1>8. \A w \in {"entities", "profile", "attributes", "settings"} :
       Segments(<<w>>) \in Seq(AnySegment) /\ Len(Segments(<<w>>)) = 1 /\ Segments(<<w>>)[1] = <<w>>
  <2> TAKE w \in {"entities", "profile", "attributes", "settings"}
  <2>1. <<w>> \in AnySegment /\ Segments(<<w>>) = << <<w>> >>
    BY <1>1
  <2> QED
    BY <1>4, <2>1
<1>9. \A m \in Memories :
       /\ Segments(<<"memories", m, "history">>) \in Seq(AnySegment)
       /\ Len(Segments(<<"memories", m, "history">>)) = 3
  <2> TAKE m \in Memories
  <2>1. <<"memories">> \in AnySegment /\ <<m>> \in AnySegment /\ <<"history">> \in AnySegment
    BY <1>1, <1>3
  <2> DEFINE path == << <<"memories">>, <<m>>, <<"history">> >>
  <2>2. path \in Seq(AnySegment) /\ Len(path) = 3
    BY <1>5, <2>1
  <2>3. Segments(<<"memories", m, "history">>) = path
    BY <1>3
  <2> HIDE DEF path
  <2> QED
    BY <2>2, <2>3
<1> QED
  BY <1>2, <1>6, <1>7, <1>8, <1>9

Below(e, tail) == Path(UserPath, e, tail)
Tails == {"profile", "attributes", "settings"}
OneWord(w) == Segments(<<w>>)
HistoryOf(m) == Segments(<<"memories", m, "history">>)
ListPath == Segments(<<"entities">>)

LEMMA TailLengths ==
  /\ \A w \in Tails : OneWord(w) \in Seq(AnySegment) /\ Len(OneWord(w)) = 1
  /\ \A w, x \in Tails : OneWord(w) = OneWord(x) => w = x
  /\ <<>> \in Seq(AnySegment) /\ Len(<<>>) = 0
  /\ \A m \in Memories : HistoryOf(m) \in Seq(AnySegment) /\ Len(HistoryOf(m)) = 3
  /\ Len(MergePath) = 2 /\ Len(ListPath) = 1
<1>1. \A w \in Tails : OneWord(w) \in Seq(AnySegment) /\ Len(OneWord(w)) = 1 /\ OneWord(w)[1] = <<w>>
  BY WordSegments DEF OneWord, Tails
<1>2. \A w, x : <<w>> = <<x>> => w = x
  OBVIOUS
<1>3. ASSUME NEW w \in Tails, NEW x \in Tails, OneWord(w) = OneWord(x) PROVE w = x
  <2>1. <<w>> = OneWord(w)[1] /\ <<x>> = OneWord(x)[1]
    BY <1>1, Zenon
  <2>2. <<w>> = <<x>>
    BY <1>3, <2>1, Zenon
  <2> QED
    BY <1>2, <2>2, Zenon
<1>4. \A m \in Memories : HistoryOf(m) \in Seq(AnySegment) /\ Len(HistoryOf(m)) = 3
  BY WordSegments, Zenon DEF HistoryOf
<1>5. Len(MergePath) = 2 /\ Len(ListPath) = 1
  BY WordSegments, Zenon DEF ListPath
<1>6. <<>> \in Seq(AnySegment) /\ Len(<<>>) = 0
  OBVIOUS
<1> QED
  BY <1>1, <1>3, <1>4, <1>5, <1>6, Zenon

LEMMA PathLengths ==
  ASSUME NEW S, NEW p \in Seq(S), NEW e \in S, NEW t \in Seq(S)
  PROVE  Len(t) \in Nat /\ Len(Path(p, e, t)) = Len(p) + 1 + Len(t)
<1>1. p \o <<e>> \in Seq(S) /\ Len(p \o <<e>>) = Len(p) + 1
  BY ConcatProperties
<1> QED
  BY <1>1, ConcatProperties DEF Path

LEMMA LengthsDiffer ==
  ASSUME NEW s, NEW t, Len(s) # Len(t)
  PROVE  s # t
OBVIOUS

LEMMA BelowAnEntity ==
  ASSUME NEW e \in Entities, NEW t \in Seq(AnySegment)
  PROVE  /\ Below(e, t) # MergePath /\ Below(e, t) # ListPath
         /\ \A f \in Entities, u \in Seq(AnySegment) : Below(e, t) = Below(f, u) => e = f /\ t = u
<1>1. \A x \in Entities : x \in AnySegment
  BY DEF AnySegment
<1>2. UserPath \in Seq(AnySegment) /\ Len(UserPath) = 2
  BY WordSegments, Zenon
<1>3. Len(t) \in Nat /\ Len(Below(e, t)) = Len(UserPath) + 1 + Len(t)
  BY <1>1, <1>2, PathLengths, Zenon DEF Below
<1> DEFINE n == Len(t)
           length == Len(Below(e, t))
<1>4. n \in Nat /\ length = 2 + 1 + n
  BY <1>2, <1>3, Zenon
<1>5. Len(MergePath) = 2 /\ Len(ListPath) = 1
  BY TailLengths, Zenon
<1>6. length # 2 /\ length # 1
  <2> HIDE DEF n, length
  <2> QED
    BY <1>4
<1>7. Below(e, t) # MergePath /\ Below(e, t) # ListPath
  BY <1>5, <1>6, LengthsDiffer, Zenon
<1>8. ASSUME NEW f \in Entities, NEW u \in Seq(AnySegment), Below(e, t) = Below(f, u) PROVE e = f /\ t = u
  <2>1. Path(UserPath, e, t) = Path(UserPath, f, u)
    BY <1>8, Zenon DEF Below
  <2>2. e \in AnySegment /\ f \in AnySegment
    BY <1>1, Zenon
  <2> QED
    BY <1>2, <2>1, <2>2, PathsTellTheEntity
<1> QED
  BY <1>7, <1>8, Zenon

\* Where a path below an entity leads by its tail.
Leads(method, tail, op) ==
  \/ method = "GET" /\ tail = OneWord("profile") /\ op = "profile"
  \/ method = "GET" /\ tail = OneWord("attributes") /\ op = "attributes"
  \/ method = "GET" /\ tail = <<>> /\ op = "get"
  \/ method = "DELETE" /\ tail = <<>> /\ op = "delete"
  \/ method = "PATCH" /\ tail = OneWord("settings") /\ op = "patch_settings"
  \/ (\E m \in Memories : tail = HistoryOf(m)) /\ op = "memory_history"

\* The backend's view of a request.
LEMMA RoutesThere ==
  ASSUME NEW q, NEW r \in Routed(q)
  PROVE  \/ \E f \in Entities, t \in Seq(AnySegment) :
              q.path = Below(f, t) /\ Leads(q.method, t, r.op) /\ r.id = f
         \/ q.path = MergePath /\ r.op = "merge" /\ r.id = q.body.source
         \/ q.path = ListPath /\ r.op = "list" /\ r.id = None
<1>0. \A o, e : [op |-> o, id |-> e].op = o /\ [op |-> o, id |-> e].id = e
  OBVIOUS
<1> DEFINE at(f, x) == q.method = x.method /\ q.path = UserPath \o <<f>> \o Segments(x.tail)
<1>1. CASE \E f \in Entities : \E x \in Routes : at(f, x) /\ r = [op |-> x.op, id |-> f]
  <2>1. PICK f \in Entities, x \in Routes : at(f, x) /\ r = [op |-> x.op, id |-> f]
    BY <1>1
  <2>2. Segments(<<>>) = <<>>
    BY WordSegments, Zenon
  <2>3. \/ x = [method |-> "GET", tail |-> <<"profile">>, op |-> "profile"]
        \/ x = [method |-> "GET", tail |-> <<>>, op |-> "get"]
        \/ x = [method |-> "DELETE", tail |-> <<>>, op |-> "delete"]
        \/ x = [method |-> "GET", tail |-> <<"attributes">>, op |-> "attributes"]
        \/ x = [method |-> "PATCH", tail |-> <<"settings">>, op |-> "patch_settings"]
    BY Zenon DEF Routes
  <2>4. \/ x.method = "GET" /\ x.tail = <<"profile">> /\ x.op = "profile"
        \/ x.method = "GET" /\ x.tail = <<>> /\ x.op = "get"
        \/ x.method = "DELETE" /\ x.tail = <<>> /\ x.op = "delete"
        \/ x.method = "GET" /\ x.tail = <<"attributes">> /\ x.op = "attributes"
        \/ x.method = "PATCH" /\ x.tail = <<"settings">> /\ x.op = "patch_settings"
    BY <2>3
  <2>5. Segments(x.tail) \in Seq(AnySegment) /\ Leads(x.method, Segments(x.tail), x.op)
    BY <2>2, <2>4, TailLengths, Zenon DEF Leads, OneWord, Tails
  <2>6. q.path = Below(f, Segments(x.tail)) /\ q.method = x.method
    BY <2>1, Zenon DEF Below, Path
  <2> QED
    BY <1>0, <2>1, <2>5, <2>6, Zenon
<1>2. CASE \E f \in Entities : /\ \E m \in Memories : q.path = UserPath \o <<f>> \o Segments(<<"memories", m, "history">>)
                               /\ r = [op |-> "memory_history", id |-> f]
  <2>1. PICK f \in Entities, m \in Memories :
          /\ q.path = UserPath \o <<f>> \o Segments(<<"memories", m, "history">>)
          /\ r = [op |-> "memory_history", id |-> f]
    BY <1>2, Zenon
  <2>2. q.path = Below(f, HistoryOf(m))
    BY <2>1, Zenon DEF Below, Path, HistoryOf
  <2>3. HistoryOf(m) \in Seq(AnySegment)
    BY TailLengths, Zenon
  <2>4. r.op = "memory_history" /\ r.id = f
    BY <1>0, <2>1, Zenon
  <2> QED
    BY <2>2, <2>3, <2>4, Zenon DEF Leads
<1>3. CASE q.path = MergePath /\ r = [op |-> "merge", id |-> q.body.source]
  BY <1>0, <1>3, Zenon
<1>4. CASE q.path = Segments(<<"entities">>) /\ r = [op |-> "list", id |-> None]
  BY <1>0, <1>4, Zenon DEF ListPath
<1> DEFINE routed == UNION {{[op |-> x.op, id |-> f] : x \in {y \in Routes : at(f, y)}} : f \in Entities}
           histories == {[op |-> "memory_history", id |-> f] : f \in {x \in Entities : \E m \in Memories :
                           q.path = UserPath \o <<x>> \o Segments(<<"memories", m, "history">>)}}
           merges == IF q.path = MergePath THEN {[op |-> "merge", id |-> q.body.source]} ELSE {}
           lists == IF q.path = Segments(<<"entities">>) THEN {[op |-> "list", id |-> None]} ELSE {}
<1>5. Routed(q) = routed \cup histories \cup merges \cup lists
  BY Zenon DEF Routed, UserPath
<1>6. r \in routed => \E f \in Entities : \E x \in Routes : at(f, x) /\ r = [op |-> x.op, id |-> f]
  <2> HIDE DEF at
  <2> QED
    BY Zenon
<1>7. r \in histories
        => \E f \in Entities : /\ \E m \in Memories : q.path = UserPath \o <<f>> \o Segments(<<"memories", m, "history">>)
                               /\ r = [op |-> "memory_history", id |-> f]
  BY Zenon
<1>8. r \in merges => q.path = MergePath /\ r = [op |-> "merge", id |-> q.body.source]
  BY Zenon
<1>9. r \in lists => q.path = Segments(<<"entities">>) /\ r = [op |-> "list", id |-> None]
  BY Zenon
<1> HIDE DEF at, routed, histories, merges, lists
<1>10. r \in routed \/ r \in histories \/ r \in merges \/ r \in lists
  BY <1>5, Zenon
<1> QED
  BY <1>1, <1>2, <1>3, <1>4, <1>6, <1>7, <1>8, <1>9, <1>10, Zenon

\* Whatever an operation of entities/client.py sends, and whatever parts ids
\* have, the backend takes it for that operation on
\* that entity.
THEOREM RoutedAsMeant ==
  ASSUME NEW op, NEW q, EntitiesArgOK(op, q), NEW r \in Routed(q)
  PROVE  r.op = op /\ r.id = q.meant.id
<1>1. /\ OneWord("profile") \in Seq(AnySegment) /\ OneWord("attributes") \in Seq(AnySegment)
      /\ OneWord("settings") \in Seq(AnySegment) /\ <<>> \in Seq(AnySegment)
      /\ \A m \in Memories : HistoryOf(m) \in Seq(AnySegment)
  BY TailLengths, Zenon DEF Tails
<1>2. /\ OneWord("profile") # OneWord("attributes") /\ OneWord("profile") # <<>> /\ OneWord("attributes") # <<>>
      /\ OneWord("settings") # <<>>
      /\ \A m \in Memories : /\ OneWord("profile") # HistoryOf(m) /\ OneWord("attributes") # HistoryOf(m)
                             /\ OneWord("settings") # HistoryOf(m) /\ <<>> # HistoryOf(m)
  <2>1. /\ Len(OneWord("profile")) = 1 /\ Len(OneWord("attributes")) = 1 /\ Len(OneWord("settings")) = 1
        /\ Len(<<>>) = 0 /\ \A m \in Memories : Len(HistoryOf(m)) = 3
    BY TailLengths, Zenon DEF Tails
  <2>2. 1 # 0 /\ 1 # 3 /\ 0 # 3
    OBVIOUS
  <2>3. OneWord("profile") # OneWord("attributes")
    BY TailLengths DEF Tails
  <2> QED
    BY <2>1, <2>2, <2>3, LengthsDiffer, Zenon
<1>3. MergePath # ListPath
  BY TailLengths, LengthsDiffer, 1 # 2, Zenon

\* A path below an entity leads where its tail does.
<1>4. ASSUME NEW e \in Entities, NEW t \in Seq(AnySegment), q.path = Below(e, t)
      PROVE  Leads(q.method, t, r.op) /\ r.id = e
  <2>1. q.path # MergePath /\ q.path # ListPath
    BY <1>4, BelowAnEntity, Zenon
  <2>2. \A f \in Entities, u \in Seq(AnySegment) : q.path = Below(f, u) => f = e /\ u = t
    BY <1>4, BelowAnEntity, Zenon
  <2> QED
    BY <1>1, <2>1, <2>2, RoutesThere, Zenon
<1>5. CASE op = "list" /\ \E page \in {None, 0, 1} : q = ListRequest(page)
  <2>1. q.path = ListPath /\ q.meant.id = None
    BY <1>5 DEF ListRequest, Request, ListPath
  <2>2. \A f \in Entities, t \in Seq(AnySegment) : q.path # Below(f, t)
    BY <2>1, BelowAnEntity, Zenon
  <2>3. r.op = "list" /\ r.id = None
    BY <1>3, <2>1, <2>2, RoutesThere, Zenon
  <2> QED
    BY <1>5, <2>1, <2>3, Zenon
<1>6. ASSUME NEW e \in Entities, NEW target, op = "merge", q = MergeRequest(e, target)
      PROVE  r.op = op /\ r.id = q.meant.id
  <2>1. q.path = MergePath /\ q.meant.id = e /\ q.body.source = e
    BY <1>6 DEF MergeRequest, Request
  <2>2. \A f \in Entities, t \in Seq(AnySegment) : q.path # Below(f, t)
    BY <2>1, BelowAnEntity, Zenon
  <2>3. r.op = "merge" /\ r.id = e
    BY <1>3, <2>1, <2>2, RoutesThere, Zenon
  <2> QED
    BY <1>6, <2>1, <2>3, Zenon
<1>7. ASSUME NEW e \in Entities, NEW m \in Memories, op = "memory_history", q = MemoryHistoryRequest(e, m)
      PROVE  r.op = op /\ r.id = q.meant.id
  <2> DEFINE t == Segments(<<"memories">>) \o Quote(<<m>>) \o Segments(<<"history">>)
  <2>1. q.path = Below(e, t) /\ q.meant.id = e
    BY <1>7 DEF MemoryHistoryRequest, Request, EntityPath, Below, Path, UserPath, Quote
  <2>2. t \in Seq(AnySegment) /\ Len(t) = 3
    BY WordSegments, Zenon
  <2> HIDE DEF t
  <2>3. t # OneWord("profile") /\ t # OneWord("attributes") /\ t # OneWord("settings") /\ t # <<>>
    <3>1. /\ Len(OneWord("profile")) = 1 /\ Len(OneWord("attributes")) = 1 /\ Len(OneWord("settings")) = 1
          /\ Len(<<>>) = 0
      BY TailLengths, Zenon DEF Tails
    <3>2. 3 # 0 /\ 3 # 1
      OBVIOUS
    <3> QED
      BY <2>2, <3>1, <3>2, LengthsDiffer, Zenon
  <2>4. r.op = "memory_history" /\ r.id = e
    BY <1>4, <2>1, <2>2, <2>3, Zenon DEF Leads
  <2> QED
    BY <1>7, <2>1, <2>4, Zenon
<1>8. ASSUME NEW e \in Entities, op = "profile", q = ProfileRequest(e)
      PROVE  r.op = op /\ r.id = q.meant.id
  <2>1. q.path = Below(e, OneWord("profile")) /\ q.meant.id = e /\ q.method = "GET"
    BY <1>8 DEF ProfileRequest, Request, EntityPath, Below, Path, UserPath, Quote, OneWord
  <2>2. r.op = "profile" /\ r.id = e
    BY <1>1, <1>2, <1>4, <2>1, "GET" # "DELETE", Zenon DEF Leads
  <2> QED
    BY <1>8, <2>1, <2>2, Zenon
<1>9. ASSUME NEW e \in Entities, op = "get", q = GetRequest(e)
      PROVE  r.op = op /\ r.id = q.meant.id
  <2>1. q.path = Below(e, <<>>) /\ q.meant.id = e /\ q.method = "GET"
    BY <1>9 DEF GetRequest, Request, EntityPath, Below, Path, UserPath, Quote, OneWord
  <2>2. r.op = "get" /\ r.id = e
    BY <1>1, <1>2, <1>4, <2>1, "GET" # "DELETE", Zenon DEF Leads
  <2> QED
    BY <1>9, <2>1, <2>2, Zenon
<1>10. ASSUME NEW e \in Entities, op = "delete", q = DeleteRequest(e)
      PROVE  r.op = op /\ r.id = q.meant.id
  <2>1. q.path = Below(e, <<>>) /\ q.meant.id = e /\ q.method = "DELETE"
    BY <1>10 DEF DeleteRequest, Request, EntityPath, Below, Path, UserPath, Quote, OneWord
  <2>2. r.op = "delete" /\ r.id = e
    BY <1>1, <1>2, <1>4, <2>1, "GET" # "DELETE", "DELETE" # "PATCH", Zenon DEF Leads
  <2> QED
    BY <1>10, <2>1, <2>2, Zenon
<1>11. ASSUME NEW e \in Entities, NEW limit, op = "attributes", q = AttributesRequest(e, limit)
      PROVE  r.op = op /\ r.id = q.meant.id
  <2>1. q.path = Below(e, OneWord("attributes")) /\ q.meant.id = e /\ q.method = "GET"
    BY <1>11 DEF AttributesRequest, Request, EntityPath, Below, Path, UserPath, Quote, OneWord
  <2>2. r.op = "attributes" /\ r.id = e
    BY <1>1, <1>2, <1>4, <2>1, "GET" # "DELETE", Zenon DEF Leads
  <2> QED
    BY <1>11, <2>1, <2>2, Zenon
<1>12. ASSUME NEW e \in Entities, NEW given, op = "patch_settings", q = PatchSettingsRequest(e, given)
      PROVE  r.op = op /\ r.id = q.meant.id
  <2>1. q.path = Below(e, OneWord("settings")) /\ q.meant.id = e /\ q.method = "PATCH"
    BY <1>12 DEF PatchSettingsRequest, Request, EntityPath, Below, Path, UserPath, Quote, OneWord
  <2>2. r.op = "patch_settings" /\ r.id = e
    BY <1>1, <1>2, <1>4, <2>1, "GET" # "PATCH", "DELETE" # "PATCH", Zenon DEF Leads
  <2> QED
    BY <1>12, <2>1, <2>2, Zenon
<1> QED
  BY <1>5, <1>6, <1>7, <1>8, <1>9, <1>10, <1>11, <1>12 DEF EntitiesArgOK

LEMMA EntitiesAsk ==
  ASSUME NEW op, NEW q, EntitiesArgOK(op, q)
  PROVE  /\ op # "list" => q.meant.id \in Entities
         /\ op = "patch_settings" => \E given \in [Settings -> Values \cup {None}] :
              q.meant.given = given /\ q.body = SettingsBody(given)
         /\ op = "merge" => q.body.target \in Entities
<1>1. ASSUME NEW e \in Entities
      PROVE  /\ ProfileRequest(e).meant.id = e /\ GetRequest(e).meant.id = e /\ DeleteRequest(e).meant.id = e
             /\ \A limit : AttributesRequest(e, limit).meant.id = e
             /\ \A m : MemoryHistoryRequest(e, m).meant.id = e
             /\ \A given : /\ PatchSettingsRequest(e, given).meant.id = e
                           /\ PatchSettingsRequest(e, given).meant.given = given
                           /\ PatchSettingsRequest(e, given).body = SettingsBody(given)
             /\ \A target : MergeRequest(e, target).meant.id = e /\ MergeRequest(e, target).body.target = target
  BY DEF ProfileRequest, GetRequest, DeleteRequest, AttributesRequest, MemoryHistoryRequest,
         PatchSettingsRequest, MergeRequest, Request
<1> QED
  BY <1>1 DEF EntitiesArgOK

LEMMA EntityAnswered ==
  ASSUME CallsOK, NEW c \in Callers, NEW value, EntityDone(c, value), UNCHANGED open,
         call[c].fate = "sent", call[c].ns = "entities",
         {"op", "id"} \subseteq DOMAIN value, value.op = call[c].op, value.id = call[c].arg.meant.id
  PROVE  Served_(c)
<1> DEFINE reply == [status |-> 200, value |-> value]
<1>1. Answered(c, "done", reply, None)
  BY DEF EntityDone
<1>2. reply.status = 200 /\ reply.value = value
  OBVIOUS
<1> HIDE DEF reply
<1>3. ReplyOK(call[c].ns, call[c].op, call[c].arg, "done", reply, None)
  BY <1>2 DEF ReplyOK, EntitiesReplyOK
<1> QED
  BY <1>1, <1>3, CallIsServed DEF Served_

\* EntitiesAsAsked, of one call.
EntityAsAsked(c) ==
  LET m == call[c].arg.meant IN
  /\ \A e \in Entities \ {m.id} : settings'[e] = settings[e]
  /\ call[c].op = "patch_settings" => \A f \in Settings :
       settings'[m.id][f] = IF m.given[f] # None THEN m.given[f] ELSE settings[m.id][f]
  /\ call[c].op = "delete" => memories'[m.id] = {}

LEMMA EntitiesServed ==
  ASSUME CallsOK, EntitiesOK, NEW c \in Callers, EntitiesServes(c)
  PROVE  /\ Served_(c) /\ EntitiesOK'
         /\ call'[c].fate = "done" => EntityAsAsked(c)
<1> DEFINE k == call[c]
           e == k.arg.meant.id
<1>1. k.ns = "entities" /\ k.fate = "sent" /\ EntitiesArgOK(k.op, k.arg) /\ UNCHANGED open
  BY DEF EntitiesServes, CallsOK, CallOK, ArgOK
<1>2. CASE EntitiesRefuses(c)
  <2> DEFINE reply == [status |-> 422]
  <2>1. Answered(c, "refused", reply, None) /\ reply.status = 422
    BY <1>2 DEF EntitiesRefuses
  <2> HIDE DEF reply
  <2>2. ReplyOK(k.ns, k.op, k.arg, "refused", reply, None)
    BY <1>1, <2>1 DEF ReplyOK, EntitiesReplyOK
  <2>3. Served_(c) /\ call'[c].fate = "refused"
    BY <1>1, <2>1, <2>2, CallIsServed DEF Served_
  <2>4. EntitiesOK'
    BY <1>2 DEF EntitiesRefuses, entitiesVars, EntitiesOK
  <2> QED
    BY <2>3, <2>4
<1>3. CASE Carried(c, k.op, e)
  <2>1. CASE k.op = "delete"
    <3>1. /\ settings' = [settings EXCEPT ![e] = [f \in Settings |-> "unset"]]
          /\ memories' = [memories EXCEPT ![e] = {}]
          /\ EntityDone(c, [op |-> "delete", id |-> e, memories |-> memories[e]])
      BY <1>3, <2>1, Zenon DEF Carried
    <3>2. e \in Entities
      BY <1>1, <2>1, EntitiesAsk
    <3>3. Served_(c)
      BY <1>1, <2>1, <3>1, EntityAnswered
    <3> HIDE DEF k, e
    <3>4. EntitiesOK'
      BY <3>1, <3>2 DEF EntitiesOK
    <3>5. memories'[e] = {} /\ \A x \in Entities \ {e} : settings'[x] = settings[x]
      BY <3>1, <3>2 DEF EntitiesOK
    <3> QED
      BY <2>1, <3>3, <3>4, <3>5 DEF EntityAsAsked, k, e
  <2>2. CASE k.op = "patch_settings"
    <3>1. /\ settings' = [settings EXCEPT ![e] = With(k.arg.body, @)]
          /\ EntityDone(c, [op |-> "patch_settings", id |-> e, settings |-> settings'[e]])
          /\ UNCHANGED memories
      BY <1>3, <2>2, Zenon DEF Carried
    <3>2. e \in Entities
      BY <1>1, <2>2, EntitiesAsk
    <3>3. PICK given \in [Settings -> Values \cup {None}] :
             k.arg.meant.given = given /\ k.arg.body = SettingsBody(given)
      BY <1>1, <2>2, EntitiesAsk
    <3>4. Served_(c)
      BY <1>1, <2>2, <3>1, EntityAnswered
    <3> HIDE DEF k, e
    <3>5. settings'[e] = With(SettingsBody(given), settings[e])
      BY <3>1, <3>2, <3>3 DEF EntitiesOK
    <3>6. /\ settings'[e] = [f \in Settings |-> settings'[e][f]]
          /\ \A f \in Settings : settings'[e][f] = IF given[f] # None THEN given[f] ELSE settings[e][f]
      <4>1. DOMAIN settings[e] = Settings /\ DOMAIN given = Settings
        BY <3>2 DEF EntitiesOK
      <4> QED
        BY <3>5, <4>1 DEF With, SettingsBody
    <3>7. \A x \in Entities \ {e} : settings'[x] = settings[x]
      BY <3>1, <3>2 DEF EntitiesOK
    <3>8. EntitiesOK'
      BY <3>1, <3>2, <3>6, <3>7 DEF EntitiesOK
    <3> QED
      BY <2>2, <3>3, <3>4, <3>6, <3>7, <3>8 DEF EntityAsAsked, k, e
  <2>3. CASE k.op = "merge"
    <3> DEFINE target == k.arg.body.target
    <3>1. /\ memories' = [memories EXCEPT ![e] = {}, ![target] = memories[e] \cup memories[target]]
          /\ EntityDone(c, [op |-> "merge", id |-> e, target |-> target])
          /\ UNCHANGED settings
      BY <1>3, <2>3, Zenon DEF Carried
    <3>2. Served_(c)
      BY <1>1, <2>3, <3>1, EntityAnswered
    <3> HIDE DEF k, e, target
    <3>3. EntitiesOK'
      BY <3>1 DEF EntitiesOK
    <3> QED
      BY <2>3, <3>1, <3>2, <3>3 DEF EntityAsAsked, k, e
  <2>4. CASE k.op \notin {"delete", "patch_settings", "merge"}
    <3>1. /\ UNCHANGED entitiesVars
          /\ \/ EntityDone(c, [op |-> k.op, id |-> e, memories |-> memories[e]])
             \/ EntityDone(c, [op |-> k.op, id |-> e])
      BY <1>3, <2>4, Zenon DEF Carried
    <3>2. Served_(c)
      BY <1>1, <2>4, <3>1, EntityAnswered
    <3>3. EntitiesOK'
      BY <3>1 DEF entitiesVars, EntitiesOK
    <3> QED
      BY <2>4, <3>1, <3>2, <3>3 DEF EntityAsAsked, entitiesVars
  <2> QED
    BY <2>1, <2>2, <2>3, <2>4
<1>4. \A r \in Routed(k.arg) : r.op = k.op /\ r.id = e
  BY <1>1, RoutedAsMeant
<1> QED
  BY <1>2, <1>3, <1>4 DEF EntitiesServes

\* The second half of it.
EntityTold(c) ==
  call'[c].error = None => call'[c].value.op = call[c].op /\ call'[c].value.id = call[c].arg.meant.id

LEMMA EntitiesReceived ==
  ASSUME CallsOK, NEW c \in Callers, EntitiesReceives(c)
  PROVE  Answered_(c) /\ EntityTold(c)
<1> DEFINE k == call[c]
<1>1. PICK r \in {k.reply, BadGateway} \ {None} :
        /\ k.pc = "waiting" /\ k.ns = "entities" /\ UNCHANGED open
        /\ CASE ~Success(r) -> Ends(c, HttpError(r), [status |-> r.status])
             [] OTHER -> \E body \in EntityBodies :
                  IF DecodeJson(body) # None THEN Ends(c, DecodeJson(body), None)
                  ELSE LET m == IF k.op = "attributes" THEN DecodeAttributesEnvelope(r, body)
                                                       ELSE DecodedEntity(r, body) IN
                       Ends(c, m.error, IF m.error = None THEN m.value ELSE None)
  BY DEF EntitiesReceives
<1>2. r # BadGateway => r = k.reply /\ EntitiesReplyOK(k.op, k.arg, k.fate, r)
  BY <1>1 DEF CallsOK, CallOK, ReplyOK
<1>3. CASE ~Success(r)
  <2>1. Ends(c, "entities_request_failed", [status |-> r.status])
    BY <1>1, <1>3, Zenon DEF HttpError
  <2>2. Told(k.ns, k.op, k.fate, "entities_request_failed")
    BY ErrorsAreSomething DEF Told, Unknowing
  <2>3. Answered_(c) /\ call'[c].error = "entities_request_failed"
    BY <1>1, <2>1, <2>2, CallEnds DEF Answered_
  <2> QED
    BY <2>3, ErrorsAreSomething DEF EntityTold
<1>4. CASE Success(r)
  <2>1. /\ k.fate = "done" /\ {"op", "id"} \subseteq DOMAIN r.value
        /\ r.value.op = k.op /\ r.value.id = k.arg.meant.id
    BY <1>2, <1>4 DEF Success, BadGateway, EntitiesReplyOK
  <2>2. PICK error, value :
          /\ error \in {None, "invalid_entities_response"}
          /\ Ends(c, error, value)
          /\ error = None => value = r.value \/ value = [r.value EXCEPT !.memories = {}]
    <3>1. PICK body \in EntityBodies :
            IF DecodeJson(body) # None THEN Ends(c, DecodeJson(body), None)
            ELSE LET m == IF k.op = "attributes" THEN DecodeAttributesEnvelope(r, body)
                                                 ELSE DecodedEntity(r, body) IN
                 Ends(c, m.error, IF m.error = None THEN m.value ELSE None)
      BY <1>1, <1>4, Zenon
    <3>2. CASE DecodeJson(body) # None
      BY <3>1, <3>2, ErrorsAreSomething DEF DecodeJson
    <3>3. CASE DecodeJson(body) = None
      <4> DEFINE m == IF k.op = "attributes" THEN DecodeAttributesEnvelope(r, body) ELSE DecodedEntity(r, body)
                 value == IF m.error = None THEN m.value ELSE None
      <4>1. Ends(c, m.error, value)
        BY <3>1, <3>3
      <4>2. /\ m.error \in {None, "invalid_entities_response"}
            /\ m.value = r.value \/ m.value = [r.value EXCEPT !.memories = {}]
        BY DEF DecodeAttributesEnvelope, DecodedEntity, ValidateResponse
      <4>3. m.error = None => value = m.value
        OBVIOUS
      <4> HIDE DEF m, value
      <4> QED
        BY <4>1, <4>2, <4>3
    <3> QED
      BY <3>2, <3>3
  <2>3. error = None => value.op = k.op /\ value.id = k.arg.meant.id
    BY <2>1, <2>2
  <2>4. Told(k.ns, k.op, k.fate, error)
    BY <2>1, <2>2, ErrorsAreSomething DEF Told
  <2>5. Answered_(c) /\ call'[c].error = error /\ call'[c].value = value
    BY <1>1, <2>2, <2>4, CallEnds DEF Answered_
  <2> QED
    BY <2>3, <2>5 DEF EntityTold
<1> QED
  BY <1>3, <1>4

-----------------------------------------------------------------------------
(* The handle.                                                             *)

Tellers == {"search", "list", "expand", "get"}

\* The scope that was applied, by what each of their routes knows of.
AppliedScope(op, scope) ==
  IF op = "search" THEN scope ELSE IF op = "list" THEN StripAgentScope(scope) ELSE StripReadFilters(scope)

\* HandleTellsTruth, of one memory.
MemoryTrue(op, asked, m, row) ==
  /\ asked.ids # {} => m.id \in asked.ids
  /\ m.scope.workspace = row.workspace /\ (row.workspace = None => m.scope.user = row.user)
  /\ m.scope.thread \in {None, row.thread}
  /\ m.scope.agent_scope = "self" => m.scope.agent = row.agent
  /\ op \in {"search", "list"} /\ asked.scope.thread # None => row.thread = asked.scope.thread
  /\ op = "list" /\ asked.more = "site" => row.site = "site"

LEMMA ScopesApplied ==
  ASSUME NEW s \in Scopes, NEW op \in Tellers
  PROVE  LET t == AppliedScope(op, s) IN
         /\ t.user = s.user /\ t.workspace = s.workspace /\ t.agent = s.agent
         /\ t.agent_scope = IF op = "search" THEN s.agent_scope ELSE None
         /\ op \in {"search", "list"} => t.thread = s.thread
         /\ \A x : LET u == [t EXCEPT !.thread = x] IN
              /\ u.user = s.user /\ u.workspace = s.workspace /\ u.agent = s.agent
              /\ u.agent_scope = t.agent_scope /\ u.thread = x
BY ScopesAssumption DEF AppliedScope, StripAgentScope, StripReadFilters, UserScope, WorkspaceScope, Tellers

\* A memory is told of the scope it is of, or the call fails.
LEMMA MemoriesAreTold ==
  ASSUME NEW op \in Tellers, NEW asked, asked.scope \in Scopes, NEW m, NEW row, RawOK(op, asked, m, row),
         BuildMemoryScope(m.session, AppliedScope(op, asked.scope)).error = None
  PROVE  MemoryTrue(op, asked, [id |-> m.id, scope |-> BuildMemoryScope(m.session, AppliedScope(op, asked.scope)).scope],
                    row)
<1> DEFINE t == AppliedScope(op, asked.scope)
           scope == BuildMemoryScope(m.session, t).scope
           told == [id |-> m.id, scope |-> scope]
<1>1. /\ t.user = asked.scope.user /\ t.workspace = asked.scope.workspace /\ t.agent = asked.scope.agent
      /\ t.agent_scope = IF op = "search" THEN asked.scope.agent_scope ELSE None
      /\ op \in {"search", "list"} => t.thread = asked.scope.thread
  BY ScopesApplied
<1>2. /\ scope.user = asked.scope.user /\ scope.workspace = asked.scope.workspace
      /\ scope.agent = asked.scope.agent
      /\ scope.agent_scope = IF op = "search" THEN asked.scope.agent_scope ELSE None
      /\ scope.thread = IF m.session = None THEN t.thread ELSE m.session
  <2>1. CASE m.session = None
    <3>1. scope = t
      BY <2>1 DEF BuildMemoryScope
    <3> HIDE DEF t, scope
    <3> QED
      BY <1>1, <2>1, <3>1
  <2>2. CASE m.session # None
    <3>1. scope = [t EXCEPT !.thread = m.session]
      BY <2>2 DEF BuildMemoryScope
    <3>2. LET u == [t EXCEPT !.thread = m.session] IN
            /\ u.user = asked.scope.user /\ u.workspace = asked.scope.workspace /\ u.agent = asked.scope.agent
            /\ u.agent_scope = t.agent_scope /\ u.thread = m.session
      BY ScopesApplied
    <3> HIDE DEF t, scope
    <3> QED
      BY <1>1, <2>2, <3>1, <3>2
  <2> QED
    BY <2>1, <2>2
<1>3. t.thread \in {None, m.session}
  BY NoneAssumption DEF BuildMemoryScope, HandleErrors
<1>4. told.id = m.id /\ told.scope = scope
  OBVIOUS
<1> HIDE DEF t, scope, told
<1>5. MemoryTrue(op, asked, told, row)
  BY <1>1, <1>2, <1>3, <1>4, NoneAssumption DEF MemoryTrue, RawOK
<1> QED
  BY <1>5 DEF told, scope, t

LEMMA MappedHandleTells ==
  ASSUME NEW op, NEW r, NEW arg
  PROVE  /\ op \in Tellers =>
              /\ MappedHandle(op, r, arg).error = ToAtomicMemory(r.raws, AppliedScope(op, arg.asked.scope)).error
              /\ "memories" \in DOMAIN MappedHandle(op, r, arg).value
              /\ MappedHandle(op, r, arg).value.memories =
                   ToAtomicMemory(r.raws, AppliedScope(op, arg.asked.scope)).value.memories
         /\ op = "consolidate" =>
              /\ MappedHandle(op, r, arg).error = None /\ "memories" \notin DOMAIN MappedHandle(op, r, arg).value
              /\ MappedHandle(op, r, arg).value.user = r.user
              /\ MappedHandle(op, r, arg).value.kind = IF r.ids THEN "execution" ELSE "scan"
         /\ op \notin Tellers \cup {"consolidate"} =>
              /\ MappedHandle(op, r, arg).error = None /\ "memories" \notin DOMAIN MappedHandle(op, r, arg).value
              /\ MappedHandle(op, r, arg).value.user = r.user
<1> DEFINE t == ToAtomicMemory(r.raws, AppliedScope(op, arg.asked.scope))
<1>0. t = [error |-> t.error, value |-> [memories |-> t.value.memories]]
  <2> DEFINE e == IF \E m \in r.raws : BuildMemoryScope(m.session, AppliedScope(op, arg.asked.scope)).error # None
                    THEN "ValueError" ELSE None
             v == {[id |-> m.id, scope |-> BuildMemoryScope(m.session, AppliedScope(op, arg.asked.scope)).scope] :
                     m \in r.raws}
  <2>1. t = [error |-> e, value |-> [memories |-> v]]
    BY DEF ToAtomicMemory
  <2> HIDE DEF e, v, t
  <2> QED
    BY <2>1
<1> HIDE DEF t
<1>1. CASE op = "search"
  <2>1. MappedHandle(op, r, arg) = MapSearchResponse(r.raws, arg.asked.scope)
    BY <1>1, Zenon DEF MappedHandle
  <2> QED
    <3>1. ToAtomicMemory(r.raws, arg.asked.scope) = t
      BY <1>1 DEF AppliedScope, t
    <3>2. MappedHandle(op, r, arg) = [t EXCEPT !.value = With([page |-> arg.asked.scope], @)]
      BY <2>1, <3>1 DEF MapSearchResponse
    <3>3. MappedHandle(op, r, arg) =
            [error |-> t.error, value |-> With([page |-> arg.asked.scope], [memories |-> t.value.memories])]
      BY <1>0, <3>2
    <3> QED
      BY <1>1, <3>3 DEF With, Tellers, t
<1>2. CASE op = "list"
  <2> DEFINE m == ToAtomicMemory(r.raws, StripAgentScope(arg.asked.scope))
  <2>1. MappedHandle(op, r, arg) =
          [m EXCEPT !.value = With([cursor |-> ListCursor(arg.sent, Cardinality(r.raws))], @)]
    BY <1>2, Zenon DEF MappedHandle
  <2> QED
    <3> HIDE DEF m
    <3>1. m = t
      BY <1>2 DEF AppliedScope, m, t
    <3>2. MappedHandle(op, r, arg) =
            [error |-> t.error, value |-> With([cursor |-> ListCursor(arg.sent, Cardinality(r.raws))],
                                               [memories |-> t.value.memories])]
      BY <1>0, <2>1, <3>1
    <3> QED
      BY <1>2, <3>2 DEF With, Tellers, t
<1>3. CASE op \in {"expand", "get"}
  <2>1. MappedHandle(op, r, arg) = ToAtomicMemory(r.raws, StripReadFilters(arg.asked.scope))
    BY <1>3, Zenon DEF MappedHandle
  <2> QED
    <3>1. MappedHandle(op, r, arg) = t
      BY <1>3, <2>1 DEF AppliedScope, t
    <3> QED
      BY <1>0, <1>3, <3>1 DEF Tellers, t
<1>4. CASE op = "consolidate"
  <2>1. MappedHandle(op, r, arg) = ToConsolidationResult(r)
    BY <1>4, Zenon DEF MappedHandle
  <2> QED
    BY <1>4, <2>1 DEF ToConsolidationResult, Tellers
<1>5. CASE op \notin Tellers \cup {"consolidate"}
  <2>1. MappedHandle(op, r, arg) = [error |-> None, value |-> [user |-> r.user]]
    BY <1>5, Zenon DEF MappedHandle, Tellers
  <2> QED
    BY <1>5, <2>1
<1> QED
  BY <1>1, <1>2, <1>3, <1>4, <1>5 DEF Tellers

\* HandleTellsTruth, of one call.
HandleTrue(c) ==
  LET k == call[c]  asked == k.arg.asked  value == call'[c].value IN
  IF "memories" \in DOMAIN value
    THEN \A m \in value.memories : MemoryTrue(k.op, asked, m, k.saw.rows[m.id])
    ELSE /\ k.op \notin {"ingest", "resolve"} \cup UnquotedReads => value.user = asked.user
         /\ k.op = "consolidate" => value.kind = IF asked.more THEN "execution" ELSE "scan"

LEMMA RowsOrNot ==
  ASSUME NEW op, NEW arg, HandleArgOK(op, arg)
  PROVE  /\ op \in Tellers => arg.asked.scope \in Scopes
         /\ op \notin RowRoutes => AdminArgOK(op, arg.asked, arg.sent)
         /\ op \in RowRoutes => ScopedArgOK(op, arg.asked, arg.sent)
<1>1. RowRoutes \cap AdminOps = {} /\ Tellers \subseteq RowRoutes
  BY DEF RowRoutes, AdminOps, Categories, Tellers
<1> QED
  BY <1>1 DEF HandleArgOK, ScopedArgOK, AdminArgOK

\* The body of an answer is the core's word or an error.
LEMMA AnswersAreTrue ==
  ASSUME NEW op, NEW arg, HandleArgOK(op, arg), NEW reply, NEW saw,
         HandleReplyOK(op, arg, "done", reply, saw), op # "delete",
         NEW r, r = reply \/ r = [reply EXCEPT !.raws = {}],
         MappedHandle(op, r, arg).error = None
  PROVE  LET value == MappedHandle(op, r, arg).value IN
         IF "memories" \in DOMAIN value
           THEN \A m \in value.memories : MemoryTrue(op, arg.asked, m, saw.rows[m.id])
           ELSE /\ op \notin {"ingest", "resolve"} \cup UnquotedReads => value.user = arg.asked.user
                /\ op = "consolidate" => value.kind = IF arg.asked.more THEN "execution" ELSE "scan"
<1> DEFINE value == MappedHandle(op, r, arg).value
<1>1. /\ reply = [status |-> 200, raws |-> reply.raws, user |-> arg.sent.user, ids |-> reply.ids]
      /\ op \in Tellers => \A m \in reply.raws : RawOK(op, arg.asked, m, saw.rows[m.id])
      /\ op = "consolidate" => reply.ids = arg.asked.more
  BY DEF HandleReplyOK, Tellers
<1>2. r.user = arg.sent.user /\ r.ids = reply.ids /\ (r.raws = reply.raws \/ r.raws = {})
  BY <1>1
<1>3. CASE op \in Tellers
  <2> DEFINE scope == AppliedScope(op, arg.asked.scope)
             t == ToAtomicMemory(r.raws, scope)
  <2>1. t.error = None /\ "memories" \in DOMAIN value /\ value.memories = t.value.memories
    BY <1>3, MappedHandleTells
  <2>2. ASSUME NEW m \in value.memories PROVE MemoryTrue(op, arg.asked, m, saw.rows[m.id])
    <3>1. t.value.memories = {[id |-> x.id, scope |-> BuildMemoryScope(x.session, scope).scope] : x \in r.raws}
      BY DEF ToAtomicMemory
    <3>2. PICK x \in r.raws : m = [id |-> x.id, scope |-> BuildMemoryScope(x.session, scope).scope]
      BY <2>1, <2>2, <3>1, Zenon
    <3>3. \A y \in r.raws : BuildMemoryScope(y.session, scope).error = None
      <4>1. "ValueError" # None
        BY ErrorsAreSomething
      <4>2. t.error = IF \E y \in r.raws : BuildMemoryScope(y.session, scope).error # None THEN "ValueError" ELSE None
        BY DEF ToAtomicMemory
      <4> HIDE DEF t, scope
      <4> QED
        BY <2>1, <4>1, <4>2, Zenon
    <3>4. RawOK(op, arg.asked, x, saw.rows[x.id])
      BY <1>1, <1>2, <1>3
    <3>5. arg.asked.scope \in Scopes
      BY <1>3, RowsOrNot
    <3>6. m.id = x.id
      BY <3>2
    <3>7. MemoryTrue(op, arg.asked, m, saw.rows[x.id])
      BY <1>3, <3>2, <3>3, <3>4, <3>5, MemoriesAreTold
    <3> QED
      BY <3>6, <3>7
  <2> HIDE DEF value
  <2> QED
    BY <2>1, <2>2, Zenon DEF value
<1>4. CASE op \notin Tellers
  <2>1. "memories" \notin DOMAIN value /\ value.user = r.user
    BY <1>4, MappedHandleTells
  <2>2. op \notin {"ingest", "resolve"} \cup UnquotedReads => arg.sent.user = arg.asked.user
    BY <1>4, RowsOrNot DEF RowRoutes, Tellers, AdminArgOK
  <2>3. op = "consolidate" => value.kind = IF arg.asked.more THEN "execution" ELSE "scan"
    BY <1>1, <1>2, <1>4, MappedHandleTells
  <2> HIDE DEF value
  <2> QED
    BY <1>2, <2>1, <2>2, <2>3 DEF value
<1> QED
  BY <1>3, <1>4

\* What a body may be found guilty of.
BodyFaults == {None, "AttributeError", "KeyError", "TypeError", "ValueError"}

LEMMA RebuiltFaults ==
  ASSUME NEW op, NEW body
  PROVE  RebuiltFault(op, body) \in BodyFaults
<1> DEFINE A == body = "bad field"
           B == body = "no key" /\ op \in {"get", "health", "update_config"}
           C == body \in {"null", "list"} /\ op \in TakenApart
           D == body \in {"null", "list"} /\ op \notin TakenApart \cup {"get"}
           E == body = "list" /\ op = "get"
<1>1. RebuiltFault(op, body) = CASE A -> "ValueError" [] B -> "KeyError" [] C -> "AttributeError"
                                 [] D -> "ValueError" [] E -> "TypeError" [] OTHER -> None
  BY Zenon DEF RebuiltFault
<1>2. /\ ~(A /\ B) /\ ~(A /\ C) /\ ~(A /\ D) /\ ~(A /\ E) /\ ~(B /\ C) /\ ~(B /\ D)
      /\ ~(B /\ E) /\ ~(C /\ D) /\ ~(C /\ E) /\ ~(D /\ E)
  BY DEF TakenApart
<1> HIDE DEF A, B, C, D, E
<1>3. RebuiltFault(op, body) \in {"ValueError", "KeyError", "AttributeError", "TypeError", None}
  BY <1>1, <1>2, Zenon
<1> QED
  BY <1>3 DEF BodyFaults

LEMMA HandleReceived ==
  ASSUME CallsOK, NEW c \in Callers, HandleReceives(c)
  PROVE  Answered_(c) /\ (call'[c].error = None => HandleTrue(c))
<1> DEFINE k == call[c]
           gone == k.op \in {"get", "delete"}
<1>1. PICK r \in {k.reply, BadGateway} \ {None} :
        /\ k.pc = "waiting" /\ k.ns = "memory" /\ UNCHANGED open
        /\ CASE r.status = 404 /\ k.op \in {"get", "delete"} -> Ends(c, None, [memories |-> {}])
             [] ~Success(r) /\ ~(r.status = 404 /\ k.op \in {"get", "delete"}) -> Ends(c, RaiseForStatus(r), None)
             [] Success(r) /\ k.op \in {"delete", "delete_lesson"} -> Ends(c, None, [memories |-> {}])
             [] OTHER -> \E body \in HandleBodies :
                  LET m == MappedHandle(k.op, IF body \in {"null", "no key"} THEN [r EXCEPT !.raws = {}] ELSE r, k.arg)
                      error == IF BodyFault(k.op, body) # None THEN BodyFault(k.op, body) ELSE m.error IN
                  Ends(c, error, IF error = None THEN m.value ELSE None)
  BY DEF HandleReceives
<1>2. /\ HandleArgOK(k.op, k.arg)
      /\ r # BadGateway => r = k.reply /\ HandleReplyOK(k.op, k.arg, k.fate, r, k.saw)
  <2>1. k.pc = "waiting" /\ k.ns = "memory" /\ r \in {k.reply, BadGateway} \ {None}
    BY <1>1
  <2>2. CallOK(k)
    BY DEF CallsOK
  <2>3. k.fate # "sent" => ReplyOK(k.ns, k.op, k.arg, k.fate, k.reply, k.saw)
    BY <2>1, <2>2 DEF CallOK
  <2>4. k.fate = "sent" => k.reply = None
    BY <2>1, <2>2 DEF CallOK
  <2>5. HandleArgOK(k.op, k.arg)
    BY <2>1, <2>2 DEF CallOK, ArgOK
  <2> HIDE DEF k
  <2> QED
    BY <2>1, <2>3, <2>4, <2>5 DEF ReplyOK
<1>3. BadGateway.status = 502
  BY DEF BadGateway
<1>4. /\ r.status = 200 => k.fate = "done"
      /\ r.status = 404 => k.fate = "refused"
      /\ r.status = 429 => k.fate = "refused"
      /\ r.status = 200 => r # BadGateway /\ HandleReplyOK(k.op, k.arg, "done", r, k.saw)
  BY <1>2, <1>3 DEF HandleReplyOK
<1>5. ASSUME NEW value, Ends(c, None, value), value = [memories |-> {}],
             k.fate = "done" \/ (k.fate = "refused" /\ gone)
      PROVE  Answered_(c) /\ HandleTrue(c)
  <2>1. Told(k.ns, k.op, k.fate, None)
    BY <1>1, <1>5, ErrorsAreSomething DEF Told
  <2>2. call[c].pc = "waiting" /\ UNCHANGED open
    BY <1>1
  <2>3. Answered_(c) /\ call'[c].value = value
    BY <1>5, <2>1, <2>2, CallEnds DEF Answered_
  <2>4. "memories" \in DOMAIN value /\ value.memories = {}
    BY <1>5
  <2> QED
    BY <2>3, <2>4 DEF HandleTrue
<1>6. CASE r.status = 404 /\ gone
  <2>1. Ends(c, None, [memories |-> {}])
    BY <1>1, <1>6, Zenon
  <2> QED
    BY <1>4, <1>5, <1>6, <2>1
<1>7. CASE ~Success(r) /\ ~(r.status = 404 /\ gone)
  <2>1. Ends(c, RaiseForStatus(r), None)
    BY <1>1, <1>7, Zenon
  <2>2. Told(k.ns, k.op, k.fate, RaiseForStatus(r)) /\ RaiseForStatus(r) # None
    <3>1. \/ RaiseForStatus(r) = "RateLimitError" /\ k.fate = "refused"
          \/ RaiseForStatus(r) = "ProviderError"
      BY <1>4 DEF RaiseForStatus
    <3> QED
      BY <3>1, ErrorsAreSomething DEF Told, Unknowing
  <2>3. call[c].pc = "waiting" /\ UNCHANGED open
    BY <1>1
  <2>4. Answered_(c) /\ call'[c].error # None
    BY <2>1, <2>2, <2>3, CallEnds DEF Answered_
  <2> QED
    BY <2>4
<1>8. CASE Success(r) /\ ~(r.status = 404 /\ gone) /\ k.op \in {"delete", "delete_lesson"}
  <2>1. Ends(c, None, [memories |-> {}])
    BY <1>1, <1>8, Zenon
  <2> QED
    BY <1>4, <1>5, <1>8, <2>1 DEF Success
<1>9. CASE Success(r) /\ ~(r.status = 404 /\ gone) /\ k.op \notin {"delete", "delete_lesson"}
  <2>1. PICK body \in HandleBodies :
          LET m == MappedHandle(k.op, IF body \in {"null", "no key"} THEN [r EXCEPT !.raws = {}] ELSE r, k.arg)
              error == IF BodyFault(k.op, body) # None THEN BodyFault(k.op, body) ELSE m.error IN
          Ends(c, error, IF error = None THEN m.value ELSE None)
    BY <1>1, <1>9, Zenon
  <2> DEFINE seen == IF body \in {"null", "no key"} THEN [r EXCEPT !.raws = {}] ELSE r
             m == MappedHandle(k.op, seen, k.arg)
             error == IF BodyFault(k.op, body) # None THEN BodyFault(k.op, body) ELSE m.error
             value == IF error = None THEN m.value ELSE None
  <2>2. Ends(c, error, value)
    BY <2>1
  <2>3. k.fate = "done" /\ HandleReplyOK(k.op, k.arg, "done", r, k.saw)
    BY <1>4, <1>9 DEF Success
  <2>4. seen = r \/ seen = [r EXCEPT !.raws = {}]
    OBVIOUS
  <2> HIDE DEF seen
  <2>5. BodyFault(k.op, body) \in BodyFaults
    <3>1. \A op, b : CategoryFault(op, b) \in BodyFaults
      BY DEF CategoryFault, BodyFaults
    <3>2. \A op, b : RebuiltFault(op, b) \in BodyFaults
      BY RebuiltFaults
    <3>3. \/ BodyFault(k.op, body) = "ValueError"
          \/ BodyFault(k.op, body) = CategoryFault(k.op, body)
          \/ BodyFault(k.op, body) = RebuiltFault(k.op, body)
      <4>1. CASE body = "no json"
        BY <4>1, Zenon DEF BodyFault
      <4>2. CASE body # "no json" /\ k.op \in Categories
        BY <4>2, Zenon DEF BodyFault
      <4>3. CASE body # "no json" /\ ~(k.op \in Categories)
        BY <4>3, Zenon DEF BodyFault
      <4> QED
        BY <4>1, <4>2, <4>3
    <3> QED
      BY <3>1, <3>2, <3>3 DEF BodyFaults
  <2>6. m.error \in {None, "ValueError"}
    <3>1. \A raws, scope : ToAtomicMemory(raws, scope).error \in {None, "ValueError"}
      BY DEF ToAtomicMemory
    <3> QED
      BY <3>1, MappedHandleTells
  <2>7. error \in BodyFaults /\ (error = None => m.error = None /\ value = m.value)
    BY <2>5, <2>6 DEF BodyFaults
  <2> HIDE DEF error, value
  <2>8. Told(k.ns, k.op, k.fate, error)
    BY <2>3, <2>7, ErrorsAreSomething DEF Told, BodyFaults
  <2>9. Answered_(c) /\ call'[c].error = error /\ call'[c].value = value
    <3>1. call[c].pc = "waiting" /\ UNCHANGED open
      BY <1>1
    <3> QED
      BY <2>2, <2>8, <3>1, CallEnds DEF Answered_
  <2>10. m.error = None =>
           IF "memories" \in DOMAIN m.value
             THEN \A x \in m.value.memories : MemoryTrue(k.op, k.arg.asked, x, k.saw.rows[x.id])
             ELSE /\ k.op \notin {"ingest", "resolve"} \cup UnquotedReads => m.value.user = k.arg.asked.user
                  /\ k.op = "consolidate" => m.value.kind = IF k.arg.asked.more THEN "execution" ELSE "scan"
    BY <1>2, <1>9, <2>3, <2>4, AnswersAreTrue
  <2> HIDE DEF m
  <2>11. error = None => HandleTrue(c)
    BY <2>7, <2>9, <2>10, Zenon DEF HandleTrue
  <2> QED
    BY <2>9, <2>11
<1> QED
  BY <1>6, <1>7, <1>8, <1>9

Changed == {i \in MemoryIds : core'.rows[i] # core.rows[i]}

\* HandleAsAsked, of one call.
HandleAsked(c) ==
  LET k == call[c]  asked == k.arg.asked IN
  /\ k.op = "ingest" => \E i \in MemoryIds : Changed = {i} /\ core.rows[i] = None
       /\ [user |-> asked.scope.user, workspace |-> asked.scope.workspace, thread |-> asked.scope.thread,
           visibility |-> asked.more] = [f \in {"user", "workspace", "thread", "visibility"} |-> core'.rows[i][f]]
  /\ k.op # "ingest" => \A i \in Changed : core'.rows[i] = None
       /\ IF asked.scope # None /\ asked.scope.workspace # None
            THEN core.rows[i].workspace = asked.scope.workspace
            ELSE asked.user \in {None, core.rows[i].user}
  /\ k.op = "delete" => Changed = asked.ids
  /\ k.op \in {"decay", "consolidate"} /\ ~asked.more => Changed = {}
  /\ k.op = "update_config" => \A f \in DOMAIN core.config :
       core'.config[f] = IF asked.more[f] # None THEN asked.more[f] ELSE core.config[f]

CoreStep(c) == Served_(c) /\ CoreOK' /\ (call'[c].fate = "done" => HandleAsked(c))

LEMMA CoreRefused ==
  ASSUME CallsOK, CoreOK, NEW c \in Callers, NEW status \in {404, 422, 429}, CoreRefuses(c, status), UNCHANGED open,
         call[c].ns = "memory", call[c].fate = "sent",
         status = 404 => call[c].op \in {"get", "delete", "delete_lesson"}
  PROVE  CoreStep(c)
<1> DEFINE reply == [status |-> status]
<1>1. Answered(c, "refused", reply, None) /\ reply.status = status
  BY DEF CoreRefuses
<1> HIDE DEF reply
<1>2. ReplyOK(call[c].ns, call[c].op, call[c].arg, "refused", reply, None)
  BY <1>1 DEF ReplyOK, HandleReplyOK
<1>3. Served_(c) /\ call'[c].fate = "refused"
  BY <1>1, <1>2, CallIsServed DEF Served_
<1>4. CoreOK'
  BY DEF CoreRefuses, CoreOK
<1> QED
  BY <1>3, <1>4 DEF CoreStep

LEMMA CoreAnswered ==
  ASSUME CallsOK, NEW c \in Callers, NEW raws, NEW ids, CoreAnswers(c, raws, call[c].arg.sent.user, ids),
         UNCHANGED open, call[c].ns = "memory", call[c].fate = "sent",
         call[c].op \in Tellers => \A m \in raws : RawOK(call[c].op, call[c].arg.asked, m, core.rows[m.id]),
         call[c].op = "consolidate" => ids = call[c].arg.asked.more
  PROVE  Served_(c)
<1> DEFINE k == call[c]
           reply == [status |-> 200, raws |-> raws, user |-> k.arg.sent.user, ids |-> ids]
           saw == [rows |-> [m \in {r.id : r \in raws} |-> core.rows[m]]]
<1>1. Answered(c, "done", reply, saw)
  BY DEF CoreAnswers
<1>2. /\ reply = [status |-> 200, raws |-> reply.raws, user |-> k.arg.sent.user, ids |-> reply.ids]
      /\ reply.raws = raws /\ reply.ids = ids
  OBVIOUS
<1>3. \A m \in raws : saw.rows[m.id] = core.rows[m.id]
  OBVIOUS
<1> HIDE DEF reply, saw
<1>4. HandleReplyOK(k.op, k.arg, "done", reply, saw)
  BY <1>2, <1>3 DEF HandleReplyOK, Tellers
<1>5. ReplyOK(k.ns, k.op, k.arg, "done", reply, saw)
  BY <1>4 DEF ReplyOK
<1> QED
  BY <1>1, <1>5, CallIsServed DEF Served_

\* What an operation asks of rows and its route.
LEMMA RouteOfRows ==
  ASSUME NEW op, NEW arg, HandleArgOK(op, arg)
  PROVE  /\ arg.sent.route \in RowRoutes =>
              op = arg.sent.route /\ ScopedArgOK(op, arg.asked, arg.sent)
         /\ arg.sent.route \notin RowRoutes =>
              op \notin RowRoutes /\ AdminArgOK(op, arg.asked, arg.sent)
<1>1. RowRoutes \cap AdminOps = {}
  BY DEF RowRoutes, AdminOps, Categories
<1> QED
  BY <1>1 DEF HandleArgOK, ScopedArgOK, AdminArgOK

LEMMA IngestServed ==
  ASSUME CallsOK, CoreOK, NEW c \in Callers, UNCHANGED open, call[c].ns = "memory", call[c].fate = "sent",
         call[c].op = "ingest", ScopedArgOK("ingest", call[c].arg.asked, call[c].arg.sent),
         ServeIngest(c, call[c].arg.sent)
  PROVE  CoreStep(c)
<1> DEFINE q == call[c].arg.sent
           asked == call[c].arg.asked
           s == asked.scope
           v == IF q.workspace # None THEN q.visibility ELSE None
           row == Row(q.user, q.workspace, q.agent, q.thread, "site", v)
<1>1. PICK i \in MemoryIds \ Rows :
        core' = [core EXCEPT !.rows[i] = row] /\ CoreAnswers(c, {}, q.user, FALSE)
  BY DEF ServeIngest
<1>2. Served_(c)
  BY <1>1, CoreAnswered DEF Tellers
<1>3. s \in Scopes /\ q.user = s.user /\ q.workspace = s.workspace /\ q.agent = s.agent /\ q.thread = s.thread
  BY DEF ScopedArgOK
<1>4. v = asked.more /\ v \in Visibilities
  BY <1>3, ScopesAre DEF ScopedArgOK, Visibilities
<1>5. row # None
  BY <1>3, <1>4, ScopesAssumption
<1>6. row.user = s.user /\ row.workspace = s.workspace /\ row.thread = s.thread /\ row.visibility = asked.more
  BY <1>3, <1>4 DEF Row
<1> HIDE DEF row, v
<1>7. CoreOK' /\ core'.rows = [core.rows EXCEPT ![i] = row]
  BY <1>1 DEF CoreOK
<1>8. core.rows[i] = None /\ i \in MemoryIds
  BY DEF Rows
<1>9. core'.rows[i] = row /\ \A j \in MemoryIds : j # i => core'.rows[j] = core.rows[j]
  BY <1>7, <1>8 DEF CoreOK
<1>10. Changed = {i}
  BY <1>5, <1>8, <1>9 DEF Changed
<1>11. [user |-> s.user, workspace |-> s.workspace, thread |-> s.thread, visibility |-> asked.more]
         = [f \in {"user", "workspace", "thread", "visibility"} |-> core'.rows[i][f]]
  BY <1>6, <1>9
<1> HIDE DEF asked, s
<1> QED
  BY <1>2, <1>7, <1>8, <1>10, <1>11 DEF CoreStep, HandleAsked, asked, s

\* Nothing changes with a read.
LEMMA ReadsChangeNothing ==
  ASSUME CallsOK, CoreOK, NEW c \in Callers, Served_(c), UNCHANGED core,
         call[c].op \notin {"ingest", "delete", "update_config"}
  PROVE  CoreStep(c)
<1>1. Changed = {} /\ CoreOK'
  BY DEF Changed, CoreOK
<1> QED
  BY <1>1 DEF CoreStep, HandleAsked

LEMMA FoundServed ==
  ASSUME CallsOK, CoreOK, NEW c \in Callers, UNCHANGED open, call[c].ns = "memory", call[c].fate = "sent",
         call[c].op \in Tellers, ScopedArgOK(call[c].op, call[c].arg.asked, call[c].arg.sent),
         ServeFound(c, call[c].arg.sent)
  PROVE  CoreStep(c)
<1> DEFINE op == call[c].op
           q == call[c].arg.sent
           asked == call[c].arg.asked
           s == asked.scope
<1>1. /\ q.route = op /\ s \in Scopes
      /\ q.user = s.user /\ q.workspace = s.workspace /\ asked.user = s.user
      /\ op \in {"search", "list"} => asked.ids = {}
      /\ op \in {"expand", "get"} => q.ids = asked.ids
      /\ op = "search" => q.agent_scope = s.agent_scope /\ q.agent = s.agent
      /\ op = "list" => q.site = IF asked.more = "" THEN None ELSE asked.more
  BY DEF ScopedArgOK
<1>2. PICK knowsThreads \in BOOLEAN :
        LET found == Found(q, knowsThreads) IN
        IF q.route = "get" /\ found = {} THEN CoreRefuses(c, 404)
        ELSE /\ \E page \in {p \in SUBSET found : Cardinality(p) = PageSize(q, found)} :
                  CoreAnswers(c, {[id |-> i, session |-> IF knowsThreads THEN core.rows[i].thread ELSE None] : i \in page},
                              q.user, FALSE)
             /\ UNCHANGED core
  BY DEF ServeFound
<1> DEFINE found == Found(q, knowsThreads)
<1>3. CASE q.route = "get" /\ found = {}
  <2>1. CoreRefuses(c, 404)
    BY <1>2, <1>3
  <2>2. op = "get"
    BY <1>1, <1>3
  <2> QED
    BY <2>1, <2>2, CoreRefused
<1>4. CASE ~(q.route = "get" /\ found = {})
  <2>1. PICK page \in SUBSET found :
          CoreAnswers(c, {[id |-> i, session |-> IF knowsThreads THEN core.rows[i].thread ELSE None] : i \in page},
                      q.user, FALSE)
    BY <1>2, <1>4
  <2> DEFINE raws == {[id |-> i, session |-> IF knowsThreads THEN core.rows[i].thread ELSE None] : i \in page}
  <2>2. UNCHANGED core
    BY <1>2, <1>4
  <2>3. ASSUME NEW i \in found, NEW m, m.id = i, m.session \in {None, core.rows[i].thread}
        PROVE  RawOK(op, asked, m, core.rows[m.id])
    <3>1. /\ core.rows[i].workspace = q.workspace /\ (q.workspace = None => core.rows[i].user = q.user)
          /\ op \in {"expand", "get"} => i \in q.ids
          /\ op = "search" /\ q.agent_scope = "self" => core.rows[i].agent = q.agent
          /\ op = "list" /\ q.site # None => core.rows[i].site = q.site
      BY <1>1, <2>3 DEF Found, InScope
    <3>2. "site" # None
      BY NoneAssumption
    <3>3. op = "list" /\ asked.more = "site" => core.rows[i].site = "site"
      BY <1>1, <3>1, <3>2
    <3> HIDE DEF op, q, asked, s, found
    <3> QED
      BY <1>1, <2>3, <3>1, <3>3 DEF RawOK, Tellers, op, s
  <2>4. \A m \in raws : RawOK(op, asked, m, core.rows[m.id])
    <3> TAKE m \in raws
    <3>1. PICK i \in page : m = [id |-> i, session |-> IF knowsThreads THEN core.rows[i].thread ELSE None]
      OBVIOUS
    <3>2. i \in found /\ m.id = i /\ m.session \in {None, core.rows[i].thread}
      BY <2>1, <3>1
    <3> HIDE DEF raws, found
    <3> QED
      BY <2>3, <3>2
  <2>5. op # "consolidate" /\ op \notin {"ingest", "delete", "update_config"}
    BY DEF Tellers
  <2> HIDE DEF raws
  <2>6. Served_(c)
    BY <2>1, <2>4, <2>5, CoreAnswered DEF raws
  <2> QED
    BY <2>2, <2>5, <2>6, ReadsChangeNothing
<1> QED
  BY <1>3, <1>4

LEMMA DeleteServed ==
  ASSUME CallsOK, CoreOK, NEW c \in Callers, UNCHANGED open, call[c].ns = "memory", call[c].fate = "sent",
         call[c].op = "delete", ScopedArgOK("delete", call[c].arg.asked, call[c].arg.sent),
         ServeDeleteMemory(c, call[c].arg.sent)
  PROVE  CoreStep(c)
<1> DEFINE q == call[c].arg.sent
           asked == call[c].arg.asked
           s == asked.scope
           found == Found(q, FALSE)
<1>1. /\ q.route = "delete" /\ s \in Scopes /\ asked.user = s.user
      /\ q.user = s.user /\ q.workspace = s.workspace /\ q.ids = asked.ids
      /\ \E i \in MemoryIds : asked.ids = {i}
  BY DEF ScopedArgOK
<1>2. CASE found = {}
  <2>1. CoreRefuses(c, 404)
    BY <1>2 DEF ServeDeleteMemory
  <2> QED
    BY <2>1, CoreRefused
<1>3. CASE found # {}
  <2>1. /\ core' = [core EXCEPT !.rows = [i \in MemoryIds |-> IF i \in found THEN None ELSE @[i]]]
        /\ CoreAnswers(c, {}, q.user, FALSE)
    BY <1>3 DEF ServeDeleteMemory
  <2>2. Served_(c)
    BY <2>1, CoreAnswered DEF Tellers
  <2>3. \A i \in found : /\ i \in MemoryIds /\ core.rows[i] # None /\ i \in asked.ids
                         /\ core.rows[i].workspace = q.workspace
                         /\ q.workspace = None => core.rows[i].user = q.user
    BY <1>1 DEF Found, Rows, InScope
  <2> HIDE DEF found
  <2>4. CoreOK' /\ core'.rows = [i \in MemoryIds |-> IF i \in found THEN None ELSE core.rows[i]]
    BY <2>1 DEF CoreOK
  <2>5. Changed = found
    BY <2>3, <2>4 DEF Changed
  <2>6. found = asked.ids
    BY <1>1, <1>3, <2>3
  <2>7. s # None
    BY <1>1, ScopesAssumption
  <2>8. \A i \in Changed : /\ core'.rows[i] = None
                           /\ IF s # None /\ s.workspace # None THEN core.rows[i].workspace = s.workspace
                                                                ELSE asked.user \in {None, core.rows[i].user}
    BY <1>1, <2>3, <2>4, <2>5, <2>7
  <2> QED
    BY <2>2, <2>4, <2>5, <2>6, <2>8 DEF CoreStep, HandleAsked
<1> QED
  BY <1>2, <1>3

LEMMA RowsLeft ==
  ASSUME CallsOK, CoreOK, NEW c \in Callers, UNCHANGED open, call[c].ns = "memory", call[c].fate = "sent",
         AdminArgOK(call[c].op, call[c].arg.asked, call[c].arg.sent), call[c].op \notin RowRoutes,
         call[c].op # "update_config",
         NEW which, NEW ids, RowsLeave(c, call[c].arg.sent, which, ids),
         which \subseteq Of(call[c].arg.asked.user),
         call[c].op \in {"decay", "consolidate"} /\ ~call[c].arg.asked.more => which = {},
         call[c].op = "consolidate" => ids = call[c].arg.asked.more
  PROVE  CoreStep(c)
<1> DEFINE q == call[c].arg.sent
           asked == call[c].arg.asked
<1>1. PICK gone \in SUBSET which :
        /\ core' = [core EXCEPT !.rows = [i \in MemoryIds |-> IF i \in gone THEN None ELSE @[i]]]
        /\ CoreAnswers(c, {}, q.user, ids)
  BY DEF RowsLeave
<1>2. Served_(c)
  BY <1>1, CoreAnswered
<1>3. CoreOK' /\ core'.rows = [i \in MemoryIds |-> IF i \in gone THEN None ELSE core.rows[i]]
  BY <1>1 DEF CoreOK
<1>4. \A i \in Changed : i \in which /\ core'.rows[i] = None
  BY <1>1, <1>3 DEF Changed
<1>5. \A i \in which : asked.user \in {None, core.rows[i].user}
  BY DEF Of
<1>6. asked.scope = None
  BY DEF AdminArgOK
<1>7. call[c].op \in {"decay", "consolidate"} /\ ~asked.more => Changed = {}
  BY <1>4
<1>8. call[c].op \notin {"ingest", "delete", "update_config"}
  BY DEF RowRoutes
<1> QED
  BY <1>2, <1>3, <1>4, <1>5, <1>6, <1>7, <1>8 DEF CoreStep, HandleAsked

\* What the other administrative routes make of the core.
Administered(q) ==
  CASE q.route = "lessons/report" -> [core EXCEPT !.lessons[q.user] = @ \cup {"new"}]
    [] q.route = "lessons/delete" -> [core EXCEPT !.lessons[q.user] = @ \ {q.lesson}]
    [] q.route = "config" -> [core EXCEPT !.config = With(q.updates, @)]
    [] q.route = "trust/set" -> [core EXCEPT !.trust[q.user] = q.level]
    [] q.route = "conflicts/resolve" -> [core EXCEPT !.conflicts[q.conflict] = q.resolution]
    [] q.route = "conflicts/auto" -> [core EXCEPT !.conflicts[q.user] = "auto_resolved"]
    [] OTHER -> core

LEMMA RestAdministered ==
  ASSUME CoreOK, NEW q, core' = Administered(q),
         q.route = "config" => DOMAIN q.updates \subseteq {"threshold", "results"}
  PROVE  /\ CoreOK' /\ core'.rows = core.rows
         /\ q.route = "config" => core'.config = With(q.updates, core.config)
<1>1. CASE q.route = "config"
  <2>1. core' = [core EXCEPT !.config = With(q.updates, @)]
    BY <1>1, Zenon DEF Administered
  <2>2. /\ core' = [f \in {"rows", "trust", "lessons", "conflicts", "config"} |-> core'[f]]
        /\ core'.rows = core.rows /\ core'.config = With(q.updates, core.config)
    BY <2>1 DEF CoreOK
  <2>3. With(q.updates, core.config) = [f \in {"threshold", "results"} |-> With(q.updates, core.config)[f]]
    BY <1>1 DEF CoreOK, With
  <2> QED
    BY <2>2, <2>3 DEF CoreOK
<1>2. CASE q.route # "config"
  <2>1. \/ core' = core
        \/ \E f \in {"lessons", "trust", "conflicts"} : \E v : core' = [core EXCEPT ![f] = v]
    <3>1. CASE q.route = "lessons/report"
      BY <3>1, Zenon DEF Administered
    <3>2. CASE q.route = "lessons/delete"
      BY <3>2, Zenon DEF Administered
    <3>3. CASE q.route = "trust/set"
      BY <3>3, Zenon DEF Administered
    <3>4. CASE q.route = "conflicts/resolve"
      BY <3>4, Zenon DEF Administered
    <3>5. CASE q.route = "conflicts/auto"
      BY <3>5, Zenon DEF Administered
    <3>6. CASE q.route \notin {"lessons/report", "lessons/delete", "config", "trust/set", "conflicts/resolve",
                               "conflicts/auto"}
      BY <3>6, Zenon DEF Administered
    <3> QED
      BY <1>2, <3>1, <3>2, <3>3, <3>4, <3>5, <3>6
  <2> QED
    BY <1>2, <2>1 DEF CoreOK
<1> QED
  BY <1>1, <1>2

LEMMA AdminServed ==
  ASSUME CallsOK, CoreOK, NEW c \in Callers, UNCHANGED open, call[c].ns = "memory", call[c].fate = "sent",
         AdminArgOK(call[c].op, call[c].arg.asked, call[c].arg.sent), call[c].op \notin RowRoutes,
         ServeAdmin(c, call[c].arg.sent)
  PROVE  CoreStep(c)
<1> DEFINE op == call[c].op
           q == call[c].arg.sent
           asked == call[c].arg.asked
<1>1. /\ q.route \in {"consolidate", "decay", "reconcile", "reset-source"} => q.user = asked.user
      /\ q.route = "lessons/delete" => op = "delete_lesson"
      /\ op = "consolidate" <=> q.route = "consolidate"
      /\ op = "consolidate" => asked.more \in BOOLEAN /\ q.execute = IF asked.more THEN TRUE ELSE None
      /\ op = "decay" <=> q.route = "decay"
      /\ op = "decay" => asked.more \in BOOLEAN /\ q.dry_run = IF asked.more THEN FALSE ELSE None
      /\ op = "update_config" <=> q.route = "config"
      /\ op = "update_config" =>
           /\ DOMAIN asked.more = {"threshold", "results"}
           /\ q.updates = [f \in {g \in {"threshold", "results"} : asked.more[g] # None} |-> asked.more[f]]
  BY DEF AdminArgOK
<1>2. CASE q.route = "consolidate"
  <2>1. RowsLeave(c, q, IF q.execute = TRUE THEN Of(q.user) ELSE {}, q.execute = TRUE)
    BY <1>2, Zenon DEF ServeAdmin
  <2>2. op = "consolidate" /\ q.user = asked.user
    BY <1>1, <1>2
  <2>3. CASE asked.more = TRUE
    <3>1. (q.execute = TRUE) = TRUE
      BY <1>1, <2>2, <2>3
    <3>2. RowsLeave(c, q, Of(q.user), TRUE)
      BY <2>1, <3>1
    <3> QED
      BY <2>2, <2>3, <3>2, RowsLeft
  <2>4. CASE asked.more = FALSE
    <3>1. (q.execute = TRUE) = FALSE
      BY <1>1, <2>2, <2>4, NoneAssumption
    <3>2. RowsLeave(c, q, {}, FALSE)
      BY <2>1, <3>1
    <3> QED
      BY <2>2, <2>4, <3>2, RowsLeft
  <2> QED
    BY <1>1, <2>2, <2>3, <2>4
<1>3. CASE q.route = "decay"
  <2>1. RowsLeave(c, q, IF q.dry_run = FALSE THEN Of(q.user) ELSE {}, FALSE)
    BY <1>3, Zenon DEF ServeAdmin
  <2>2. op = "decay" /\ q.user = asked.user
    BY <1>1, <1>3
  <2>3. CASE asked.more = TRUE
    <3>1. q.dry_run = FALSE
      BY <1>1, <2>2, <2>3
    <3>2. RowsLeave(c, q, Of(q.user), FALSE)
      BY <2>1, <3>1
    <3> QED
      BY <2>2, <2>3, <3>2, RowsLeft
  <2>4. CASE asked.more = FALSE
    <3>1. q.dry_run # FALSE
      BY <1>1, <2>2, <2>4, NoneAssumption
    <3>2. RowsLeave(c, q, {}, FALSE)
      BY <2>1, <3>1
    <3> QED
      BY <2>2, <2>4, <3>2, RowsLeft
  <2> QED
    BY <1>1, <2>2, <2>3, <2>4
<1>4. CASE q.route \in {"reconcile", "reset-source"}
  <2>1. PICK which \in SUBSET Of(q.user) : RowsLeave(c, q, which, FALSE)
    <3>1. CASE q.route = "reconcile"
      <4>1. RowsLeave(c, q, Of(q.user), FALSE)
        BY <3>1, Zenon DEF ServeAdmin
      <4> QED
        BY <4>1
    <3>2. CASE q.route = "reset-source"
      <4>1. RowsLeave(c, q, {i \in Of(q.user) : core.rows[i].site = q.site}, FALSE)
        BY <3>2, Zenon DEF ServeAdmin
      <4> QED
        BY <4>1
    <3> QED
      BY <1>4, <3>1, <3>2
  <2>2. op \notin {"decay", "consolidate", "update_config"} /\ q.user = asked.user
    BY <1>1, <1>4
  <2> QED
    BY <2>1, <2>2, RowsLeft
<1>5. CASE q.route = "lessons/delete" /\ q.lesson \notin core.lessons[q.user]
  <2>1. CoreRefuses(c, 404)
    BY <1>5, Zenon DEF ServeAdmin
  <2>2. op = "delete_lesson"
    BY <1>1, <1>5
  <2> QED
    BY <2>1, <2>2, CoreRefused
<1>6. CASE /\ q.route \notin {"consolidate", "decay", "reconcile", "reset-source"}
           /\ ~(q.route = "lessons/delete" /\ q.lesson \notin core.lessons[q.user])
  <2>1. core' = Administered(q) /\ CoreAnswers(c, {}, q.user, FALSE)
    BY <1>6, Zenon DEF ServeAdmin, Administered
  <2>2. op \notin {"decay", "consolidate", "ingest", "delete"}
    BY <1>1, <1>6 DEF RowRoutes
  <2>3. Served_(c)
    <3>1. CoreAnswers(c, {}, q.user, FALSE) /\ op # "consolidate"
      BY <2>1, <2>2
    <3>2. op \notin Tellers
      BY DEF RowRoutes, Tellers
    <3> QED
      BY <3>1, <3>2, CoreAnswered
  <2>4. q.route = "config" => DOMAIN q.updates \subseteq {"threshold", "results"}
    BY <1>1
  <2>5. CoreOK' /\ core'.rows = core.rows /\ (q.route = "config" => core'.config = With(q.updates, core.config))
    BY <2>1, <2>4, RestAdministered
  <2>6. Changed = {}
    BY <2>5 DEF Changed
  <2>7. op = "update_config" => \A f \in DOMAIN core.config :
          core'.config[f] = IF asked.more[f] # None THEN asked.more[f] ELSE core.config[f]
    <3> SUFFICES ASSUME op = "update_config", NEW f \in DOMAIN core.config
                 PROVE  core'.config[f] = IF asked.more[f] # None THEN asked.more[f] ELSE core.config[f]
      OBVIOUS
    <3>1. DOMAIN core.config = {"threshold", "results"}
      BY DEF CoreOK
    <3>2. core'.config = With(q.updates, core.config)
      BY <1>1, <2>5
    <3>3. q.updates = [g \in {h \in {"threshold", "results"} : asked.more[h] # None} |-> asked.more[g]]
      BY <1>1
    <3> HIDE DEF q, asked, op
    <3> QED
      BY <3>1, <3>2, <3>3 DEF With
  <2> QED
    BY <2>2, <2>3, <2>5, <2>6, <2>7 DEF CoreStep, HandleAsked
<1> QED
  BY <1>2, <1>3, <1>4, <1>5, <1>6

LEMMA CoreServed ==
  ASSUME CallsOK, CoreOK, NEW c \in Callers, CoreServes(c)
  PROVE  CoreStep(c)
<1> DEFINE k == call[c]
           q == k.arg.sent
<1>1. k.ns = "memory" /\ k.fate = "sent" /\ HandleArgOK(k.op, k.arg) /\ UNCHANGED open
  BY DEF CoreServes, CallsOK, CallOK, ArgOK
<1>2. \/ \E status \in {429, 422} : CoreRefuses(c, status)
      \/ q.route = "ingest" /\ ServeIngest(c, q)
      \/ q.route \in {"search", "expand", "list", "get"} /\ ServeFound(c, q)
      \/ q.route = "delete" /\ ServeDeleteMemory(c, q)
      \/ q.route \notin RowRoutes /\ ServeAdmin(c, q)
  BY DEF CoreServes, RowRoutes
<1>3. /\ q.route \in RowRoutes => k.op = q.route /\ ScopedArgOK(k.op, k.arg.asked, q)
      /\ q.route \notin RowRoutes => k.op \notin RowRoutes /\ AdminArgOK(k.op, k.arg.asked, q)
  BY <1>1, RouteOfRows
<1>4. CASE \E status \in {429, 422} : CoreRefuses(c, status)
  <2>1. PICK status \in {429, 422} : CoreRefuses(c, status)
    BY <1>4
  <2>2. status # 404 /\ status \in {404, 422, 429}
    OBVIOUS
  <2> QED
    BY <1>1, <2>1, <2>2, CoreRefused
<1>5. CASE q.route = "ingest" /\ ServeIngest(c, q)
  <2>1. k.op = "ingest" /\ ScopedArgOK("ingest", k.arg.asked, q)
    BY <1>3, <1>5 DEF RowRoutes
  <2> QED
    BY <1>1, <1>5, <2>1, IngestServed
<1>6. CASE q.route \in {"search", "expand", "list", "get"} /\ ServeFound(c, q)
  <2>1. k.op \in Tellers /\ ScopedArgOK(k.op, k.arg.asked, q)
    BY <1>3, <1>6 DEF RowRoutes, Tellers
  <2> QED
    BY <1>1, <1>6, <2>1, FoundServed
<1>7. CASE q.route = "delete" /\ ServeDeleteMemory(c, q)
  <2>1. k.op = "delete" /\ ScopedArgOK("delete", k.arg.asked, q)
    BY <1>3, <1>7 DEF RowRoutes
  <2> QED
    BY <1>1, <1>7, <2>1, DeleteServed
<1>8. CASE q.route \notin RowRoutes /\ ServeAdmin(c, q)
  BY <1>1, <1>3, <1>8, AdminServed
<1> QED
  BY <1>2, <1>4, <1>5, <1>6, <1>7, <1>8

LEMMA ForgottenKeeps ==
  ASSUME CoreOK, NEW i \in MemoryIds, Forgotten(i)
  PROVE  CoreOK'
BY DEF Forgotten, CoreOK

-----------------------------------------------------------------------------
(* close().                                                                *)

LEMMA ClosersKept ==
  ASSUME ClosersOK, UNCHANGED <<open, built, closer>>
  PROVE  ClosersOK'
BY DEF ClosersOK, CloserOK

\* Nobody closes what is not built.
LEMMA Constructed ==
  ASSUME ClosersOK, NEW g \in Configs, Construct(g)
  PROVE  ClosersOK'
<1> DEFINE memory == AtomicConfigAccepted(g) /\ MemoryConfigAccepted(g) /\ StorageConfigAccepted(g)
<1>1. built = "no" /\ closer' = closer /\ \A k \in Closers : closer[k].pc = 0
  BY DEF Construct, ClosersOK, CloserOK
<1>2. /\ built' = IF memory /\ EntitiesConfigAccepted(g) THEN "yes" ELSE "ConfigError"
      /\ open' = [ns \in Namespaces |-> memory /\ (ns = "entities" => EntitiesConfigAccepted(g))]
  BY DEF Construct
<1>3. memory => EntitiesConfigAccepted(g)
  BY DEF AtomicConfigAccepted, EntitiesConfigAccepted
<1> HIDE DEF memory
<1>4. open' \in [Namespaces -> BOOLEAN] /\ \A ns \in Namespaces : open'[ns] = (built' = "yes")
  BY <1>2, <1>3
<1>5. \A k \in Closers : CloserOK(closer[k])'
  BY <1>1 DEF ClosersOK, CloserOK
<1> QED
  BY <1>1, <1>4, <1>5 DEF ClosersOK

LEMMA CloseIsCalled ==
  ASSUME ClosersOK, NEW k \in Closers, CloseCalled(k)
  PROVE  ClosersOK'
<1> DEFINE old == closer[k]
           new == [old EXCEPT !.pc = 1]
<1>1. built = "yes" /\ built' = built /\ open' = open /\ old.pc = 0 /\ closer' = [closer EXCEPT ![k] = new]
  BY DEF CloseCalled, callVars
<1>2. CloserOK(old)
  BY DEF ClosersOK
<1>3. /\ new = [f \in {"pc", "first", "outcomes"} |-> new[f]] /\ new.pc = 1
      /\ new.first = old.first /\ new.outcomes = old.outcomes
  BY <1>2 DEF CloserOK
<1> HIDE DEF new
<1>4. closer'[k] = new /\ \A j \in Closers : j # k => closer'[j] = closer[j]
  BY <1>1 DEF ClosersOK
<1>5. closer' = [j \in Closers |-> closer'[j]]
  BY <1>1 DEF ClosersOK
<1>6. CloserOK(closer[k])'
  <2>1. Len(new.outcomes) = 0 /\ built' = "yes" /\ new.outcomes \in Seq({None, "error", "CancelledError"})
    BY <1>1, <1>2, <1>3 DEF CloserOK
  <2>2. FirstError(closer[k].outcomes, closer[k].first)'
    BY <1>2, <1>3, <1>4 DEF CloserOK, FirstError
  <2>3. \A i \in 1..3 : ~(i < new.pc)
    BY <1>3
  <2> QED
    BY <1>3, <1>4, <2>1, <2>2, <2>3 DEF CloserOK
<1>7. ASSUME NEW j \in Closers, j # k
      PROVE  CloserOK(closer[j])'
  <2>1. CloserOK(closer[j]) /\ closer'[j] = closer[j]
    BY <1>4, <1>7 DEF ClosersOK
  <2> QED
    BY <1>1, <2>1 DEF CloserOK
<1> QED
  BY <1>1, <1>3, <1>4, <1>5, <1>6, <1>7 DEF ClosersOK

LEMMA FirstErrorAppends ==
  ASSUME NEW S, NEW outcomes \in Seq(S), NEW outcome \in S, NEW first, FirstError(outcomes, first)
  PROVE  FirstError(Append(outcomes, outcome), IF first = None THEN outcome ELSE first)
<1> DEFINE more == Append(outcomes, outcome)
           n == Len(outcomes)
<1>1. /\ n \in Nat /\ DOMAIN more = 1..(n + 1) /\ DOMAIN outcomes = 1..n /\ more[n + 1] = outcome
      /\ \A i \in 1..n : more[i] = outcomes[i]
  OBVIOUS
<1> HIDE DEF more, n
<1>2. CASE first = None
  <2>1. \A i \in 1..n : more[i] = None
    BY <1>1, <1>2 DEF FirstError
  <2>2. \A i \in 1..(n + 1) : i \in 1..n \/ i = n + 1
    BY <1>1
  <2> QED
    BY <1>1, <1>2, <2>1, <2>2 DEF FirstError, more
<1>3. CASE first # None
  <2>1. PICK i \in 1..n : outcomes[i] # None
    BY <1>1, <1>3 DEF FirstError
  <2>2. ~\A j \in 1..(n + 1) : more[j] = None
    BY <1>1, <2>1
  <2>3. ASSUME NEW j \in 1..(n + 1), more[j] # None, \A x \in 1..(j - 1) : more[x] = None
        PROVE  first = more[j]
    <3>1. j # n + 1
      <4>1. j = n + 1 => i \in 1..(j - 1)
        BY <1>1
      <4> QED
        BY <1>1, <2>1, <2>3, <4>1
    <3>2. j \in 1..n /\ \A x \in 1..(j - 1) : x \in 1..n
      BY <1>1, <3>1
    <3> QED
      BY <1>1, <2>3, <3>2 DEF FirstError
  <2> QED
    BY <1>1, <1>3, <2>2, <2>3 DEF FirstError, more
<1> QED
  BY <1>2, <1>3

LEMMA AppendKeeps ==
  ASSUME NEW S, NEW seq \in Seq(S), NEW last \in S
  PROVE  /\ Append(seq, last) \in Seq(S) /\ Len(Append(seq, last)) = Len(seq) + 1
         /\ \A i \in 1..Len(seq) : Append(seq, last)[i] = seq[i]
         /\ Append(seq, last)[Len(seq) + 1] = last
OBVIOUS

LEMMA ClosesOneMore ==
  ASSUME ClosersOK, NEW k \in Closers, CloseNext(k)
  PROVE  ClosersOK'
<1> DEFINE old == closer[k]
           ns == NamespaceOrder[old.pc]
           S == {None, "error", "CancelledError"}
<1>1. old.pc \in 1..3 /\ built' = built
  BY DEF CloseNext
<1>2. PICK outcome \in S : NamespaceCloses(k, outcome)
  BY DEF CloseNext
<1>3. CloseClient(ns) \/ (ns = "memory" /\ closer'[k].first # None /\ UNCHANGED open)
  BY DEF CloseNext
<1>4. CloserOK(old) /\ open \in [Namespaces -> BOOLEAN]
  BY DEF ClosersOK
<1> DEFINE new == [old EXCEPT !.pc = @ + 1, !.outcomes = Append(@, outcome),
                              !.first = IF @ = None THEN outcome ELSE @]
<1>5. closer' = [closer EXCEPT ![k] = new]
  BY <1>2 DEF NamespaceCloses, ClosersOK
<1>6. /\ new = [f \in {"pc", "first", "outcomes"} |-> new[f]] /\ new.pc = old.pc + 1
      /\ new.first = (IF old.first = None THEN outcome ELSE old.first)
      /\ new.outcomes = Append(old.outcomes, outcome)
  BY <1>4 DEF CloserOK
<1> HIDE DEF new
<1>7. closer'[k] = new /\ (\A j \in Closers : j # k => closer'[j] = closer[j])
      /\ closer' = [j \in Closers |-> closer'[j]]
  BY <1>5 DEF ClosersOK
<1>8. /\ open' \in [Namespaces -> BOOLEAN]
      /\ \A x \in Namespaces : open'[x] => open[x]
      /\ open'[ns] => ns = "memory" /\ new.first # None
  <2>1. ns \in Namespaces
    BY <1>1 DEF NamespaceOrder, Namespaces
  <2> HIDE DEF ns
  <2> QED
    BY <1>3, <1>4, <1>7, <2>1 DEF CloseClient
<1>9. /\ old.outcomes \in Seq(S) /\ Len(old.outcomes) = old.pc - 1 /\ FirstError(old.outcomes, old.first)
      /\ built = "yes"
  BY <1>1, <1>4 DEF CloserOK
<1>10. FirstError(new.outcomes, new.first)
  <2> HIDE DEF old, S
  <2>1. FirstError(Append(old.outcomes, outcome), IF old.first = None THEN outcome ELSE old.first)
    BY <1>9, FirstErrorAppends
  <2> QED
    BY <1>6, <2>1
<1>11. /\ new.outcomes \in Seq(S) /\ Len(new.outcomes) = old.pc
       /\ \A i \in 1..(old.pc - 1) : new.outcomes[i] = old.outcomes[i]
       /\ new.outcomes[old.pc] = outcome
  <2> HIDE DEF old, S
  <2> DEFINE longer == Append(old.outcomes, outcome)
  <2>1. /\ longer \in Seq(S) /\ Len(longer) = Len(old.outcomes) + 1
        /\ \A i \in 1..Len(old.outcomes) : longer[i] = old.outcomes[i]
        /\ longer[Len(old.outcomes) + 1] = outcome
    BY <1>9, AppendKeeps
  <2> HIDE DEF longer
  <2>2. new.outcomes = longer
    BY <1>6 DEF longer
  <2>3. Len(old.outcomes) + 1 = old.pc
    BY <1>1, <1>9
  <2> QED
    BY <1>9, <2>1, <2>2, <2>3
<1>12. \A i \in 1..3 : i < new.pc /\ open'[NamespaceOrder[i]] => i = 1 /\ new.outcomes[1] # None
  <2> SUFFICES ASSUME NEW i \in 1..3, i < new.pc, open'[NamespaceOrder[i]]
               PROVE  i = 1 /\ new.outcomes[1] # None
    OBVIOUS
  <2>1. CASE i < old.pc
    <3>1. NamespaceOrder[i] \in Namespaces
      BY DEF NamespaceOrder, Namespaces
    <3>2. open[NamespaceOrder[i]]
      BY <1>8, <3>1
    <3>3. i = 1 /\ old.outcomes[1] # None
      BY <1>4, <2>1, <3>2 DEF CloserOK
    <3> QED
      BY <1>1, <1>11, <2>1, <3>3
  <2>2. CASE i = old.pc
    <3>1. ns = "memory" /\ new.first # None
      BY <1>8, <2>2
    <3>2. old.pc = 1
      BY <1>1, <3>1 DEF NamespaceOrder
    <3>3. DOMAIN old.outcomes = {}
      BY <1>9, <3>2
    <3>4. old.first = None
      BY <1>9, <3>3 DEF FirstError
    <3> QED
      BY <1>6, <1>11, <2>2, <3>1, <3>2, <3>4
  <2> QED
    BY <1>1, <1>6, <2>1, <2>2
<1>13. CloserOK(closer[k])'
  <2> HIDE DEF old, ns
  <2>1. new.pc \in 0..4 /\ new.pc # 0 /\ Len(new.outcomes) = new.pc - 1
    BY <1>1, <1>6, <1>11
  <2>2. FirstError(closer[k].outcomes, closer[k].first)'
    BY <1>7, <1>10 DEF FirstError
  <2>3. built' = "yes"
    BY <1>1, <1>9
  <2> QED
    BY <1>6, <1>7, <1>11, <1>12, <2>1, <2>2, <2>3 DEF CloserOK
<1>14. ASSUME NEW j \in Closers, j # k PROVE CloserOK(closer[j])'
  <2>1. CloserOK(closer[j]) /\ closer'[j] = closer[j]
    BY <1>7, <1>14 DEF ClosersOK
  <2>2. \A i \in 1..3 : NamespaceOrder[i] \in Namespaces
    BY DEF NamespaceOrder, Namespaces
  <2> HIDE DEF old, ns, S
  <2> QED
    BY <1>1, <1>8, <2>1, <2>2 DEF CloserOK
<1>15. closer'[k].pc # 0
  BY <1>1, <1>6, <1>7
<1> QED
  BY <1>7, <1>8, <1>13, <1>14, <1>15 DEF ClosersOK

-----------------------------------------------------------------------------
(* The steps together.                                                     *)

\* What a step does to the call it is of.
Moved(c) ==
  /\ \A x \in Callers \ {c} : call'[x] = call[x]
  /\ \/ Begins(c)
     \/ /\ Served_(c)
        /\ call[c].ns = "entities" /\ call'[c].fate = "done" => EntityAsAsked(c)
        /\ call[c].ns = "memory" /\ call'[c].fate = "done" => HandleAsked(c)
     \/ /\ Answered_(c)
        /\ call[c].ns = "storage" => StorageTrue(c)
        /\ call[c].ns = "entities" => EntityTold(c)
        /\ call[c].ns = "memory" /\ call'[c].error = None => HandleTrue(c)

LEMMA BeginsMoves ==
  ASSUME CallsOK, NEW c \in Callers, Begins(c)
  PROVE  Moved(c) /\ CallsOK' /\ UNCHANGED open
<1>1. PICK new : CallOK(new) /\ call' = [call EXCEPT ![c] = new]
  BY DEF Begins
<1>2. CallsOK' /\ \A x \in Callers \ {c} : call'[x] = call[x]
  BY <1>1, OneCallMoves
<1> QED
  BY <1>2 DEF Moved, Begins

LEMMA StorageMoves ==
  ASSUME CallsOK, ArtifactsOK, NEW c \in Callers, StorageSteps(c)
  PROVE  Moved(c) /\ CallsOK' /\ ArtifactsOK' /\ UNCHANGED open
<1>1. CASE StorageServes(c)
  BY <1>1, StorageServed DEF Moved, Served_, StorageServes
<1>2. CASE StorageReceives(c)
  <2>1. call[c].ns = "storage" /\ UNCHANGED storageVars
    BY <1>2 DEF StorageReceives
  <2>2. ArtifactsOK'
    BY <2>1 DEF ArtifactsOK, storageVars
  <2> QED
    BY <1>2, <2>1, <2>2, StorageReceived DEF Moved, Answered_
<1>3. CASE StreamEnds(c)
  <2>1. call[c].pc = "streaming" /\ UNCHANGED storageVars
    BY <1>3, Zenon DEF StreamEnds, storageVars
  <2>2. ArtifactsOK' /\ call[c].ns = "storage"
    BY <2>1 DEF ArtifactsOK, storageVars, CallsOK, CallOK
  <2> QED
    BY <1>3, <2>2, StreamEnded DEF Moved, Answered_
<1>4. CASE \/ Capabilities(c) \/ Put(c) \/ Get(c) \/ GetContent(c) \/ StreamContent(c)
           \/ Head_(c) \/ Delete(c) \/ Verify(c)
  <2>1. UNCHANGED storageVars
    BY <1>4 DEF Capabilities, Put, Get, GetContent, StreamContent, Head_, Delete, Verify, StorageCall
  <2>2. ArtifactsOK'
    BY <2>1 DEF ArtifactsOK, storageVars
  <2> QED
    BY <1>4, <2>2, StorageBegins, BeginsMoves
<1> QED
  BY <1>1, <1>2, <1>3, <1>4 DEF StorageSteps

LEMMA EntitiesMove ==
  ASSUME CallsOK, EntitiesOK, NEW c \in Callers, EntitiesSteps(c)
  PROVE  Moved(c) /\ CallsOK' /\ EntitiesOK' /\ UNCHANGED open
<1>1. CASE EntitiesServes(c)
  BY <1>1, EntitiesServed DEF Moved, Served_, EntitiesServes
<1>2. CASE EntitiesReceives(c)
  <2>1. call[c].ns = "entities" /\ UNCHANGED entitiesVars
    BY <1>2 DEF EntitiesReceives
  <2>2. EntitiesOK'
    BY <2>1 DEF EntitiesOK, entitiesVars
  <2> QED
    BY <1>2, <2>1, <2>2, EntitiesReceived DEF Moved, Answered_
<1>3. CASE \/ Profile(c) \/ ListEntities(c) \/ GetEntity(c) \/ DeleteEntity(c) \/ Attributes(c)
           \/ MemoryHistory(c) \/ PatchSettings(c) \/ Merge(c)
  <2>1. UNCHANGED entitiesVars
    BY <1>3 DEF Profile, ListEntities, GetEntity, DeleteEntity, Attributes, MemoryHistory, PatchSettings, Merge,
                EntitiesCall
  <2>2. EntitiesOK'
    BY <2>1 DEF EntitiesOK, entitiesVars
  <2> QED
    BY <1>3, <2>2, EntitiesBegins, BeginsMoves
<1> QED
  BY <1>1, <1>2, <1>3 DEF EntitiesSteps
LEMMA HandleMoves ==
  ASSUME CallsOK, CoreOK, NEW c \in Callers, HandleSteps(c)
  PROVE  Moved(c) /\ CallsOK' /\ CoreOK' /\ UNCHANGED open
<1>1. CASE CoreServes(c)
  BY <1>1, CoreServed DEF Moved, CoreStep, Served_, CoreServes
<1>2. CASE HandleReceives(c)
  <2>1. call[c].ns = "memory" /\ UNCHANGED core
    BY <1>2, Zenon DEF HandleReceives
  <2>2. CoreOK'
    BY <2>1 DEF CoreOK
  <2> QED
    BY <1>2, <2>1, <2>2, HandleReceived DEF Moved, Answered_
<1>3. CASE ~HandleReceives(c) /\ ~CoreServes(c)
  <2>1. UNCHANGED core
    <3>1. \A op, asked, sent, complaint : HandleCall(c, op, asked, sent, complaint) => UNCHANGED core
      BY DEF HandleCall
    <3>2. \A op, u, more, sent : Admin(c, op, u, more, sent) => UNCHANGED core
      BY <3>1 DEF Admin
    <3> QED
      BY <1>3, <3>1, <3>2, Zenon
      DEF HandleSteps, IngestFull, IngestQuick, SearchMemories, Expand, ListMemories, GetMemory, DeleteMemory,
          Consolidate, Decay, Cap, MemoryStats, ResetSource, Reconcile, ReconcileAll, ReconcileStatus,
          Summary, Recent, Trail, Lessons, LessonStats, ReportLesson, DeleteLesson, Health,
          UpdateConfig, SetTrust, GetTrust, Conflicts, ResolveConflict, AutoResolve
  <2>2. CoreOK'
    BY <2>1 DEF CoreOK
  <2> QED
    BY <1>3, <2>2, HandleBegins, BeginsMoves
<1> QED
  BY <1>1, <1>2, <1>3

LEMMA InitInv == Init => Inv
<1> SUFFICES ASSUME Init PROVE Inv
  OBVIOUS
<1>1. CallsOK
  <2>1. CallOK(NoCall)
    BY NoCallIsCall DEF CallOK, NoCall
  <2> QED
    BY <2>1 DEF Init, CallsInit, CallsOK
<1>2. CoreOK
  BY StoresAssumption DEF Init, HandleInit, CoreOK
<1>3. ArtifactsOK
  BY StoredAssumption DEF Init, StorageInit, ArtifactsOK
<1>4. EntitiesOK
  <2>1. settings = [e \in Entities |-> [f \in Settings |-> "unset"]]
    BY DEF Init, EntitiesInit
  <2>2. memories = [e \in Entities |-> memories[e]]
    BY DEF Init, EntitiesInit
  <2> QED
    BY <2>1, <2>2 DEF EntitiesOK
<1>5. ClosersOK
  <2> DEFINE first == [pc |-> 0, first |-> None, outcomes |-> <<>>]
  <2>1. closer = [k \in Closers |-> first] /\ open = [ns \in Namespaces |-> FALSE] /\ built = "no"
    BY DEF Init
  <2>2. /\ first = [f \in {"pc", "first", "outcomes"} |-> first[f]]
        /\ first.pc = 0 /\ first.first = None /\ first.outcomes = <<>>
    OBVIOUS
  <2>3. FirstError(<<>>, None)
    BY DEF FirstError
  <2> HIDE DEF first
  <2>4. first.outcomes \in Seq({None, "error", "CancelledError"}) /\ Len(first.outcomes) = 0
    <3>1. <<>> \in Seq({None, "error", "CancelledError"}) /\ Len(<<>>) = 0
      OBVIOUS
    <3> QED
      BY <2>2, <3>1, Zenon
  <2>5. FirstError(first.outcomes, first.first)
    BY <2>2, <2>3
  <2>6. CloserOK(first)
    BY <2>2, <2>4, <2>5 DEF CloserOK
  <2> QED
    BY <2>1, <2>2, <2>6 DEF ClosersOK
<1> QED
  BY <1>1, <1>2, <1>3, <1>4, <1>5 DEF Inv

LEMMA NextInv ==
  ASSUME Inv, [Next]_vars
  PROVE  /\ Inv'
         /\ call' = call \/ \E c \in Callers : Moved(c)
<1> USE DEF Inv
<1>1. CASE UNCHANGED vars
  <2>1. call' = call /\ CallsOK' /\ CoreOK'
    BY <1>1 DEF vars, callVars, CallsOK, CoreOK
  <2>2. ArtifactsOK' /\ EntitiesOK'
    BY <1>1 DEF vars, storageVars, entitiesVars, ArtifactsOK, EntitiesOK
  <2>3. ClosersOK'
    BY <1>1, ClosersKept DEF vars, callVars
  <2> QED
    BY <2>1, <2>2, <2>3
<1>2. ASSUME UNCHANGED <<call, core, storageVars, entitiesVars>>, ClosersOK'
      PROVE  Inv' /\ call' = call
  <2>1. CallsOK' /\ CoreOK'
    BY <1>2 DEF CallsOK, CoreOK
  <2>2. ArtifactsOK' /\ EntitiesOK'
    BY <1>2 DEF storageVars, entitiesVars, ArtifactsOK, EntitiesOK
  <2> QED
    BY <1>2, <2>1, <2>2
<1>3. CASE \E g \in Configs : Construct(g)
  BY <1>2, <1>3, Constructed DEF Construct
<1>4. CASE \E k \in Closers : CloseCalled(k) \/ CloseNext(k)
  BY <1>2, <1>4, CloseIsCalled, ClosesOneMore DEF CloseCalled, CloseNext, callVars
<1>5. ASSUME UNCHANGED <<built, closer>>, UNCHANGED open
      PROVE  ClosersOK'
  BY <1>5, ClosersKept
<1>6. ASSUME NEW c \in Callers, UNCHANGED <<built, closer>>,
             HandleSteps(c), UNCHANGED <<storageVars, entitiesVars>>
      PROVE  Inv' /\ Moved(c)
  <2>1. Moved(c) /\ CallsOK' /\ CoreOK' /\ UNCHANGED open
    BY <1>6, HandleMoves
  <2>2. ArtifactsOK' /\ EntitiesOK'
    BY <1>6 DEF storageVars, entitiesVars, ArtifactsOK, EntitiesOK
  <2> QED
    BY <1>5, <1>6, <2>1, <2>2
<1>7. ASSUME NEW c \in Callers, UNCHANGED <<built, closer>>,
             StorageSteps(c), UNCHANGED <<core, entitiesVars>>
      PROVE  Inv' /\ Moved(c)
  <2>1. Moved(c) /\ CallsOK' /\ ArtifactsOK' /\ UNCHANGED open
    BY <1>7, StorageMoves
  <2>2. CoreOK' /\ EntitiesOK'
    BY <1>7 DEF entitiesVars, CoreOK, EntitiesOK
  <2> QED
    BY <1>5, <1>7, <2>1, <2>2
<1>8. ASSUME NEW c \in Callers, UNCHANGED <<built, closer>>,
             EntitiesSteps(c), UNCHANGED <<core, storageVars>>
      PROVE  Inv' /\ Moved(c)
  <2>1. Moved(c) /\ CallsOK' /\ EntitiesOK' /\ UNCHANGED open
    BY <1>8, EntitiesMove
  <2>2. CoreOK' /\ ArtifactsOK'
    BY <1>8 DEF storageVars, CoreOK, ArtifactsOK
  <2> QED
    BY <1>5, <1>8, <2>1, <2>2
<1>9. ASSUME NEW c \in Callers, UNCHANGED <<built, closer>>,
             NetworkFails(c) \/ CancelCall(c), UNCHANGED <<core, storageVars, entitiesVars>>
      PROVE  Inv' /\ Moved(c)
  <2>1. Answered_(c) /\ StorageTrue(c) /\ call'[c].error # None
    BY <1>9, CallBreaks
  <2>2. Moved(c) /\ CallsOK' /\ UNCHANGED open
    BY <2>1 DEF Moved, Answered_, EntityTold
  <2>3. CoreOK' /\ ArtifactsOK' /\ EntitiesOK'
    BY <1>9 DEF storageVars, entitiesVars, CoreOK, ArtifactsOK, EntitiesOK
  <2> QED
    BY <1>5, <1>9, <2>2, <2>3
<1>10. ASSUME NEW d \in Documents, NEW a \in Artifacts, UNCHANGED <<built, closer>>,
              Refer(d, a), UNCHANGED <<core, entitiesVars>>
       PROVE  Inv' /\ call' = call
  <2>1. call' = call /\ open' = open /\ artifacts' = artifacts
    BY <1>10 DEF Refer, callVars
  <2>2. CallsOK' /\ CoreOK' /\ ArtifactsOK' /\ EntitiesOK'
    BY <1>10, <2>1 DEF entitiesVars, CallsOK, CoreOK, ArtifactsOK, EntitiesOK
  <2> QED
    BY <1>5, <1>10, <2>1, <2>2
<1>11. ASSUME NEW i \in MemoryIds, UNCHANGED <<built, closer>>,
              Forgotten(i), UNCHANGED <<storageVars, entitiesVars>>
       PROVE  Inv' /\ call' = call
  <2>1. call' = call /\ open' = open /\ CoreOK'
    BY <1>11, ForgottenKeeps DEF Forgotten, callVars
  <2>2. CallsOK' /\ ArtifactsOK' /\ EntitiesOK'
    BY <1>11, <2>1 DEF storageVars, entitiesVars, CallsOK, ArtifactsOK, EntitiesOK
  <2> QED
    BY <1>5, <1>11, <2>1, <2>2
<1> HIDE DEF Inv
<1> QED
  BY <1>1, <1>3, <1>4, <1>2, <1>6, <1>7, <1>8, <1>9, <1>10, <1>11 DEF Next
-----------------------------------------------------------------------------
(* What holds.                                                             *)

\* In every state each call agrees with its place, its request and what the
\* request met; a close() with what it has been to: storage/client.py,
\* entities/client.py, handle_impl.py, client/memory.py.
THEOREM Inductive == Spec => []Inv
BY InitInv, NextInv, PTL DEF Spec

\* The error code of a call tells what became of it in the backend: a
\* complaint about the input that nothing was sent, a result or an answer that
\* could not be read that it was carried out, a typed refusal that it was not.
\* Only a ValueError of the handle's list() and update_config() may be either
\* of the first two: handle_impl.py:223 and :277, config_handle.py:56.
THEOREM CodesTellFate == Spec => []AnswerTellsFate
<1>1. Inv => AnswerTellsFate
  BY DEF Inv, CallsOK, CallOK, Told, AnswerTellsFate, Over
<1> QED
  BY <1>1, Inductive, PTL

\* close() goes through all the namespaces, whatever becomes of each, and
\* raises the first of their errors.
THEOREM EveryNamespaceIsClosed == Spec => []CloseIsBestEffort
<1>1. ASSUME Inv, NEW k \in Closers, Closed(k)
      PROVE  /\ Len(closer[k].outcomes) = 3
             /\ CloseError(k) = None <=> \A i \in 1..3 : closer[k].outcomes[i] = None
             /\ \A i \in 1..3 :
                  closer[k].outcomes[i] # None /\ (\A j \in 1..(i - 1) : closer[k].outcomes[j] = None)
                    => CloseError(k) = closer[k].outcomes[i]
             /\ \A ns \in Namespaces : open[ns] => ns = "memory" /\ closer[k].outcomes[1] # None
  <2>1. CloserOK(closer[k]) /\ closer[k].pc = 4
    BY <1>1 DEF Inv, ClosersOK, Closed
  <2>2. /\ closer[k].outcomes \in Seq({None, "error", "CancelledError"})
        /\ Len(closer[k].outcomes) = IF closer[k].pc = 0 THEN 0 ELSE closer[k].pc - 1
    BY <2>1, Zenon DEF CloserOK
  <2>3. Len(closer[k].outcomes) = 3 /\ DOMAIN closer[k].outcomes = 1..3
    BY <2>1, <2>2
  <2>4. \A i \in 1..3 : open[NamespaceOrder[i]] => i = 1 /\ closer[k].outcomes[1] # None
    BY <2>1 DEF CloserOK
  <2>5. /\ NamespaceOrder[1] = "memory" /\ NamespaceOrder[2] = "storage" /\ NamespaceOrder[3] = "entities"
        /\ Namespaces = {"memory", "storage", "entities"}
    BY DEF NamespaceOrder, Namespaces
  <2>6. \A ns \in Namespaces : open[ns] => ns = "memory" /\ closer[k].outcomes[1] # None
    BY <2>4, <2>5
  <2>7. FirstError(closer[k].outcomes, closer[k].first)
    BY <2>1 DEF CloserOK
  <2> QED
    BY <2>3, <2>6, <2>7 DEF CloseError, FirstError
<1>2. Len(NamespaceOrder) = 3
  BY DEF NamespaceOrder
<1>3. Inv => ((\A k \in Closers : closer[k].pc = 0) => \A ns \in Namespaces : open[ns] = (built = "yes"))
  BY DEF Inv, ClosersOK
<1>4. Inv => CloseIsBestEffort
  BY <1>1, <1>2, <1>3, Zenon DEF CloseIsBestEffort
<1> QED
  BY <1>4, Inductive, PTL

\* What a step does to any one call.
LEMMA StepOfACall ==
  ASSUME Inv, [Next]_vars, NEW c \in Callers
  PROVE  \/ call'[c] = call[c]
         \/ Moved(c)
BY NextInv DEF Moved

\* A typed error or a result of a storage operation tells what held when the
\* backend served it.
THEOREM StorageAnswersAreTrue == Spec => StorageAnswerIsTrue
<1> DEFINE Body(c) ==
      call[c].pc # "ended" /\ Over(c)' /\ call[c].ns = "storage" /\ call[c].saw # None => StorageTrue(c)
<1>1. ASSUME Inv, [Next]_vars, NEW c \in Callers
      PROVE  Body(c)
  <2>1. CallOK(call[c])
    BY <1>1 DEF Inv, CallsOK
  <2>2. call'[c] = call[c] \/ Moved(c)
    BY <1>1, StepOfACall
  <2> QED
    BY <2>1, <2>2 DEF Moved, Begins, Served_, Answered_, CallOK, Over
<1>2. Inv /\ [Next]_vars => [\A c \in Callers :
        LET k == call[c]  error == call'[c].error  value == call'[c].value IN
        call[c].pc # "ended" /\ Over(c)' /\ k.ns = "storage" /\ k.saw # None =>
          /\ error = "artifact_not_found" => k.saw.mode \in {"free", "gone"}
          /\ k.op # "put" /\ k.saw.mode \in {"free", "gone"} =>
               error \in {"artifact_not_found", "network_error", "CancelledError", "http_502"}
          /\ error = "artifact_in_use" =>
               k.op = "delete" /\ k.arg.policy # "with_documents" /\ value.count = Cardinality(k.saw.references)
          /\ error = "pointer_content_not_managed" =>
               k.saw.mode = "pointer" /\ k.op \in {"get_content", "stream_content"}
          /\ error = None =>
               CASE k.op \in {"get", "head"} -> value = [id |-> k.arg.id, mode |-> k.saw.mode]
                 [] k.op = "put" -> value.mode = k.arg.input
                 [] k.op = "delete" -> value.cascaded \in {None, k.saw.references}
                 [] k.op = "verify" -> value.kind = "verified" => k.saw.kind = "verified"
                 [] OTHER -> TRUE]_vars
  BY <1>1, Zenon DEF StorageTrue
<1> QED
  BY <1>2, Inductive, PTL DEF Spec, StorageAnswerIsTrue

\* An operation on an entity is carried out on that entity, with the settings
\* given and no others, and its answer is about it.
THEOREM EntitiesAreServedAsAsked == Spec => EntitiesAsAsked
<1>1. ASSUME Inv, [Next]_vars, NEW c \in Callers
      PROVE  /\ call[c].fate = "sent" /\ call'[c].fate = "done" /\ call[c].ns = "entities" => EntityAsAsked(c)
             /\ call[c].pc = "waiting" /\ call'[c].pc = "ended" /\ call[c].ns = "entities"
                  /\ call'[c].error = None
                => call'[c].value.op = call[c].op /\ call'[c].value.id = call[c].arg.meant.id
  <2>1. CallOK(call[c])
    BY <1>1 DEF Inv, CallsOK
  <2>2. call'[c] = call[c] \/ Moved(c)
    BY <1>1, StepOfACall
  <2> QED
    BY <2>1, <2>2 DEF Moved, Begins, Served_, Answered_, CallOK, EntityTold
<1>2. Inv /\ [Next]_vars => [
        /\ \A c \in Callers :
             call[c].fate = "sent" /\ call'[c].fate = "done" /\ call[c].ns = "entities" =>
               LET m == call[c].arg.meant IN
               /\ \A e \in Entities \ {m.id} : settings'[e] = settings[e]
               /\ call[c].op = "patch_settings" => \A f \in Settings :
                    settings'[m.id][f] = IF m.given[f] # None THEN m.given[f] ELSE settings[m.id][f]
               /\ call[c].op = "delete" => memories'[m.id] = {}
        /\ \A c \in Callers :
             call[c].pc = "waiting" /\ call'[c].pc = "ended" /\ call[c].ns = "entities"
               /\ call'[c].error = None =>
                 call'[c].value.op = call[c].op /\ call'[c].value.id = call[c].arg.meant.id]_vars
  BY <1>1, Zenon DEF EntityAsAsked
<1> QED
  BY <1>2, Inductive, PTL DEF Spec, EntitiesAsAsked

\* What the core does for a call of the handle is what its caller asked for.
THEOREM HandleIsServedAsAsked == Spec => HandleAsAsked
<1>1. ASSUME Inv, [Next]_vars, NEW c \in Callers, call[c].ns = "memory", Served(c)
      PROVE  HandleAsked(c)
  <2>1. CallOK(call[c])
    BY <1>1 DEF Inv, CallsOK
  <2>2. call'[c] = call[c] \/ Moved(c)
    BY <1>1, StepOfACall
  <2> QED
    BY <1>1, <2>1, <2>2 DEF Moved, Begins, Served, Served_, Answered_, CallOK
<1>2. Inv /\ [Next]_vars => [\A c \in Callers : call[c].ns = "memory" /\ Served(c) =>
        LET k == call[c]  asked == k.arg.asked
            changed == {i \in MemoryIds : core'.rows[i] # core.rows[i]} IN
        /\ k.op = "ingest" => \E i \in MemoryIds : changed = {i} /\ core.rows[i] = None
             /\ [user |-> asked.scope.user, workspace |-> asked.scope.workspace, thread |-> asked.scope.thread,
                 visibility |-> asked.more]
                  = [f \in {"user", "workspace", "thread", "visibility"} |-> core'.rows[i][f]]
        /\ k.op # "ingest" => \A i \in changed : core'.rows[i] = None
             /\ IF asked.scope # None /\ asked.scope.workspace # None
                  THEN core.rows[i].workspace = asked.scope.workspace
                  ELSE asked.user \in {None, core.rows[i].user}
        /\ k.op = "delete" => changed = asked.ids
        /\ k.op \in {"decay", "consolidate"} /\ ~asked.more => changed = {}
        /\ k.op = "update_config" => \A f \in DOMAIN core.config :
             core'.config[f] = IF asked.more[f] # None THEN asked.more[f] ELSE core.config[f]]_vars
  BY <1>1, Zenon DEF HandleAsked, Changed
<1> QED
  BY <1>2, Inductive, PTL DEF Spec, HandleAsAsked

\* What a call of the handle returns is told as it is.
THEOREM HandleAnswersAreTrue == Spec => HandleTellsTruth
<1>1. ASSUME Inv, [Next]_vars, NEW c \in Callers, call[c].ns = "memory", AnsweredWell(c)
      PROVE  HandleTrue(c)
  <2>1. CallOK(call[c])
    BY <1>1 DEF Inv, CallsOK
  <2>2. call'[c] = call[c] \/ Moved(c)
    BY <1>1, StepOfACall
  <2> QED
    BY <1>1, <2>1, <2>2 DEF Moved, Begins, AnsweredWell, Over, Served_, Answered_, CallOK
<1>2. Inv /\ [Next]_vars => [\A c \in Callers : call[c].ns = "memory" /\ AnsweredWell(c) =>
        LET k == call[c]  asked == k.arg.asked  value == call'[c].value IN
        IF "memories" \in DOMAIN value
          THEN \A m \in value.memories : LET row == k.saw.rows[m.id] IN
            /\ asked.ids # {} => m.id \in asked.ids
            /\ m.scope.workspace = row.workspace /\ (row.workspace = None => m.scope.user = row.user)
            /\ m.scope.thread \in {None, row.thread}
            /\ m.scope.agent_scope = "self" => m.scope.agent = row.agent
            /\ k.op \in {"search", "list"} /\ asked.scope.thread # None => row.thread = asked.scope.thread
            /\ k.op = "list" /\ asked.more = "site" => row.site = "site"
          ELSE /\ k.op \notin {"ingest", "resolve"} \cup UnquotedReads => value.user = asked.user
               /\ k.op = "consolidate" => value.kind = IF asked.more THEN "execution" ELSE "scan"]_vars
  BY <1>1, Zenon DEF HandleTrue, MemoryTrue
<1> QED
  BY <1>2, Inductive, PTL DEF Spec, HandleTellsTruth

=============================================================================
