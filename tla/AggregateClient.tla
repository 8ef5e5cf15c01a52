-------------------------- MODULE AggregateClient --------------------------
(***************************************************************************)
(* AtomicMemoryClient and AsyncAtomicMemoryClient: the namespaces memory,  *)
(* storage and entities built from one configuration and closed together,  *)
(* while calls are under way.  The life of the memory namespace is the      *)
(* subject of AsyncMemoryClient and SyncMemoryClient: here it is           *)
(* initialized at once, its calls are those of the handle of its           *)
(* atomicmemory provider, and its close() succeeds, raises or is cancelled.*)
(***************************************************************************)
EXTENDS AtomicMemoryHandle, StorageClient, EntitiesClient

CONSTANTS Closers,  \* each calls close() once; Closers \cap Tasks may be cancelled
          MaxActors \* bound on the calls and close() calls made

VARIABLES built, \* no, half, yes or the error of the constructor
          closer \* of each closer: the namespace it is in, the outcomes so far

vars == <<callVars, core, storageVars, entitiesVars, built, closer>>

NamespaceOrder == <<"memory", "storage", "entities">>

-----------------------------------------------------------------------------
(* Configuration: each part is given well or not.                          *)

Configs == [api_url : BOOLEAN, api_key : BOOLEAN, user_id : BOOLEAN, timeout : BOOLEAN, providers : BOOLEAN]

\* The validators of each configuration model.
AtomicConfigAccepted(g) == g.api_url /\ g.api_key /\ g.user_id /\ g.timeout
StorageConfigAccepted(g) == g.api_url /\ g.api_key /\ g.user_id /\ g.timeout
EntitiesConfigAccepted(g) == g.api_url /\ g.api_key /\ g.timeout

\* The memory namespace has its providers' configuration, if none is given
\* one made from the rest.
MemoryConfigAccepted(g) == g.providers

Init ==
  /\ CallsInit /\ HandleInit /\ StorageInit /\ EntitiesInit
  /\ open = [ns \in Namespaces |-> FALSE]
  /\ built = "no"
  /\ closer = [k \in Closers |-> [pc |-> 0, first |-> None, outcomes |-> <<>>]]

\* The constructor.  Nothing it opens waits for a network.
Construct(g) ==
  /\ built = "no"
  /\ built' = IF AtomicConfigAccepted(g) /\ MemoryConfigAccepted(g)
                 /\ StorageConfigAccepted(g) /\ EntitiesConfigAccepted(g) THEN "yes" ELSE "ConfigError"
  /\ open' = [ns \in Namespaces |->
       /\ AtomicConfigAccepted(g) /\ MemoryConfigAccepted(g) /\ StorageConfigAccepted(g)
       /\ ns = "entities" => EntitiesConfigAccepted(g)]
  /\ UNCHANGED <<call, core, storageVars, entitiesVars, closer>>

-----------------------------------------------------------------------------
(* Bounds.  Calls of different namespaces share nothing: those of one       *)
(* behaviour are all of one.  Calls of the handle, which keeps nothing      *)
(* between them, share only the core: one, while others change the core.    *)
(* A namespace fails to close, but not while calls are made: they could not *)
(* tell.  A call that ended before it was sent has met nobody.              *)

MayAct == Cardinality({c \in Callers : call[c].pc # "idle"})
          + Cardinality({k \in Closers : closer[k].pc # 0}) < MaxActors

MayFail == \A c \in Callers : call[c].pc = "idle"

MayCall(c, ns) ==
  /\ built = "yes"
  /\ call[c].pc = "idle" =>
       /\ MayAct
       /\ \A k \in Closers : closer[k].first = None
       /\ \A x \in Callers : call[x].pc = "ended" => call[x].fate # "unsent"
       /\ \A x \in Callers : call[x].ns \in {None, ns} \ {"memory"}

-----------------------------------------------------------------------------
(* close(): one namespace after the other, whatever becomes of it.         *)

CloseCalled(k) ==
  /\ built = "yes" /\ closer[k].pc = 0 /\ MayAct
  /\ closer' = [closer EXCEPT ![k].pc = 1]
  /\ UNCHANGED <<callVars, core, storageVars, entitiesVars, built>>

\* Mutant of NamespaceCloses: an error ends the loop.
NamespaceClosesOrStops(k, outcome) ==
  closer' = [closer EXCEPT
    ![k].pc = IF outcome = None THEN @ + 1 ELSE 4,
    ![k].outcomes = Append(@, outcome),
    ![k].first = IF @ = None THEN outcome ELSE @]

\* BaseException is caught; the first error is kept.
NamespaceCloses(k, outcome) ==
  closer' = [closer EXCEPT
    ![k].pc = @ + 1,
    ![k].outcomes = Append(@, outcome),
    ![k].first = IF @ = None THEN outcome ELSE @]

CloseNext(k) ==
  /\ closer[k].pc \in 1..3
  /\ LET ns == NamespaceOrder[closer[k].pc] IN
     /\ \E outcome \in {None} \cup (IF MayFail THEN {"error"} ELSE {})
                              \cup (IF MayFail /\ k \in Tasks THEN {"CancelledError"} ELSE {}) :
          NamespaceCloses(k, outcome)
     /\ \/ CloseClient(ns)
        \/ ns = "memory" /\ closer'[k].first # None /\ UNCHANGED open
  /\ UNCHANGED <<call, core, storageVars, entitiesVars, built>>

\* What close() raises, or None.
CloseError(k) == closer[k].first

Closed(k) == closer[k].pc = 4

Next ==
  \/ \E g \in Configs : Construct(g)
  \/ \E k \in Closers : CloseCalled(k) \/ CloseNext(k)
  \/ /\ UNCHANGED <<built, closer>>
     /\ \/ \E c \in Callers :
             \/ MayCall(c, "memory") /\ HandleSteps(c) /\ UNCHANGED <<storageVars, entitiesVars>>
             \/ MayCall(c, "storage") /\ StorageSteps(c) /\ UNCHANGED <<core, entitiesVars>>
             \/ MayCall(c, "entities") /\ EntitiesSteps(c) /\ UNCHANGED <<core, storageVars>>
             \/ /\ NetworkFails(c) \/ CancelCall(c)
                /\ UNCHANGED <<core, storageVars, entitiesVars>>
        \/ \E d \in Documents, a \in Artifacts : Refer(d, a) /\ UNCHANGED <<core, entitiesVars>>
        \/ \E i \in MemoryIds : Forgotten(i) /\ UNCHANGED <<storageVars, entitiesVars>>

Spec == Init /\ [][Next]_vars

-----------------------------------------------------------------------------
Over(c) == call[c].pc = "ended"

LocalErrors == {"invalid_storage_input", "missing_artifact_id", "streaming_body_not_supported",
                "invalid_entities_input", "ValidationError", "RuntimeError"}

\* The error code of a call tells what became of it in the backend: a
\* complaint about the input, or a closed client, that no request was sent; a
\* result or an unreadable answer, that it was carried out; a typed refusal,
\* that it was not.  (After network_error, a cancellation or a gateway's
\* answer a caller knows nothing, and neither after a ValueError of list() or
\* update_config(): a dict they do not accept raises it before anything is
\* sent, an answer they cannot read after it was carried out.)
AnswerTellsFate == \A c \in Callers : Over(c) =>
  /\ call[c].error \in LocalErrors => call[c].fate = "unsent"
  /\ call[c].error \in {None, "invalid_storage_response", "invalid_head_response", "invalid_entities_response",
                        "AttributeError", "KeyError", "TypeError", "ValueError"}
       => \/ call[c].fate = "done"
          \/ call[c].fate = "refused" /\ call[c].op \in {"get", "delete"} /\ call[c].ns = "memory"
          \/ /\ call[c].error = "ValueError" /\ call[c].fate = "unsent"
             /\ call[c].op \in {"list", "update_config"} /\ call[c].ns = "memory"
  /\ call[c].error \in {"artifact_in_use", "artifact_not_found", "pointer_content_not_managed",
                        "filecoin_direct_storage_not_yet_supported", "unsupported_capability", "RateLimitError"}
       => call[c].fate = "refused"

\* The caller of a storage operation who gets a typed error or a result gets
\* what held when the backend served the request: not found is about an
\* artifact that was not there, for HEAD too; in use names the number of
\* documents there were, and with_documents never meets it; a verification
\* never turns out better than it was.
StorageAnswerIsTrue == [][\A c \in Callers :
  LET k == call[c]  error == call'[c].error  value == call'[c].value IN
  call[c].pc # "ended" /\ Over(c)' /\ k.ns = "storage" /\ k.saw # None =>
    /\ error = "artifact_not_found" => k.saw.mode \in {"free", "gone"}
    /\ k.op # "put" /\ k.saw.mode \in {"free", "gone"} =>
         error \in {"artifact_not_found", "network_error", "CancelledError", "http_502"}
    /\ error = "artifact_in_use" =>
         k.op = "delete" /\ k.arg.policy # "with_documents" /\ value.count = Cardinality(k.saw.references)
    /\ error = "pointer_content_not_managed" =>
         k.saw.mode = "pointer" /\ k.op \in {"get_content", "stream_content"}
    /\ error = None =>
         CASE k.op \in {"get", "head"} -> value = [id |-> k.arg.id, mode |-> k.saw.mode]
           [] k.op = "put" -> value.mode = k.arg.input
           [] k.op = "delete" -> value.cascaded \in {None, k.saw.references}
           [] k.op = "verify" -> value.kind = "verified" => k.saw.kind = "verified"
           [] OTHER -> TRUE
  ]_vars

\* An operation on an entity is carried out on that entity and no other,
\* whatever its id is spelt like.  A patch sets the settings its caller gave,
\* falsy ones too, and leaves the others as they were, be they patched by
\* somebody else in between.
EntitiesAsAsked == [][
  /\ \A c \in Callers :
       call[c].fate = "sent" /\ call'[c].fate = "done" /\ call[c].ns = "entities" =>
         LET m == call[c].arg.meant IN
         /\ \A e \in Entities \ {m.id} : settings'[e] = settings[e]
         /\ call[c].op = "patch_settings" => \A f \in Settings :
              settings'[m.id][f] = IF m.given[f] # None THEN m.given[f] ELSE settings[m.id][f]
         /\ call[c].op = "delete" => memories'[m.id] = {}
  /\ \A c \in Callers :
       call[c].pc = "waiting" /\ call'[c].pc = "ended" /\ call[c].ns = "entities" /\ call'[c].error = None =>
           call'[c].value.op = call[c].op /\ call'[c].value.id = call[c].arg.meant.id
  ]_vars

Served(c) == call[c].fate = "sent" /\ call'[c].fate = "done"

AnsweredWell(c) == call[c].pc = "waiting" /\ Over(c)' /\ call'[c].error = None

\* What the core does for a call of the handle is what its caller asked for:
\* an ingest leaves one memory more, of the scope, the thread and with the
\* visibility given; nothing but an ingest, a delete and an administrative
\* pass that is no dry run touches memories, and only those of the user or the
\* workspace; a configuration changes in the values given, zero included.
HandleAsAsked == [][\A c \in Callers : call[c].ns = "memory" /\ Served(c) =>
  LET k == call[c]  asked == k.arg.asked
      changed == {i \in MemoryIds : core'.rows[i] # core.rows[i]} IN
  /\ k.op = "ingest" => \E i \in MemoryIds : changed = {i} /\ core.rows[i] = None
       /\ [user |-> asked.scope.user, workspace |-> asked.scope.workspace, thread |-> asked.scope.thread,
           visibility |-> asked.more] = [f \in {"user", "workspace", "thread", "visibility"} |-> core'.rows[i][f]]
  /\ k.op # "ingest" => \A i \in changed : core'.rows[i] = None
       /\ IF asked.scope # None /\ asked.scope.workspace # None
            THEN core.rows[i].workspace = asked.scope.workspace
            ELSE asked.user \in {None, core.rows[i].user}
  /\ k.op = "delete" => changed = asked.ids
  /\ k.op \in {"decay", "consolidate"} /\ ~asked.more => changed = {}
  /\ k.op = "update_config" => \A f \in DOMAIN core.config :
       core'.config[f] = IF asked.more[f] # None THEN asked.more[f] ELSE core.config[f]
  ]_vars

\* The three routes that put a user id into the query as it is.
UnquotedReads == {"cap", "stats", "reconcile_status"}

\* What a call of the handle returns is told as it is.  The thread and the
\* agents a returned memory is said to be of are those it is of; where the
\* route filters by thread and a thread is asked for, all are of that thread,
\* be the core aware of threads or not; a list of one source holds no other's.
\* An administrative answer is about the user asked for.
HandleTellsTruth == [][\A c \in Callers : call[c].ns = "memory" /\ AnsweredWell(c) =>
  LET k == call[c]  asked == k.arg.asked  value == call'[c].value IN
  IF "memories" \in DOMAIN value
    THEN \A m \in value.memories : LET row == k.saw.rows[m.id] IN
      /\ asked.ids # {} => m.id \in asked.ids
      /\ m.scope.workspace = row.workspace /\ (row.workspace = None => m.scope.user = row.user)
      /\ m.scope.thread \in {None, row.thread}
      /\ m.scope.agent_scope = "self" => m.scope.agent = row.agent
      /\ k.op \in {"search", "list"} /\ asked.scope.thread # None => row.thread = asked.scope.thread
      /\ k.op = "list" /\ asked.more = "site" => row.site = "site"
    ELSE /\ k.op \notin {"ingest", "resolve"} \cup UnquotedReads => value.user = asked.user
         /\ k.op = "consolidate" => value.kind = IF asked.more THEN "execution" ELSE "scan"
  ]_vars

\* A close() that is over has called close() of every namespace, raises the
\* first of their errors and no other, and no request is sent after it.
\* Before, the REST namespaces are open or closed, never half built.
CloseIsBestEffort ==
  /\ \A k \in Closers : Closed(k) =>
       /\ Len(closer[k].outcomes) = Len(NamespaceOrder)
       /\ CloseError(k) = None <=> \A i \in 1..Len(NamespaceOrder) : closer[k].outcomes[i] = None
       /\ \A i \in 1..Len(NamespaceOrder) :
            closer[k].outcomes[i] # None /\ (\A j \in 1..(i - 1) : closer[k].outcomes[j] = None)
              => CloseError(k) = closer[k].outcomes[i]
       /\ \A ns \in Namespaces : open[ns] => ns = "memory" /\ closer[k].outcomes[1] # None
  /\ (\A k \in Closers : closer[k].pc = 0) => \A ns \in Namespaces : open[ns] = (built = "yes")
=============================================================================
