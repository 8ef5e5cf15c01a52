------------------------- MODULE AtomicMemoryHandle -------------------------
(***************************************************************************)
(* client.memory.atomicmemory: the routes of the atomicmemory backend that *)
(* the provider contract does not know.  Scopes are translated into what   *)
(* each route understands, and answers told with the scope that really was *)
(* applied.  A user id is a sequence of parts: what follows an ampersand   *)
(* is a part of its own.                                                   *)
(***************************************************************************)
EXTENDS RestCalls

CONSTANTS Users,
          Scopes,    \* those the callers give
          MemoryIds,
          MinRows,   \* bound on the memories others delete: so many stay
          Stores     \* what the core may hold at first: of each id a Row or None

ASSUME UsersAssumption == \A u \in Users : u # <<>>

VARIABLE core  \* rows, trust, lessons, conflicts, config of the backend

UserScope(u, t) ==
  [kind |-> "user", user |-> u, workspace |-> None, agent |-> None, agent_scope |-> None, thread |-> t]

WorkspaceScope(u, s, t) ==
  [kind |-> "workspace", user |-> u, workspace |-> "w", agent |-> "self", agent_scope |-> s, thread |-> t]

Visibilities == {None, "workspace"}

Sites == {None, "", "site"}

\* A memory as the core keeps it.
Row(u, w, a, t, s, v) ==
  [user |-> u, workspace |-> w, agent |-> a, thread |-> t, site |-> s, visibility |-> v]

ASSUME ScopesAssumption == \A s \in Scopes :
  /\ s # None
  /\ s = UserScope(s.user, s.thread) \/ s = WorkspaceScope(s.user, s.agent_scope, s.thread)
  /\ \A v \in Visibilities : Row(s.user, s.workspace, s.agent, s.thread, "site", v) # None

ASSUME StoresAssumption == \A s \in Stores : s = [i \in MemoryIds |-> s[i]]

HandleInit == core \in {[rows |-> s, trust |-> [u \in Users |-> None], lessons |-> [u \in Users |-> {"l"}],
                         conflicts |-> [u \in Users |-> "open"],
                         config |-> [threshold |-> "default", results |-> "default"]] : s \in Stores}

-----------------------------------------------------------------------------
(* scope_mapper.py.                                                        *)

\* Mutant of ScopeToFields: threads are for conversations, not for bodies.
ScopeWithoutThread(scope, include_agent_scope, include_thread) ==
  [user |-> scope.user, workspace |-> scope.workspace, agent |-> scope.agent,
   agent_scope |-> IF include_agent_scope THEN scope.agent_scope ELSE None, thread |-> None]

ScopeToFields(scope, include_agent_scope, include_thread) ==
  [user |-> scope.user, workspace |-> scope.workspace, agent |-> scope.agent,
   agent_scope |-> IF include_agent_scope THEN scope.agent_scope ELSE None,
   thread |-> IF include_thread THEN scope.thread ELSE None]

\* For a query, which holds ids percent-encoded.
ScopeToQueryPairs(scope, include_thread) == ScopeToFields(scope, FALSE, include_thread)

\* Mutant of AssertScopeAllowsVisibility.
VisibilityAnywhere(scope, visibility) == None

AssertScopeAllowsVisibility(scope, visibility) ==
  IF visibility # None /\ scope.kind # "workspace" THEN "ValidationError" ELSE None

StripAgentScope(scope) == [scope EXCEPT !.agent_scope = None]

\* Mutant of StripReadFilters: nothing is stripped of a scope.
StripNothing(scope) == scope

StripReadFilters(scope) == [scope EXCEPT !.agent_scope = None, !.thread = None]

-----------------------------------------------------------------------------
(* Requests of the base routes.  "route" stands for method and path.        *)

PostIngest(scope, visibility, skip) ==
  With([route |-> "ingest", skip |-> skip,
        visibility |-> IF scope.kind = "workspace" THEN visibility ELSE None], ScopeToFields(scope, FALSE, TRUE))

PostSearch(scope) == With([route |-> "search"], ScopeToFields(scope, TRUE, TRUE))

ExpandRequest(ids, scope) == With([route |-> "expand", ids |-> ids], ScopeToFields(scope, FALSE, FALSE))

\* An empty source_site is not sent.
ListMemoriesRequest(scope, o) ==
  With([route |-> "list", limit |-> o.limit, offset |-> o.offset,
        site |-> IF o.site = "" THEN None ELSE o.site], ScopeToQueryPairs(scope, TRUE))

GetMemoryRequest(id, scope) ==
  With([route |-> "get", ids |-> {id}], ScopeToQueryPairs(StripReadFilters(scope), FALSE))

DeleteMemoryRequest(id, scope) ==
  With([route |-> "delete", ids |-> {id}], ScopeToQueryPairs(StripReadFilters(scope), FALSE))

\* Options given as a dict are validated by pydantic, whose ValidationError is
\* a ValueError.
CoerceListOptions(o) == IF o.valid THEN None ELSE "ValueError"

AssertListOptionsScopeCompat(scope, o) ==
  IF scope.kind = "workspace" /\ o.site # None THEN "ValidationError" ELSE None

-----------------------------------------------------------------------------
(* Requests of the categories.                                             *)

\* An id in a query as it is: the server takes what comes before the
\* ampersand for it.
Unquoted(u) == <<Head(u)>>

ConsolidateRequest(u, execute) ==
  [route |-> "consolidate", user |-> u, execute |-> IF execute THEN TRUE ELSE None]

\* Mutant of DecayRequest: the flag is sent when it is set.
DecayAlwaysWet(u, dry_run) == [route |-> "decay", user |-> u, dry_run |-> IF dry_run THEN FALSE ELSE TRUE]

\* The core takes no flag for a dry run.
DecayRequest(u, dry_run) == [route |-> "decay", user |-> u, dry_run |-> IF dry_run THEN None ELSE FALSE]

CapRequest(u) == [route |-> "cap", user |-> Unquoted(u)]
MemoryStatsRequest(u) == [route |-> "stats", user |-> Unquoted(u)]
ReconcileStatusRequest(u) == [route |-> "reconcile/status", user |-> Unquoted(u)]
ResetSourceRequest(u, site) == [route |-> "reset-source", user |-> u, site |-> site]
ReconcileRequest(u) == [route |-> "reconcile", user |-> u]
ReconcileAllRequest == [route |-> "reconcile", user |-> None]

SummaryRequest(u) == [route |-> "audit/summary", user |-> u]
RecentRequest(u, limit) == [route |-> "audit/recent", user |-> u, limit |-> limit]
TrailRequest(id, u) == [route |-> "audit", ids |-> {id}, user |-> u]

LessonsRequest(u) == [route |-> "lessons", user |-> u]
LessonStatsRequest(u) == [route |-> "lessons/stats", user |-> u]
ReportLessonRequest(u, sources) == [route |-> "lessons/report", user |-> u, ids |-> sources]
DeleteLessonRequest(l, u) == [route |-> "lessons/delete", lesson |-> l, user |-> u]

HealthRequest == [route |-> "health", user |-> None]

\* So are updates given as a dict.
CoerceConfigUpdates(valid) == IF valid THEN None ELSE "ValueError"

\* Values that are None are left out: 0 is sent.
UpdateConfigRequest(updates) ==
  [route |-> "config", user |-> None,
   updates |-> [f \in {g \in DOMAIN updates : updates[g] # None} |-> updates[f]]]

SetTrustRequest(u, level) == [route |-> "trust/set", user |-> u, level |-> level]
GetTrustRequest(u) == [route |-> "trust/get", user |-> u]
ConflictsRequest(u) == [route |-> "conflicts", user |-> u]
\* By the id of the conflict alone, which here is its user's.
ResolveConflictRequest(conflict, resolution) ==
  [route |-> "conflicts/resolve", user |-> None, conflict |-> conflict, resolution |-> resolution]
AutoResolveRequest(u) == [route |-> "conflicts/auto", user |-> u]

-----------------------------------------------------------------------------
(* The operations.  "asked" is what the caller meant.                      *)

HandleCall(c, op, asked, sent, complaint) ==
  /\ IF complaint # None THEN Rejected(c, "memory", op, complaint)
                         ELSE Sent(c, "memory", op, [asked |-> asked, sent |-> sent])
  /\ UNCHANGED <<open, core>>

Asked(scope, ids, more) == [user |-> scope.user, scope |-> scope, ids |-> ids, more |-> more]

IngestFull(c) == \E s \in Scopes, v \in Visibilities :
  HandleCall(c, "ingest", Asked(s, {}, v), PostIngest(s, v, FALSE), AssertScopeAllowsVisibility(s, v))

IngestQuick(c) == \E s \in Scopes, v \in Visibilities, skip \in BOOLEAN :
  HandleCall(c, "ingest", Asked(s, {}, v), PostIngest(s, v, skip), AssertScopeAllowsVisibility(s, v))

\* search() and search_fast() differ in their path.
SearchMemories(c) == \E s \in Scopes : HandleCall(c, "search", Asked(s, {}, None), PostSearch(s), None)

Expand(c) == \E s \in Scopes :
  HandleCall(c, "expand", Asked(s, MemoryIds, None), ExpandRequest(MemoryIds, s), None)

ListMemories(c) == \E s \in Scopes, site \in Sites, limit, offset \in {None, 1}, valid \in BOOLEAN :
  LET o == [site |-> site, limit |-> limit, offset |-> offset, valid |-> valid] IN
  HandleCall(c, "list", Asked(s, {}, site), ListMemoriesRequest(s, o),
             IF CoerceListOptions(o) # None THEN CoerceListOptions(o) ELSE AssertListOptionsScopeCompat(s, o))

GetMemory(c) == \E s \in Scopes, id \in MemoryIds :
  HandleCall(c, "get", Asked(s, {id}, None), GetMemoryRequest(id, s), None)

DeleteMemory(c) == \E s \in Scopes, id \in MemoryIds :
  HandleCall(c, "delete", Asked(s, {id}, None), DeleteMemoryRequest(id, s), None)

Admin(c, op, u, more, sent) ==
  HandleCall(c, op, [user |-> u, scope |-> None, ids |-> {}, more |-> more], sent, None)

Consolidate(c) == \E u \in Users, x \in BOOLEAN : Admin(c, "consolidate", u, x, ConsolidateRequest(u, x))
Decay(c) == \E u \in Users, dry \in BOOLEAN : Admin(c, "decay", u, ~dry, DecayRequest(u, dry))
Cap(c) == \E u \in Users : Admin(c, "cap", u, None, CapRequest(u))
MemoryStats(c) == \E u \in Users : Admin(c, "stats", u, None, MemoryStatsRequest(u))
ResetSource(c) == \E u \in Users : Admin(c, "reset_source", u, "site", ResetSourceRequest(u, "site"))
Reconcile(c) == \E u \in Users : Admin(c, "reconcile", u, None, ReconcileRequest(u))
ReconcileAll(c) == Admin(c, "reconcile_all", None, None, ReconcileAllRequest)
ReconcileStatus(c) == \E u \in Users : Admin(c, "reconcile_status", u, None, ReconcileStatusRequest(u))

Summary(c) == \E u \in Users : Admin(c, "summary", u, None, SummaryRequest(u))
Recent(c) == \E u \in Users, limit \in {None, 0} : Admin(c, "recent", u, None, RecentRequest(u, limit))
Trail(c) == \E u \in Users, id \in MemoryIds : Admin(c, "trail", u, None, TrailRequest(id, u))

Lessons(c) == \E u \in Users : Admin(c, "lessons", u, None, LessonsRequest(u))
LessonStats(c) == \E u \in Users : Admin(c, "lesson_stats", u, None, LessonStatsRequest(u))
ReportLesson(c) == \E u \in Users, sources \in {{}, MemoryIds} :
  Admin(c, "report", u, None, ReportLessonRequest(u, sources))
DeleteLesson(c) == \E u \in Users, l \in {"l", "other"} :
  Admin(c, "delete_lesson", u, l, DeleteLessonRequest(l, u))

Health(c) == Admin(c, "health", None, None, HealthRequest)
UpdateConfig(c) == \E t \in {None, "zero"}, n \in {None, "one"}, valid \in BOOLEAN :
  LET updates == [threshold |-> t, results |-> n] IN
  HandleCall(c, "update_config", [user |-> None, scope |-> None, ids |-> {}, more |-> updates],
             UpdateConfigRequest(updates), CoerceConfigUpdates(valid))

SetTrust(c) == \E u \in Users, level \in {0, 1} : Admin(c, "set_trust", u, level, SetTrustRequest(u, level))
GetTrust(c) == \E u \in Users : Admin(c, "get_trust", u, None, GetTrustRequest(u))
Conflicts(c) == \E u \in Users : Admin(c, "conflicts", u, None, ConflictsRequest(u))
ResolveConflict(c) == \E u \in Users : Admin(c, "resolve", u, None, ResolveConflictRequest(u, "resolved_new"))
AutoResolve(c) == \E u \in Users : Admin(c, "auto_resolve", u, None, AutoResolveRequest(u))

-----------------------------------------------------------------------------
(* Answers.                                                                *)

\* Too many requests come first, whatever else the status says.
RaiseForStatus(r) == IF r.status = 429 THEN "RateLimitError" ELSE "ProviderError"

\* Mutant of BuildMemoryScope: what the core does not say is taken as asked.
BuildScopeUnchecked(session, requested) ==
  [error |-> None, scope |-> IF session = None THEN requested ELSE [requested EXCEPT !.thread = session]]

BuildMemoryScope(session, requested) ==
  [error |-> IF requested.thread \notin {None, session} THEN "ValueError" ELSE None,
   scope |-> IF session = None THEN requested ELSE [requested EXCEPT !.thread = session]]

\* Of raw memories those asked for: all of them, or the error of one.
ToAtomicMemory(raws, scope) ==
  [error |-> IF \E m \in raws : BuildMemoryScope(m.session, scope).error # None THEN "ValueError" ELSE None,
   value |-> [memories |-> {[id |-> m.id, scope |-> BuildMemoryScope(m.session, scope).scope] : m \in raws}]]

ListCursor(sent, count) ==
  LET limit == IF sent.limit = None THEN 20 ELSE sent.limit
      offset == IF sent.offset = None THEN 0 ELSE sent.offset IN
  IF count = limit THEN offset + count ELSE None

MapSearchResponse(raws, scope) ==
  LET m == ToAtomicMemory(raws, scope) IN [m EXCEPT !.value = With([page |-> scope], @)]

\* The key decides, not what was asked for.
ToConsolidationResult(r) == [error |-> None, value |-> [user |-> r.user, kind |-> IF r.ids THEN "execution" ELSE "scan"]]

\* What is wrong with a body: nothing, it is no JSON, it is null, it is a list
\* where an object is due, a field is not what a model requires, or the object
\* lacks the key it is read by.  Where that held a list, it is an empty one.
HandleBodies == {"fine", "no json", "null", "list", "bad field", "no key"}

Categories == {"consolidate", "decay", "cap", "stats", "reset_source", "reconcile", "reconcile_all",
               "reconcile_status", "summary", "recent", "trail"}

\* Answers about lifecycle and audit: pydantic's word, but for two of open
\* shape, and after a look for a key where there are two models.
CategoryFault(op, body) ==
  IF body = "null" /\ op = "consolidate" THEN "TypeError"
  ELSE IF body \in {"null", "list"} \/ (body = "bad field" /\ op \notin {"stats", "reconcile_status"})
  THEN "ValueError" ELSE None

\* The operations that take their answer apart before the models see it.
TakenApart == {"search", "list", "expand", "lessons", "health", "update_config"}

\* The other answers: the models again, after what is inside was taken out.
\* get() takes null for no memory.
RebuiltFault(op, body) ==
  CASE body = "bad field" -> "ValueError"
    [] body = "no key" /\ op \in {"get", "health", "update_config"} -> "KeyError"
    [] body \in {"null", "list"} /\ op \in TakenApart -> "AttributeError"
    [] body \in {"null", "list"} /\ op \notin TakenApart \cup {"get"} -> "ValueError"
    [] body = "list" /\ op = "get" -> "TypeError"
    [] OTHER -> None

BodyFault(op, body) ==
  CASE body = "no json" -> "ValueError"
    [] body # "no json" /\ op \in Categories -> CategoryFault(op, body)
    [] OTHER -> RebuiltFault(op, body)

MappedHandle(op, r, arg) ==
  CASE op = "search" -> MapSearchResponse(r.raws, arg.asked.scope)
    [] op = "list" -> LET m == ToAtomicMemory(r.raws, StripAgentScope(arg.asked.scope)) IN
                      [m EXCEPT !.value = With([cursor |-> ListCursor(arg.sent, Cardinality(r.raws))], @)]
    [] op \in {"expand", "get"} -> ToAtomicMemory(r.raws, StripReadFilters(arg.asked.scope))
    [] op = "consolidate" -> ToConsolidationResult(r)
    [] OTHER -> [error |-> None, value |-> [user |-> r.user]]

HandleReceives(c) ==
  \E r \in {call[c].reply, BadGateway} \ {None} :
  LET k == call[c] IN
  /\ k.pc = "waiting" /\ k.ns = "memory"
  /\ CASE r.status = 404 /\ k.op \in {"get", "delete"} -> Ends(c, None, [memories |-> {}])
       [] ~Success(r) /\ ~(r.status = 404 /\ k.op \in {"get", "delete"}) -> Ends(c, RaiseForStatus(r), None)
       [] Success(r) /\ k.op \in {"delete", "delete_lesson"} -> Ends(c, None, [memories |-> {}])
       [] OTHER -> \E body \in HandleBodies :
            LET m == MappedHandle(k.op, IF body \in {"null", "no key"} THEN [r EXCEPT !.raws = {}] ELSE r, k.arg)
                error == IF BodyFault(k.op, body) # None THEN BodyFault(k.op, body) ELSE m.error IN
            Ends(c, error, IF error = None THEN m.value ELSE None)
  /\ UNCHANGED <<open, core>>

-----------------------------------------------------------------------------
(* The core.  Agent scope counts for searches only; threads for ingest,    *)
(* search and list, in a core that knows of them.                          *)

Rows == {i \in MemoryIds : core.rows[i] # None}

InScope(i, q) ==
  /\ core.rows[i].workspace = q.workspace
  /\ q.workspace = None => core.rows[i].user = q.user

Found(q, knowsThreads) == {i \in Rows :
  /\ InScope(i, q)
  /\ q.route \in {"expand", "get", "delete"} => i \in q.ids
  /\ q.route = "search" /\ q.agent_scope = "self" => core.rows[i].agent = q.agent
  /\ q.route \in {"search", "list"} /\ knowsThreads /\ q.thread # None => core.rows[i].thread = q.thread
  /\ q.route = "list" /\ q.site # None => core.rows[i].site = q.site}

Of(u) == {i \in Rows : u \in {None, core.rows[i].user}}

CoreAnswers(c, raws, user, ids) ==
  Answered(c, "done", [status |-> 200, raws |-> raws, user |-> user, ids |-> ids],
           [rows |-> [m \in {r.id : r \in raws} |-> core.rows[m]]])

CoreRefuses(c, status) ==
  /\ Answered(c, "refused", [status |-> status], None)
  /\ UNCHANGED core

ServeIngest(c, q) == \E i \in MemoryIds \ Rows :
  /\ core' = [core EXCEPT !.rows[i] =
       Row(q.user, q.workspace, q.agent, q.thread, "site", IF q.workspace # None THEN q.visibility ELSE None)]
  /\ CoreAnswers(c, {}, q.user, FALSE)

PageSize(q, found) ==
  IF q.route # "list" THEN Cardinality(found)
  ELSE LET left == IF q.offset = None \/ found = {} THEN Cardinality(found) ELSE Cardinality(found) - q.offset IN
       IF q.limit # None /\ q.limit < left THEN q.limit ELSE left

ServeFound(c, q) == \E knowsThreads \in BOOLEAN :
  LET found == Found(q, knowsThreads) IN
  IF q.route = "get" /\ found = {} THEN CoreRefuses(c, 404)
  ELSE /\ \E page \in {p \in SUBSET found : Cardinality(p) = PageSize(q, found)} :
            CoreAnswers(c, {[id |-> i, session |-> IF knowsThreads THEN core.rows[i].thread ELSE None] : i \in page},
                        q.user, FALSE)
       /\ UNCHANGED core

\* Some of the rows leave: archived, merged, superseded or deleted.
RowsLeave(c, q, which, ids) == \E gone \in SUBSET which :
  /\ core' = [core EXCEPT !.rows = [i \in MemoryIds |-> IF i \in gone THEN None ELSE @[i]]]
  /\ CoreAnswers(c, {}, q.user, ids)

ServeDeleteMemory(c, q) ==
  LET found == Found(q, FALSE) IN
  IF found = {} THEN CoreRefuses(c, 404)
  ELSE /\ core' = [core EXCEPT !.rows = [i \in MemoryIds |-> IF i \in found THEN None ELSE @[i]]]
       /\ CoreAnswers(c, {}, q.user, FALSE)

ServeAdmin(c, q) ==
  CASE q.route = "consolidate" -> RowsLeave(c, q, IF q.execute = TRUE THEN Of(q.user) ELSE {}, q.execute = TRUE)
    [] q.route = "decay" -> RowsLeave(c, q, IF q.dry_run = FALSE THEN Of(q.user) ELSE {}, FALSE)
    [] q.route = "reconcile" -> RowsLeave(c, q, Of(q.user), FALSE)
    [] q.route = "reset-source" -> RowsLeave(c, q, {i \in Of(q.user) : core.rows[i].site = q.site}, FALSE)
    [] q.route = "lessons/delete" /\ q.lesson \notin core.lessons[q.user] -> CoreRefuses(c, 404)
    [] OTHER ->
         /\ core' = CASE q.route = "lessons/report" -> [core EXCEPT !.lessons[q.user] = @ \cup {"new"}]
                      [] q.route = "lessons/delete" -> [core EXCEPT !.lessons[q.user] = @ \ {q.lesson}]
                      [] q.route = "config" -> [core EXCEPT !.config = With(q.updates, @)]
                      [] q.route = "trust/set" -> [core EXCEPT !.trust[q.user] = q.level]
                      [] q.route = "conflicts/resolve" -> [core EXCEPT !.conflicts[q.conflict] = q.resolution]
                      [] q.route = "conflicts/auto" -> [core EXCEPT !.conflicts[q.user] = "auto_resolved"]
                      [] OTHER -> core
         /\ CoreAnswers(c, {}, q.user, FALSE)

CoreServes(c) ==
  /\ call[c].ns = "memory" /\ call[c].fate = "sent"
  /\ LET q == call[c].arg.sent IN
     \/ \E status \in {429, 422} : CoreRefuses(c, status)
     \/ q.route = "ingest" /\ ServeIngest(c, q)
     \/ q.route \in {"search", "expand", "list", "get"} /\ ServeFound(c, q)
     \/ q.route = "delete" /\ ServeDeleteMemory(c, q)
     \/ q.route \notin {"ingest", "search", "expand", "list", "get", "delete"} /\ ServeAdmin(c, q)
  /\ UNCHANGED open

\* Somebody else deletes a memory before a call is served.
Forgotten(i) ==
  /\ i \in Rows /\ Cardinality(Rows) > MinRows
  /\ \E c \in Callers : call[c].ns = "memory" /\ call[c].fate = "sent"
  /\ core' = [core EXCEPT !.rows[i] = None]
  /\ UNCHANGED callVars

HandleSteps(c) ==
  \/ IngestFull(c) \/ IngestQuick(c) \/ SearchMemories(c) \/ Expand(c) \/ ListMemories(c)
  \/ GetMemory(c) \/ DeleteMemory(c)
  \/ Consolidate(c) \/ Decay(c) \/ Cap(c) \/ MemoryStats(c) \/ ResetSource(c)
  \/ Reconcile(c) \/ ReconcileAll(c) \/ ReconcileStatus(c)
  \/ Summary(c) \/ Recent(c) \/ Trail(c)
  \/ Lessons(c) \/ LessonStats(c) \/ ReportLesson(c) \/ DeleteLesson(c)
  \/ Health(c) \/ UpdateConfig(c)
  \/ SetTrust(c) \/ GetTrust(c) \/ Conflicts(c) \/ ResolveConflict(c) \/ AutoResolve(c)
  \/ HandleReceives(c) \/ CoreServes(c)
=============================================================================
