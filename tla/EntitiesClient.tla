--------------------------- MODULE EntitiesClient ---------------------------
(***************************************************************************)
(* client.entities: what each operation sends, how answers are checked,    *)
(* and a backend of entities with settings and memories.  An entity id is  *)
(* a sequence of parts: one with a slash in it has more than one.          *)
(***************************************************************************)
EXTENDS RestCalls

CONSTANTS Entities,  \* sequences of parts
          Settings,  \* of an entity; they are treated alike
          Memories,
          MaxNamed   \* bound on the settings one call names

VARIABLES settings, \* of each entity: each setting's value
          memories  \* of each entity

entitiesVars == <<settings, memories>>

EntityTypes == {"user", "agent", "session"}

\* Falsy values ("", [], False) are values like others.
Values == {"falsy", "truthy"}

EntitiesInit ==
  /\ settings = [e \in Entities |-> [f \in Settings |-> "unset"]]
  /\ memories = [e \in Entities |-> IF e = CHOOSE x \in Entities : Len(x) = 1 THEN Memories ELSE {}]

-----------------------------------------------------------------------------
(* Requests.  A path is a sequence of segments, a segment a sequence of     *)
(* parts: what it holds once the server has decoded it.                     *)

ValidateEntityType(type) == IF type \in EntityTypes THEN None ELSE "invalid_entities_input"

\* Mutant of Quote: the slashes of an id separate segments.
QuoteNothing(id) == [i \in DOMAIN id |-> <<id[i]>>]

\* Percent-encoded, an id is one segment whatever is in it.
Quote(id) == <<id>>

Segments(words) == [i \in DOMAIN words |-> <<words[i]>>]

EntityPath(id, tail) == Segments(<<"entities", "user">>) \o Quote(id) \o tail

MergePath == Segments(<<"entities", "merge">>)

\* Only what is not None becomes a parameter: 0 and "" are sent.
BuildParams(given) == [p \in {q \in DOMAIN given : given[q] # None} |-> given[p]]

\* Mutant of SettingsBody: falsy values are taken for settings not given.
SettingsBodyTruthy(given) == [f \in {g \in DOMAIN given : given[g] = "truthy"} |-> given[f]]

\* A body of the settings given, and of no other.
SettingsBody(given) == [f \in {g \in DOMAIN given : given[g] # None} |-> given[f]]

\* What each operation sends, and for whom it is meant.
Request(method, path, body, meant) == [method |-> method, path |-> path, body |-> body, meant |-> meant]

ProfileRequest(e) == Request("GET", EntityPath(e, Segments(<<"profile">>)), None, [id |-> e])

\* Its entity_type is a parameter and not checked.
ListRequest(page) == Request("GET", Segments(<<"entities">>), BuildParams([page |-> page]), [id |-> None])

GetRequest(e) == Request("GET", EntityPath(e, <<>>), None, [id |-> e])

DeleteRequest(e) == Request("DELETE", EntityPath(e, <<>>), None, [id |-> e])

AttributesRequest(e, limit) ==
  Request("GET", EntityPath(e, Segments(<<"attributes">>)), BuildParams([limit |-> limit]), [id |-> e])

MemoryHistoryRequest(e, m) ==
  Request("GET", EntityPath(e, Segments(<<"memories">>) \o Quote(<<m>>) \o Segments(<<"history">>)),
          None, [id |-> e])

PatchSettingsRequest(e, given) ==
  Request("PATCH", EntityPath(e, Segments(<<"settings">>)), SettingsBody(given), [id |-> e, given |-> given])

\* The ids of a merge travel in the body.
MergeRequest(source, target) ==
  Request("POST", MergePath, [source |-> source, target |-> target], [id |-> source])

-----------------------------------------------------------------------------
(* The operations.                                                         *)

EntitiesRequest(c, op, request) == Sent(c, "entities", op, request)

EntitiesCall(c, op, request, type) ==
  /\ IF ValidateEntityType(type) # None
       THEN Rejected(c, "entities", op, ValidateEntityType(type))
       ELSE EntitiesRequest(c, op, request)
  /\ UNCHANGED <<open, entitiesVars>>

AnyType == {"user", "unknown"}

Profile(c) == \E e \in Entities, t \in AnyType : EntitiesCall(c, "profile", ProfileRequest(e), t)

ListEntities(c) == \E page \in {None, 0, 1} : EntitiesCall(c, "list", ListRequest(page), "user")

GetEntity(c) == \E e \in Entities, t \in AnyType : EntitiesCall(c, "get", GetRequest(e), t)

DeleteEntity(c) == \E e \in Entities, t \in AnyType : EntitiesCall(c, "delete", DeleteRequest(e), t)

Attributes(c) == \E e \in Entities, t \in AnyType, limit \in {None, 0} :
  EntitiesCall(c, "attributes", AttributesRequest(e, limit), t)

MemoryHistory(c) == \E e \in Entities, m \in Memories, t \in AnyType :
  EntitiesCall(c, "memory_history", MemoryHistoryRequest(e, m), t)

PatchSettings(c) == \E e \in Entities, t \in AnyType, given \in [Settings -> Values \cup {None}] :
  /\ Cardinality({f \in Settings : given[f] # None}) <= MaxNamed
  /\ EntitiesCall(c, "patch_settings", PatchSettingsRequest(e, given), t)

Merge(c) == \E source, target \in Entities, t \in AnyType :
  EntitiesCall(c, "merge", MergeRequest(source, target), t)

-----------------------------------------------------------------------------
(* Answers.                                                                *)

HttpError(r) == "entities_request_failed"

\* What may be wrong with the body: no JSON, no object, a field that does
\* not validate; an envelope without its key is an empty list.
EntityBodies == {"fine", "no json", "no object", "bad field", "no key"}

DecodeJson(body) == IF body = "no json" THEN "invalid_entities_response" ELSE None

ValidateResponse(body) ==
  IF body \in {"no object", "bad field"} THEN "invalid_entities_response" ELSE None

DecodeAttributesEnvelope(r, body) ==
  [error |-> ValidateResponse(body), value |-> IF body = "no key" THEN [r.value EXCEPT !.memories = {}] ELSE r.value]

\* The other models default their lists, but a missing count or id is no answer.
DecodedEntity(r, body) ==
  [error |-> IF body = "no key" THEN "invalid_entities_response" ELSE ValidateResponse(body),
   value |-> r.value]

EntitiesReceives(c) ==
  \E r \in {call[c].reply, BadGateway} \ {None} :
  LET k == call[c] IN
  /\ k.pc = "waiting" /\ k.ns = "entities"
  /\ CASE ~Success(r) -> Ends(c, HttpError(r), [status |-> r.status])
       [] OTHER -> \E body \in EntityBodies :
            IF DecodeJson(body) # None THEN Ends(c, DecodeJson(body), None)
            ELSE LET m == IF k.op = "attributes" THEN DecodeAttributesEnvelope(r, body)
                                                 ELSE DecodedEntity(r, body) IN
                 Ends(c, m.error, IF m.error = None THEN m.value ELSE None)
  /\ UNCHANGED <<open, entitiesVars>>

-----------------------------------------------------------------------------
(* The backend.  It tells what to do from method and path alone.            *)

Routes ==
  {[method |-> "GET", tail |-> <<"profile">>, op |-> "profile"],
   [method |-> "GET", tail |-> <<>>, op |-> "get"],
   [method |-> "DELETE", tail |-> <<>>, op |-> "delete"],
   [method |-> "GET", tail |-> <<"attributes">>, op |-> "attributes"],
   [method |-> "PATCH", tail |-> <<"settings">>, op |-> "patch_settings"]}

\* What a request asks for, or {}.
Routed(q) ==
  (UNION {{[op |-> r.op, id |-> e] : r \in {x \in Routes :
             q.method = x.method /\ q.path = Segments(<<"entities", "user">>) \o <<e>> \o Segments(x.tail)}} :
          e \in Entities})
  \cup {[op |-> "memory_history", id |-> e] : e \in {x \in Entities : \E m \in Memories :
        q.path = Segments(<<"entities", "user">>) \o <<x>> \o Segments(<<"memories", m, "history">>)}}
  \cup (IF q.path = MergePath THEN {[op |-> "merge", id |-> q.body.source]} ELSE {})
  \cup (IF q.path = Segments(<<"entities">>) THEN {[op |-> "list", id |-> None]} ELSE {})

EntityDone(c, value) == Answered(c, "done", [status |-> 200, value |-> value], None)

EntitiesRefuses(c) ==
  /\ Answered(c, "refused", [status |-> 422], None)
  /\ UNCHANGED entitiesVars

Carried(c, op, e) ==
  CASE op = "delete" ->
         /\ settings' = [settings EXCEPT ![e] = [f \in Settings |-> "unset"]]
         /\ memories' = [memories EXCEPT ![e] = {}]
         /\ EntityDone(c, [op |-> op, id |-> e, memories |-> memories[e]])
    [] op = "patch_settings" ->
         /\ settings' = [settings EXCEPT ![e] = With(call[c].arg.body, @)]
         /\ EntityDone(c, [op |-> op, id |-> e, settings |-> settings'[e]])
         /\ UNCHANGED memories
    [] op = "merge" ->
         LET target == call[c].arg.body.target IN
         /\ memories' = [memories EXCEPT ![e] = {}, ![target] = memories[e] \cup memories[target]]
         /\ EntityDone(c, [op |-> op, id |-> e, target |-> target])
         /\ UNCHANGED settings
    [] op = "attributes" ->
         EntityDone(c, [op |-> op, id |-> e, memories |-> memories[e]]) /\ UNCHANGED entitiesVars
    [] OTHER ->
         EntityDone(c, [op |-> op, id |-> e]) /\ UNCHANGED entitiesVars

EntitiesServes(c) ==
  /\ call[c].ns = "entities" /\ call[c].fate = "sent"
  /\ EntitiesRefuses(c) \/ \E r \in Routed(call[c].arg) : Carried(c, r.op, r.id)
  /\ UNCHANGED open

EntitiesSteps(c) ==
  \/ Profile(c) \/ ListEntities(c) \/ GetEntity(c) \/ DeleteEntity(c) \/ Attributes(c)
  \/ MemoryHistory(c) \/ PatchSettings(c) \/ Merge(c)
  \/ EntitiesReceives(c) \/ EntitiesServes(c)
=============================================================================
