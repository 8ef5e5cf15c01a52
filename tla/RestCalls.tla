----------------------------- MODULE RestCalls -----------------------------
(***************************************************************************)
(* The calls of the REST namespaces (storage, entities) as far as they are *)
(* alike: each sends at most one HTTP request and maps its answer.  The    *)
(* request is lost, or served at any time, also when its caller has given  *)
(* up long before; a gateway may answer in the backend's place; the task   *)
(* of a call of the async clients may be cancelled while it waits.         *)
(***************************************************************************)
EXTENDS Naturals, FiniteSets, Sequences

CONSTANTS Callers, \* each makes one call
          Tasks,   \* those of the async clients, which may be cancelled; the others are threads
          None

Namespaces == {"memory", "storage", "entities"}

ASSUME CallersAssumption == None \notin Callers

\* What a call ends with that does not return a value: a typed error's code,
\* or the class of an exception that has none.
StorageErrors == {"invalid_storage_input", "missing_artifact_id", "streaming_body_not_supported",
                  "artifact_in_use", "pointer_content_not_managed", "artifact_not_found",
                  "filecoin_direct_storage_not_yet_supported", "unsupported_capability",
                  "http_400", "http_404", "http_502", "invalid_storage_response", "invalid_head_response",
                  "the caller's"}
EntitiesErrors == {"invalid_entities_input", "entities_request_failed", "invalid_entities_response"}
HandleErrors == {"ValidationError", "RateLimitError", "ProviderError",
                 "ValueError", "KeyError", "AttributeError", "TypeError"}
CommonErrors == {"RuntimeError", "network_error", "CancelledError"}

ASSUME NoneAssumption ==
  /\ None \notin StorageErrors \cup EntitiesErrors \cup HandleErrors \cup CommonErrors
  /\ None \notin {"error", "w", "self", "site"}
  /\ None \notin BOOLEAN

VARIABLES call,  \* the call of each caller
          open   \* which namespaces' httpx clients have not been closed

callVars == <<call, open>>

\* {**g, **f}: what f does not give is as g gives it.
With(f, g) == [x \in DOMAIN f \cup DOMAIN g |-> IF x \in DOMAIN f THEN f[x] ELSE g[x]]

\* pc: idle, waiting for the answer, streaming (in the caller's with-body),
\* ended.  fate: what became of the request.  reply: the answer on its way.
\* error, value: how the call ended.  saw: what the backend had when it
\* served the request.
NoCall == [pc |-> "idle", ns |-> None, op |-> None, arg |-> None, fate |-> "unsent",
           reply |-> None, error |-> None, value |-> None, saw |-> None]

CallsInit == call = [c \in Callers |-> NoCall]

\* A call that is over before a request is sent.
Rejected(c, ns, op, code) ==
  /\ call[c].pc = "idle"
  /\ call' = [call EXCEPT ![c] = [NoCall EXCEPT !.pc = "ended", !.ns = ns, !.op = op, !.error = code]]

\* httpx refuses to send with a client that was closed: no RequestError.
Sent(c, ns, op, arg) ==
  IF open[ns]
    THEN /\ call[c].pc = "idle"
         /\ call' = [call EXCEPT ![c] = [NoCall EXCEPT !.pc = "waiting", !.ns = ns, !.op = op,
                                                       !.arg = arg, !.fate = "sent"]]
    ELSE Rejected(c, ns, op, "RuntimeError")

\* What a request asks for is still wanted if it has not been served.
Ends(c, error, value) ==
  call' = [call EXCEPT ![c] =
    [NoCall EXCEPT !.pc = "ended", !.ns = call[c].ns, !.op = call[c].op, !.fate = call[c].fate,
                   !.arg = IF call[c].fate = "sent" THEN call[c].arg ELSE None,
                   !.error = error, !.value = value]]

\* The backend's side of it: what it did and what it saw.  An answer to
\* nobody is dropped.
Answered(c, fate, reply, saw) ==
  call' = [call EXCEPT ![c].fate = fate,
             ![c].saw = IF call[c].pc = "waiting" THEN saw ELSE None,
             ![c].reply = IF call[c].pc = "waiting" THEN reply ELSE None,
             ![c].arg = IF call[c].pc = "waiting" THEN @ ELSE None]

\* A gateway gives up on the backend, which may serve the request all the same.
BadGateway == [status |-> 502, code |-> None]

\* httpx.RequestError: timeout, refused or broken connection, client closed
\* under the request.
NetworkFails(c) ==
  /\ call[c].pc = "waiting"
  /\ Ends(c, "network_error", None)
  /\ UNCHANGED open

CancelCall(c) ==
  /\ c \in Tasks
  /\ call[c].pc \in {"waiting", "streaming"}
  /\ Ends(c, "CancelledError", None)
  /\ UNCHANGED open

\* close() of a namespace: the httpx client is closed before its connections.
CloseClient(ns) == open' = [open EXCEPT ![ns] = FALSE]

Success(reply) == reply.status = 200
=============================================================================
