---------------------------- MODULE HttpProvider ----------------------------
(***************************************************************************)
(* An asynchronous provider over HTTP (providers/atomicmemory, mem0 and    *)
(* hindsight) from open to close: the httpx client it holds, calls in      *)
(* flight while it is closed, the answers its transport maps to results    *)
(* and errors, mem0's deferred inference in a background task, and a       *)
(* caller that wraps its calls in awith_retry (core/retry.py).             *)
(*                                                                         *)
(* The backend is external: it may lose a request, carry it out after the  *)
(* caller has given up, and answer an error although it carried it out.    *)
(* get and delete all name one memory; every ingest brings its own text.   *)
(***************************************************************************)
EXTENDS Naturals

CONSTANTS Calls,
          HttpClients, \* numbers of the httpx clients (bounds how many are made)
          MaxAttempts, \* RetryConfig.max_attempts
          Retryable,   \* the errors should_retry accepts, for each operation
          Kinds,       \* the providers considered
          None

Ingests == {"ingest", "deferred ingest", "verbatim ingest"}
Ops == Ingests \cup {"get", "delete"}

Rejections == {"RateLimitError", "NotInitializedError"}
Errors == Rejections \cup {"ProviderError", "PendingIngestError"}

ASSUME KindsAssumption == Kinds \subseteq {"atomicmemory", "mem0", "hindsight"}
ASSUME AttemptsAssumption == MaxAttempts \in Nat \ {0} /\ HttpClients \subseteq Nat \ {0}
ASSUME NoneAssumption ==
  None \notin HttpClients /\ None \notin Ops /\ None \notin Errors /\ None \notin {"ok", "none"}

\* A write is retried only after an answer that tells it was not carried out.
ASSUME RetryableAssumption ==
  /\ Retryable \in [Ops -> SUBSET Errors]
  /\ \A o \in Ingests : Retryable[o] \subseteq Rejections

VARIABLES kind,    \* which provider it is
          client,  \* _client: an httpx client, or None
          handle,  \* the httpx client of _handle, or None
          ready,   \* _initialized
          made,    \* how many httpx clients were made
          shut,    \* the httpx clients whose aclose() has begun
          closing, \* a close() awaits aclose()
          call,    \* the calls: operation, attempt, where they are, outcome
          task,    \* the background task of each deferred ingest
          held,    \* _background_tasks
          wire,    \* what became of each request
          copies,  \* how often the backend stored the text of each call
          inferred,\* how often it stored it with infer = true, in the background
          present  \* the memory that get and delete name is there

lifecycleVars == <<kind, client, handle, ready, made, shut, closing>>
backendVars == <<copies, inferred, present>>
vars == <<lifecycleVars, call, task, held, wire, backendVars>>

\* The request of attempt n of a call; 0 is the one of its background task.
Requests == Calls \X (0..MaxAttempts)

\* "error" is a status that is no success; "refused" is Hindsight's success =
\* false.
Statuses == {"ok", "pending", "missing", "limited", "error", "refused"}

\* What may come with a success: a body that says what was done, JSON null,
\* JSON that is no object (nor, to an ingest of mem0, a list), an object or a
\* list that lacks what the mapping of it needs, or no JSON.
Bodies == {"ok", "null", "no object", "misshapen", "no json"}

NoCall == [op |-> None, attempt |-> 0, pc |-> "idle", answer |-> None]

Init ==
  /\ kind \in Kinds
  /\ client = None /\ handle = None /\ ready = FALSE
  /\ made = 0 /\ shut = {} /\ closing = FALSE
  /\ call = [c \in Calls |-> NoCall]
  /\ task = [c \in Calls |-> "none"] /\ held = {}
  /\ wire = [r \in Requests |-> "unsent"]
  /\ copies = [c \in Calls |-> 0] /\ inferred = [c \in Calls |-> 0]
  /\ present = TRUE

-----------------------------------------------------------------------------
(* Opening and closing                                                     *)

\* No initialize() while a close() is under way: the service opens an
\* instance once and closes it after that.
Initialize ==
  /\ ~closing
  /\ \/ /\ client = None
        /\ made + 1 \in HttpClients
        /\ client' = made + 1
        /\ made' = made + 1
     \/ client # None /\ UNCHANGED <<client, made>>
  /\ handle' = IF kind = "atomicmemory" /\ handle = None THEN client' ELSE handle
  /\ ready' = TRUE
  /\ UNCHANGED <<kind, shut, closing, call, task, held, wire, backendVars>>

\* Mutant of Close: the handle is left in place.
CloseKeepsHandle ==
  /\ IF client \in shut \cup {None}
     THEN client' = None /\ ready' = FALSE /\ UNCHANGED <<shut, closing>>
     ELSE shut' = shut \cup {client} /\ closing' = TRUE /\ UNCHANGED <<client, ready>>
  /\ UNCHANGED <<kind, handle, made, call, task, held, wire, backendVars>>

\* close() up to the await of aclose().  Of overlapping close() calls only
\* the first waits: aclose() returns at once when the client is closed.
Close ==
  /\ handle' = None
  /\ \/ /\ client \notin shut \cup {None}
        /\ shut' = shut \cup {client}
        /\ closing' = TRUE
        /\ UNCHANGED <<client, ready>>
     \/ /\ client \in shut \cup {None}
        /\ client' = None
        /\ ready' = FALSE
        /\ UNCHANGED <<shut, closing>>
  /\ UNCHANGED <<kind, made, call, task, held, wire, backendVars>>

CloseEnds ==
  /\ closing
  /\ closing' = FALSE
  /\ client' = None
  /\ ready' = FALSE
  /\ UNCHANGED <<kind, handle, made, shut, call, task, held, wire, backendVars>>

\* aclose() raises, or the close() is cancelled in it.
CloseIsCut ==
  /\ closing
  /\ closing' = FALSE
  /\ UNCHANGED <<kind, client, handle, ready, made, shut, call, task, held, wire, backendVars>>

-----------------------------------------------------------------------------
(* Calls and their attempts                                                *)

\* _run_operation lets the SDK's own errors through and makes a
\* ProviderError of everything else (NetworkError, RuntimeError, ValueError).
RunOperation(e) == IF e \in Errors THEN e ELSE "ProviderError"

\* The attempt ends in an exception: awith_retry sleeps and tries again, or
\* raises.
Raised(c, o, n, e) ==
  call' = [call EXCEPT ![c] =
             [op |-> o, attempt |-> n, answer |-> e,
              pc |-> IF n < MaxAttempts /\ e \in Retryable[o] THEN "backoff" ELSE "done"]]

\* _require_client() raises when there is no client; an httpx client raises
\* RuntimeError once it is closed.
CanSend == client \notin shut \cup {None}

Supported(o) == o = "verbatim ingest" => kind = "atomicmemory"

\* Attempt n of an operation up to its first await.
Attempt(c, o, n) ==
  /\ \/ ~ready /\ Raised(c, o, n, "NotInitializedError") /\ UNCHANGED wire
     \/ /\ ready
        /\ ~Supported(o) \/ ~CanSend
        /\ Raised(c, o, n, RunOperation("RuntimeError"))
        /\ UNCHANGED wire
     \/ /\ ready /\ Supported(o) /\ CanSend
        /\ call' = [call EXCEPT ![c] = [op |-> o, attempt |-> n, pc |-> "sent", answer |-> None]]
        /\ wire' = [wire EXCEPT ![<<c, n>>] = "travelling"]
  /\ UNCHANGED <<lifecycleVars, task, held, backendVars>>

Call(c, o) ==
  /\ call[c].pc = "idle"
  /\ o = "deferred ingest" => kind = "mem0"
  /\ Attempt(c, o, 1)

Retry(c) ==
  /\ call[c].pc = "backoff"
  /\ Attempt(c, call[c].op, call[c].attempt + 1)

\* A body that do_get() of a provider takes for no memory.
ReadsNothing(provider, body) == body = "null" \/ (body = "no object" /\ provider = "hindsight")

\* What the provider makes of a body that came with a success.  An ingest of
\* mem0 takes what is no list for an empty one.
Read(o, body) ==
  IF body = "ok" \/ (o \in Ingests /\ kind = "mem0" /\ body \in {"null", "no object"}) THEN "ok"
  ELSE IF o = "get" /\ ReadsNothing(kind, body) THEN "none"
  ELSE RunOperation("ValueError")

\* Mutant of Answer: 202 is a success like every 2xx status.
AnswerPendingIsSuccess(o, s) ==
  CASE s = "limited" -> "RateLimitError"
    [] s = "missing" -> IF o = "get" THEN "none" ELSE "ok"
    [] s \in {"error", "refused"} -> "ProviderError"
    [] s = "pending" -> "ok"
    [] s \in Bodies -> Read(o, s)

\* Mutant of Answer: a delete ignores every status, not 404 alone.
AnswerDeleteIgnoresAll(o, s) ==
  CASE o = "delete" -> "ok"
    [] o # "delete" /\ s = "limited" -> "RateLimitError"
    [] o # "delete" /\ s = "pending" -> "PendingIngestError"
    [] o # "delete" /\ s = "missing" -> "none"
    [] o # "delete" /\ s \in {"error", "refused"} -> "ProviderError"
    [] o # "delete" /\ s \in Bodies -> Read(o, s)

\* What the transport and the provider make of a response.
Answer(o, s) ==
  CASE s = "limited" -> "RateLimitError"
    [] s = "pending" -> "PendingIngestError"
    [] s = "missing" -> IF o = "get" THEN "none" ELSE "ok"
    [] s \in {"error", "refused"} -> "ProviderError"
    [] s \in Bodies -> Read(o, s)

Returned(c, a) == call' = [call EXCEPT ![c].pc = "done", ![c].answer = a]

\* Mutant of StartsInference: the task is started before the status is looked at.
StartsInferenceEarly(o, s) == o = "deferred ingest"

\* The body is JSON.  Its elements are looked at later: that may still fail.
StartsInference(o, s) == o = "deferred ingest" /\ s \in Bodies \ {"no json"}

\* A response as it is read: a success brings a body, which a delete does not
\* look at.
Readings(o, status) == IF status = "ok" /\ o # "delete" THEN Bodies ELSE {status}

\* The response to the current attempt is there.  A deferred ingest that was
\* stored starts its background task and keeps a reference to it.  What a
\* get() took for no memory stays on record, as does a body that started a
\* task and could not be mapped.
Respond(c) ==
  LET status == wire[<<c, call[c].attempt>>]
      o == call[c].op
  IN /\ call[c].pc = "sent"
     /\ status \in Statuses
     /\ \E s \in Readings(o, status) : LET a == Answer(o, s) IN
          /\ IF a \in Errors THEN Raised(c, o, call[c].attempt, a) ELSE Returned(c, a)
          /\ \/ StartsInference(o, s)
                /\ task' = [task EXCEPT ![c] = "created"]
                /\ held' = held \cup {c}
             \/ ~StartsInference(o, s) /\ UNCHANGED <<task, held>>
          /\ wire' = [wire EXCEPT ![<<c, call[c].attempt>>] =
                        IF a = "none" \/ (a \in Errors /\ StartsInference(o, s)) THEN s ELSE "over"]
     /\ UNCHANGED <<lifecycleVars, backendVars>>

\* A timeout, or the connection fails, and the request may still arrive.  An
\* answer that is lost on its way back is one the backend gives after this.
TransportFails(c) ==
  /\ call[c].pc = "sent"
  /\ wire[<<c, call[c].attempt>>] = "travelling"
  /\ Raised(c, call[c].op, call[c].attempt, RunOperation("NetworkError"))
  /\ UNCHANGED <<lifecycleVars, task, held, wire, backendVars>>

-----------------------------------------------------------------------------
(* Deferred inference                                                      *)

\* _fire_background_inference(): one more request, without _run_operation.
TaskRuns(c) ==
  /\ task[c] = "created"
  /\ \/ /\ CanSend
        /\ task' = [task EXCEPT ![c] = "sent"]
        /\ wire' = [wire EXCEPT ![<<c, 0>>] = "travelling"]
     \/ /\ ~CanSend
        /\ task' = [task EXCEPT ![c] = "ended"]
        /\ UNCHANGED wire
  /\ UNCHANGED <<lifecycleVars, call, held, backendVars>>

\* Answered or failed: whatever it is, it is logged at most.
TaskEnds(c) ==
  /\ task[c] = "sent"
  /\ task' = [task EXCEPT ![c] = "ended"]
  /\ UNCHANGED <<lifecycleVars, call, held, wire, backendVars>>

\* Mutant of TaskDiscarded: the task has no done callback.
TaskNeverDiscarded(c) == FALSE /\ task[c] = "ended" /\ UNCHANGED vars

\* The done callback of the task.
TaskDiscarded(c) ==
  /\ task[c] = "ended"
  /\ c \in held
  /\ held' = held \ {c}
  /\ UNCHANGED <<lifecycleVars, call, task, wire, backendVars>>

-----------------------------------------------------------------------------
(* The backend                                                             *)

\* The responses a request may get, and whether it is then carried out.  A
\* request that gets none stays "travelling".
Outcomes(o) ==
  LET there == o \in Ingests \/ present IN
  {[status |-> "error", done |-> FALSE], [status |-> "error", done |-> there],
   [status |-> "limited", done |-> FALSE]}
  \cup {IF there THEN [status |-> "ok", done |-> TRUE] ELSE [status |-> "missing", done |-> FALSE]}
  \cup {[status |-> "pending", done |-> d] : d \in IF o \in Ingests /\ kind = "atomicmemory"
                                                   THEN BOOLEAN ELSE {}}
  \cup {[status |-> "refused", done |-> d] : d \in IF o \in Ingests /\ kind = "hindsight"
                                                   THEN {FALSE} ELSE {}}

Awaited(r) == call[r[1]].pc = "sent" /\ call[r[1]].attempt = r[2]

BackendAnswers(r) ==
  /\ wire[r] = "travelling"
  /\ \E out \in Outcomes(call[r[1]].op) :
       /\ wire' = [wire EXCEPT ![r] = IF Awaited(r) THEN out.status ELSE "over"]
       /\ LET c == r[1]
              stores == out.done /\ call[c].op \in Ingests
          IN /\ copies' = [copies EXCEPT ![c] = @ + (IF stores /\ r[2] # 0 THEN 1 ELSE 0)]
             /\ inferred' = [inferred EXCEPT ![c] = @ + (IF stores /\ r[2] = 0 THEN 1 ELSE 0)]
             /\ present' = (present /\ ~(out.done /\ call[c].op = "delete"))
  /\ UNCHANGED <<lifecycleVars, call, task, held>>

-----------------------------------------------------------------------------
Loop(c) == Retry(c) \/ Respond(c) \/ TransportFails(c)
Background(c) == TaskRuns(c) \/ TaskEnds(c) \/ TaskDiscarded(c)

Next ==
  \/ Initialize \/ Close \/ CloseEnds \/ CloseIsCut
  \/ \E c \in Calls : (\E o \in Ops : Call(c, o)) \/ Loop(c) \/ Background(c)
  \/ \E r \in Requests : BackendAnswers(r)

Spec == Init /\ [][Next]_vars

\* Every request carries a timeout, and the event loop runs what is ready.
FairSpec == Spec /\ \A c \in Calls : WF_vars(Loop(c)) /\ WF_vars(Background(c))

-----------------------------------------------------------------------------
TypeOK ==
  /\ kind \in Kinds
  /\ client \in HttpClients \cup {None} /\ handle \in HttpClients \cup {None}
  /\ ready \in BOOLEAN /\ closing \in BOOLEAN /\ present \in BOOLEAN
  /\ made \in Nat /\ shut \subseteq HttpClients
  /\ call \in [Calls -> [op : Ops \cup {None}, attempt : 0..MaxAttempts,
                         pc : {"idle", "sent", "backoff", "done"},
                         answer : Errors \cup {"ok", "none", None}]]
  /\ task \in [Calls -> {"none", "created", "sent", "ended"}] /\ held \subseteq Calls
  /\ wire \in [Requests -> Statuses \cup Bodies \cup {"unsent", "travelling", "over"}]
  /\ copies \in [Calls -> Nat] /\ inferred \in [Calls -> Nat]

\* An ingest that returns was stored, and once however often it was retried;
\* one that reports a rejection was not stored at all; 202 is never success.
AnswerTellsCopies ==
  \A c \in Calls :
    /\ copies[c] <= 1
    /\ call[c].pc = "done" /\ call[c].op \in Ingests =>
         /\ call[c].answer = "ok" => copies[c] = 1
         /\ call[c].answer \in Rejections => copies[c] = 0

\* A delete() that returns tells the memory is gone, whichever of its attempts
\* found it, removed it or was answered.  So does a get() that returns None,
\* unless a success came with a body the provider takes for no memory.
GoneMeansGone ==
  \A c \in Calls :
    /\ call[c].op = "get" /\ call[c].answer = "none" =>
         ~present \/ ReadsNothing(kind, wire[<<c, call[c].attempt>>])
    /\ call[c].op = "delete" /\ call[c].answer = "ok" => ~present

\* The call was told that its text is stored, or a ProviderError about the
\* elements of the answer that said so.
ToldStored(c) ==
  /\ call[c].pc = "done"
  /\ \/ call[c].answer = "ok"
     \/ call[c].answer = "ProviderError" /\ wire[<<c, call[c].attempt>>] = "misshapen"

\* Deferred inference repeats an ingest that was stored, and whose caller was
\* answered so if not always told, at most once, in a task that is referenced
\* as long as it runs.
DeferredInference ==
  \A c \in Calls :
    /\ task[c] \in {"created", "sent"} => c \in held
    /\ inferred[c] > 0 => ToldStored(c) /\ copies[c] = 1
    /\ inferred[c] <= 1

\* The handle of an atomicmemory provider sends through the client the
\* provider itself uses, however often it was closed and opened.
HandleIsOnClient == handle # None => handle = client

\* Every call returns or raises, and every background task ends and is
\* discarded, whether the provider is closed meanwhile or not.
CallsReturn ==
  \A c \in Calls :
    /\ call[c].pc # "idle" ~> call[c].pc = "done"
    /\ task[c] # "none" ~> task[c] = "ended" /\ c \notin held
=============================================================================
