--------------------------- MODULE StorageClient ---------------------------
(***************************************************************************)
(* client.storage: the operations on artifacts, what each sends, how the   *)
(* backend's answers become results and typed errors, and a backend of     *)
(* artifacts that documents refer to.                                      *)
(***************************************************************************)
EXTENDS RestCalls

CONSTANTS Artifacts, Documents,
          StoredAtFirst \* of each artifact: free, pointer or managed

ASSUME StoredAssumption == StoredAtFirst \in [Artifacts -> {"free", "pointer", "managed"}]

VARIABLES artifacts, \* of each id: free, pointer, managed or gone
          documents  \* the artifact each document refers to, None or gone

storageVars == <<artifacts, documents>>

StorageInit ==
  /\ artifacts = StoredAtFirst
  /\ documents = [d \in Documents |-> None]

References(a) == {d \in Documents : documents[d] = a}

Stored == {a \in Artifacts : artifacts[a] \in {"pointer", "managed"}}

-----------------------------------------------------------------------------
(* Inputs.  "invalid" is a dict the pydantic model refuses.                *)

Refs == Artifacts \cup {"uri", "invalid"}
PutInputs == {"pointer", "managed", "unknown mode", "invalid", "no bytes"}
Policies == {None, "artifact_only", "with_documents", "invalid"}
VerifyOptions == {None, "invalid"}

\* A body that is not bytes gets this far in a model changed after it was validated.
CoercePutInput(input) ==
  CASE input \in {"unknown mode", "invalid"} -> "invalid_storage_input"
    [] input = "no bytes" -> "streaming_body_not_supported"
    [] OTHER -> None

RequireArtifactId(ref) ==
  CASE ref = "invalid" -> "invalid_storage_input"
    [] ref = "uri" -> "missing_artifact_id"
    [] OTHER -> None

CoerceOptions(option) == IF option = "invalid" THEN "invalid_storage_input" ELSE None

\* The first complaint, as the checks come one after the other.
FirstOf(a, b) == IF a # None THEN a ELSE b

-----------------------------------------------------------------------------
(* The mapping of answers.  A body is what should be there, save for one    *)
(* field with a fault: absent (or null), of a wrong type, or with contents  *)
(* this version does not know.  A field is named for the helper that reads  *)
(* it: all that are read alike are one.  The choice is the backend's, but   *)
(* shows only here.                                                        *)

Fields == {"wire_string", "wire_enum", "optional", "map", "lifecycle", "state", "list"}
Faults == {"absent", "wrong", "unknown"}
Bodies == {[json |-> "object", field |-> f, fault |-> x] : f \in Fields, x \in Faults}
          \cup {[json |-> j, field |-> None, fault |-> None] : j \in {"object", "other", "none"}}

\* The faults with which each helper still returns something.
Tolerated(field) ==
  CASE field = "wire_string" -> {"unknown"}
    [] field = "wire_enum" -> {}
    [] field = "lifecycle" -> {"absent"}       \* extra="forbid"
    [] field = "list" -> Faults
    [] OTHER -> {"absent", "unknown"}

FaultOf(body, fields) ==
  IF body.json = "object" /\ (body.field \in fields => body.fault \in Tolerated(body.field))
    THEN None ELSE "invalid_storage_response"

MapStoredArtifact(r, body) == [error |-> FaultOf(body, Fields), value |-> [id |-> r.id, mode |-> r.mode]]

\* HEAD has headers only.  The id is made up for, a bad size dropped.
MapHeadHeaders(r, body, fallback) ==
  [error |-> IF body.field = "wire_enum" THEN "invalid_head_response" ELSE None,
   value |-> [id |-> IF body.field = "wire_string" THEN fallback ELSE r.id, mode |-> r.mode]]

\* Cascaded documents that are no list are left out.
MapDeleteResult(r, body) ==
  [error |-> FaultOf(body, {"wire_string", "wire_enum"}),
   value |-> [id |-> r.id,
              cascaded |-> IF body.field = "list" /\ body.fault # "unknown" THEN None ELSE r.cascaded]]

\* Any body without a kind that is known is "unsupported".
MapVerifyResult(r, body) ==
  [error |-> IF body.json = "none" THEN "invalid_storage_response" ELSE None,
   value |-> [kind |-> IF body.json = "object" /\ body.field # "wire_enum" THEN r.kind ELSE "unsupported"]]

\* Pydantic alone; extra="forbid".
MapCapabilities(r, body) ==
  [error |-> IF /\ body.json = "object"
                /\ body.field # None => body.field = "optional" /\ body.fault = "absent"
               THEN None ELSE "invalid_storage_response",
   value |-> None]

\* f"http_{status}", of the statuses that come without a code.
HttpStatusCode(status) ==
  IF status = 400 THEN "http_400" ELSE IF status = 404 THEN "http_404" ELSE "http_502"

\* Mutant of RaiseForStorageResponse: only the envelope tells of a missing artifact.
RaiseByCode(r) == IF r.code # None THEN r.code ELSE HttpStatusCode(r.status)

\* The envelope's code first, then the status: an answer to HEAD has no envelope.
RaiseForStorageResponse(r) ==
  IF r.code \in {"artifact_in_use", "pointer_content_not_managed",
                 "filecoin_direct_storage_not_yet_supported"} THEN r.code
  ELSE IF r.status = 404 THEN "artifact_not_found"
  ELSE IF r.code # None THEN r.code ELSE HttpStatusCode(r.status)

-----------------------------------------------------------------------------
(* The operations.                                                         *)

StorageRequest(c, op, arg) == Sent(c, "storage", op, arg)

\* An operation that refuses its input sends nothing.
StorageCall(c, op, arg, complaint) ==
  /\ IF complaint # None THEN Rejected(c, "storage", op, complaint)
                         ELSE StorageRequest(c, op, arg)
  /\ UNCHANGED <<open, storageVars>>

Capabilities(c) == StorageCall(c, "capabilities", None, None)

Put(c) == \E input \in PutInputs :
  StorageCall(c, "put", [input |-> input], CoercePutInput(input))

Get(c) == \E ref \in Refs : StorageCall(c, "get", [id |-> ref], RequireArtifactId(ref))

GetContent(c) == \E ref \in Refs :
  StorageCall(c, "get_content", [id |-> ref], RequireArtifactId(ref))

StreamContent(c) == \E ref \in Refs :
  StorageCall(c, "stream_content", [id |-> ref], RequireArtifactId(ref))

Head_(c) == \E ref \in Refs : StorageCall(c, "head", [id |-> ref], RequireArtifactId(ref))

Delete(c) == \E ref \in Refs, policy \in Policies :
  StorageCall(c, "delete", [id |-> ref, policy |-> policy],
              FirstOf(RequireArtifactId(ref), CoerceOptions(policy)))

\* Mutant of Verify: the options are looked at when the answer is there.
VerifyChecksLate(c) == \E ref \in Refs, option \in VerifyOptions :
  IF RequireArtifactId(ref) = None /\ open["storage"] /\ option = "invalid"
    THEN /\ call[c].pc = "idle"
         /\ call' = [call EXCEPT ![c] = [NoCall EXCEPT !.pc = "ended", !.ns = "storage", !.op = "verify",
                        !.arg = [id |-> ref],
                        !.error = "invalid_storage_input", !.fate = "sent"]]
         /\ UNCHANGED <<open, storageVars>>
    ELSE StorageCall(c, "verify", [id |-> ref], RequireArtifactId(ref))

Verify(c) == \E ref \in Refs, option \in VerifyOptions :
  StorageCall(c, "verify", [id |-> ref], FirstOf(CoerceOptions(option), RequireArtifactId(ref)))

\* What an operation makes of a successful answer.
Mapped(op, r, body, arg) ==
  CASE op = "capabilities" -> MapCapabilities(r, body)
    [] op \in {"put", "get"} -> MapStoredArtifact(r, body)
    [] op = "get_content" -> [error |-> None, value |-> [mode |-> r.mode]]
    [] op = "head" -> MapHeadHeaders(r, body, arg.id)
    [] op = "delete" -> MapDeleteResult(r, body)
    [] op = "verify" -> MapVerifyResult(r, body)

StorageReceives(c) ==
  \E r \in {call[c].reply, BadGateway} \ {None} :
  LET k == call[c] IN
  /\ k.pc = "waiting" /\ k.ns = "storage"
  /\ CASE ~Success(r) -> Ends(c, RaiseForStorageResponse(r), [count |-> IF "count" \in DOMAIN r THEN r.count ELSE 0])
       [] Success(r) /\ k.op = "stream_content" -> call' = [call EXCEPT ![c].pc = "streaming"]
       [] OTHER -> \E body \in Bodies :
            LET m == Mapped(k.op, r, body, k.arg) IN
            Ends(c, m.error, IF m.error = None THEN m.value ELSE None)
  /\ UNCHANGED <<open, storageVars>>

\* The caller's with-body ends: well, with an error of its own, or with a
\* RequestError, be it of this stream or of any other request it makes.
StreamEnds(c) ==
  /\ call[c].pc = "streaming"
  /\ \E error \in {None, "the caller's", "network_error"} :
       Ends(c, error, IF error = None THEN [mode |-> call[c].saw.mode] ELSE None)
  /\ UNCHANGED <<open, storageVars>>

-----------------------------------------------------------------------------
(* The backend.                                                            *)

Refused(c, status, code, count, saw) ==
  /\ Answered(c, "refused",
              [status |-> status, code |-> IF call[c].op = "head" THEN None ELSE code, count |-> count], saw)
  /\ UNCHANGED storageVars

Done(c, reply, saw) == Answered(c, "done", With(reply, [status |-> 200, code |-> None]), saw)

ServePut(c) ==
  LET mode == call[c].arg.input  saw == [mode |-> mode, references |-> {}] IN
  \/ mode = "managed" /\ Refused(c, 501, "filecoin_direct_storage_not_yet_supported", 0, saw)
  \/ \E a \in Artifacts :
       /\ artifacts[a] = "free"
       /\ artifacts' = [artifacts EXCEPT ![a] = mode]
       /\ Done(c, [id |-> a, mode |-> mode], saw)
       /\ UNCHANGED documents

ServeDelete(c, a, saw) ==
  IF References(a) # {} /\ call[c].arg.policy # "with_documents"
    THEN Refused(c, 409, "artifact_in_use", Cardinality(References(a)), saw)
    ELSE /\ artifacts' = [artifacts EXCEPT ![a] = "gone"]
         /\ documents' = [d \in Documents |-> IF d \in References(a) THEN "gone" ELSE documents[d]]
         /\ Done(c, [id |-> a, cascaded |-> References(a)], saw)

ServeRead(c, a, saw) ==
  \/ /\ call[c].op \in {"get_content", "stream_content"} /\ artifacts[a] = "pointer"
     /\ Refused(c, 409, "pointer_content_not_managed", 0, saw)
  \/ /\ call[c].op \in {"get_content", "stream_content"} => artifacts[a] = "managed"
     /\ call[c].op \in {"get", "head", "get_content", "stream_content", "verify"}
     /\ \E kind \in IF call[c].op = "verify" THEN {"verified", "failed", "unsupported"} ELSE {None} :
          Done(c, [id |-> a, mode |-> artifacts[a], kind |-> kind], [saw EXCEPT !.kind = kind])
     /\ UNCHANGED storageVars

StorageServes(c) ==
  /\ call[c].ns = "storage" /\ call[c].fate = "sent"
  /\ CASE call[c].op = "capabilities" ->
            Done(c, [id |-> None], None) /\ UNCHANGED storageVars
       [] call[c].op = "put" -> ServePut(c)
       [] OTHER ->
            LET a == call[c].arg.id
                saw == [mode |-> artifacts[a], references |-> References(a), kind |-> None] IN
            IF a \notin Stored THEN Refused(c, 404, "artifact_not_found", 0, saw)
            ELSE \/ Refused(c, 400, "unsupported_capability", 0, saw)
                 \/ call[c].op = "delete" /\ ServeDelete(c, a, saw)
                 \/ call[c].op # "delete" /\ ServeRead(c, a, saw)
  /\ UNCHANGED open

\* Somebody ingests a document of an artifact.
Refer(d, a) ==
  /\ documents[d] = None /\ a \in Stored
  /\ documents' = [documents EXCEPT ![d] = a]
  /\ UNCHANGED <<callVars, artifacts>>

StorageSteps(c) ==
  \/ Capabilities(c) \/ Put(c) \/ Get(c) \/ GetContent(c) \/ StreamContent(c)
  \/ Head_(c) \/ Delete(c) \/ Verify(c)
  \/ StorageReceives(c) \/ StreamEnds(c) \/ StorageServes(c)
=============================================================================
