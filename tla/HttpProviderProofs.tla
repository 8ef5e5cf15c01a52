------------------------- MODULE HttpProviderProofs -------------------------
(***************************************************************************)
(* Theorems about HttpProvider, for any calls, number of attempts, number  *)
(* of httpx clients and any errors a caller retries, as long as it retries *)
(* an ingest on rejections only.                                           *)
(***************************************************************************)
EXTENDS HttpProvider, TLAPS

\* A close() in progress has taken the handle away.
LifecycleOK == HandleIsOnClient /\ (closing => handle = None)

\* Attempts are numbered from one, and a call that backs off has one left.
AttemptOK(c) ==
  /\ call[c].pc = "idle" => call[c] = NoCall
  /\ call[c].pc # "idle" => call[c].op \in Ops /\ call[c].attempt \in 1..MaxAttempts
  /\ call[c].pc = "sent" => call[c].answer = None
  /\ call[c].pc = "backoff" => call[c].attempt < MaxAttempts /\ call[c].answer \in Retryable[call[c].op]
  /\ call[c].pc = "done" => call[c].answer # None

\* Only mem0 defers inference.
Allowed(provider, o) == o = "deferred ingest" => provider = "mem0"

\* A response waits only for the attempt that awaits it, or awaited it to the
\* end; the attempts to come have sent nothing, and the earlier ones of an
\* ingest are over.
WireOK(c) ==
  /\ \A n \in 0..MaxAttempts :
       wire[<<c, n>>] \in Statuses => n = call[c].attempt /\ call[c].pc \in {"sent", "done"}
  /\ \A n \in 1..MaxAttempts :
       /\ n > call[c].attempt => wire[<<c, n>>] = "unsent"
       /\ call[c].op \in Ingests /\ n # call[c].attempt => wire[<<c, n>>] \in {"unsent", "over"}
  /\ call[c].pc = "sent" => wire[<<c, call[c].attempt>>] \in Statuses \cup {"travelling"}
  /\ call[c].pc = "backoff" /\ call[c].op \in Ingests => wire[<<c, call[c].attempt>>] \in {"unsent", "over"}

\* What the backend has of an ingest, by where its current attempt is.
CopiesOK(c) ==
  LET w == wire[<<c, call[c].attempt>>] IN
  /\ call[c].op \notin Ingests => copies[c] = 0
  /\ copies[c] \in {0, 1}
  /\ call[c].pc \in {"idle", "backoff"} \/ w \in {"unsent", "travelling"} => copies[c] = 0
  /\ call[c].pc = "sent" /\ call[c].op \in Ingests =>
       /\ w # "missing"
       /\ w = "ok" => copies[c] = 1
       /\ w = "limited" => copies[c] = 0
  /\ call[c].pc = "done" /\ call[c].op \in Ingests =>
       /\ call[c].answer = "ok" \/ w = "misshapen" => copies[c] = 1
       /\ call[c].answer \in Rejections => copies[c] = 0 /\ w # "travelling"

\* An answer that says the memory is gone says so before it is received.
GoneOK(c) ==
  LET w == wire[<<c, call[c].attempt>>] IN
  /\ call[c].op = "get" /\ call[c].answer = "none" => ~present \/ ReadsNothing(kind, w)
  /\ call[c].op = "get" /\ ReadsNothing(kind, w) => call[c].pc = "done"
  /\ call[c].op = "delete" /\ call[c].answer = "ok" => ~present
  /\ call[c].pc = "sent" /\ call[c].op = "get" /\ w = "missing" => ~present
  /\ call[c].pc = "sent" /\ call[c].op = "delete" /\ w \in {"ok", "missing"} => ~present

\* A background task belongs to a deferred ingest that was answered to be
\* stored, has sent nothing before it runs, and its request is carried out once.
TaskOK(c) ==
  /\ task[c] # "none" => call[c].op = "deferred ingest" /\ ToldStored(c)
  /\ task[c] \in {"created", "sent"} => c \in held
  /\ task[c] \in {"none", "created"} => wire[<<c, 0>>] = "unsent"
  /\ inferred[c] \in {0, 1}
  /\ inferred[c] = 1 => wire[<<c, 0>>] = "over" /\ task[c] # "none"
  /\ wire[<<c, 0>>] # "unsent" => task[c] # "none"

CallOK(c) == AttemptOK(c) /\ Allowed(kind, call[c].op) /\ WireOK(c) /\ CopiesOK(c) /\ GoneOK(c) /\ TaskOK(c)

IInv == TypeOK /\ LifecycleOK /\ \A c \in Calls : CallOK(c)
-----------------------------------------------------------------------------
(* A step that leaves a call alone                                         *)

LEMMA NothingRead ==
  \A provider, body : ReadsNothing(provider, body) => body \in {"null", "no object"}
BY DEF ReadsNothing

\* What a step that is not about call d leaves as it was.
Same(d) ==
  /\ call'[d] = call[d] /\ task'[d] = task[d] /\ (d \in held => d \in held')
  /\ \A n \in 0..MaxAttempts : wire'[<<d, n>>] = wire[<<d, n>>]
  /\ copies'[d] = copies[d] /\ inferred'[d] = inferred[d]
  /\ kind' = kind /\ (present' => present)

\* A call stays consistent in a step that leaves it alone, since a memory that
\* is gone stays gone.
LEMMA SameCall ==
  ASSUME TypeOK, NEW d \in Calls, CallOK(d), Same(d)
  PROVE  CallOK(d)'
<1>1. call[d].attempt \in 0..MaxAttempts
  BY DEF TypeOK
<1>2. AttemptOK(d)' BY DEF Same, CallOK, AttemptOK
<1>7. Allowed(kind, call[d].op)' BY DEF Same, CallOK
<1>3. WireOK(d)' BY <1>1, AttemptsAssumption DEF Same, CallOK, WireOK
<1>4. CopiesOK(d)' BY <1>1 DEF Same, CallOK, CopiesOK
<1>5. GoneOK(d)' BY <1>1 DEF Same, CallOK, GoneOK
<1>6. TaskOK(d)'
  <2>1. wire'[<<d, 0>>] = wire[<<d, 0>>]
    BY AttemptsAssumption DEF Same
  <2> QED BY <1>1, <2>1 DEF Same, CallOK, TaskOK, ToldStored
<1> QED BY <1>2, <1>3, <1>4, <1>5, <1>6, <1>7 DEF CallOK

\* Opening and closing leave every call alone and never strand the handle.
LEMMA LifecycleStep ==
  ASSUME IInv, Initialize \/ Close \/ CloseEnds \/ CloseIsCut
  PROVE  IInv'
<1>1. TypeOK'
  BY AttemptsAssumption
  DEF IInv, TypeOK, Initialize, Close, CloseEnds, CloseIsCut, backendVars
<1>2. LifecycleOK'
  BY AttemptsAssumption, NoneAssumption
  DEF IInv, LifecycleOK, HandleIsOnClient, TypeOK, Initialize, Close, CloseEnds, CloseIsCut
<1>3. \A d \in Calls : Same(d)
  BY DEF Same, Initialize, Close, CloseEnds, CloseIsCut, backendVars
<1> QED BY <1>1, <1>2, <1>3, SameCall DEF IInv
-----------------------------------------------------------------------------
(* Attempts                                                                *)

\* Where the retry loop leaves a call whose attempt raised.
LEMMA RaisedCall ==
  ASSUME TypeOK, NEW c \in Calls, NEW o \in Ops, NEW n \in 1..MaxAttempts,
         NEW e \in Errors, Raised(c, o, n, e)
  PROVE  /\ call' \in [Calls -> [op : Ops \cup {None}, attempt : 0..MaxAttempts,
                                 pc : {"idle", "sent", "backoff", "done"},
                                 answer : Errors \cup {"ok", "none", None}]]
         /\ call'[c].op = o /\ call'[c].attempt = n /\ call'[c].answer = e
         /\ call'[c].pc \in {"backoff", "done"}
         /\ call'[c].pc = "backoff" => n < MaxAttempts /\ e \in Retryable[o]
         /\ \A d \in Calls \ {c} : call'[d] = call[d]
<1> DEFINE Rec == [op |-> o, attempt |-> n, answer |-> e,
                   pc |-> IF n < MaxAttempts /\ e \in Retryable[o] THEN "backoff" ELSE "done"]
<1>1. Rec \in [op : Ops \cup {None}, attempt : 0..MaxAttempts,
               pc : {"idle", "sent", "backoff", "done"},
               answer : Errors \cup {"ok", "none", None}]
  BY AttemptsAssumption
<1>2. call' = [call EXCEPT ![c] = Rec]
  BY DEF Raised
<1>3. call'[c] = Rec /\ \A d \in Calls \ {c} : call'[d] = call[d]
  BY <1>2 DEF TypeOK
<1>4. call' \in [Calls -> [op : Ops \cup {None}, attempt : 0..MaxAttempts,
                           pc : {"idle", "sent", "backoff", "done"},
                           answer : Errors \cup {"ok", "none", None}]]
  <2> HIDE DEF Rec
  <2> QED BY <1>1, <1>2 DEF TypeOK
<1> QED BY <1>3, <1>4

\* Attempt n of operation o is the next one of call c.
Fresh(c, o, n) ==
  /\ n = call[c].attempt + 1
  /\ \/ call[c].pc = "idle"
     \/ call[c].pc = "backoff" /\ o = call[c].op

\* An attempt that is refused before it sends anything.
LEMMA RefusedStep ==
  ASSUME IInv, NEW c \in Calls, NEW o \in Ops, NEW n \in 1..MaxAttempts, Fresh(c, o, n), Allowed(kind, o),
         NEW e \in {"NotInitializedError", "ProviderError"}, Raised(c, o, n, e),
         UNCHANGED <<lifecycleVars, task, held, wire, backendVars>>
  PROVE  IInv'
<1> USE DEF lifecycleVars, backendVars
<1>1. e \in Errors
  BY DEF Errors, Rejections
<1>2. TypeOK /\ LifecycleOK /\ CallOK(c)
  BY DEF IInv
<1>3. TypeOK'
  BY <1>1, <1>2, RaisedCall DEF TypeOK
<1>4. LifecycleOK'
  BY <1>2 DEF LifecycleOK, HandleIsOnClient
<1>5. \A d \in Calls \ {c} : Same(d)
  BY <1>1, <1>2, RaisedCall DEF Same
<1>6. CallOK(c)'
  <2>1. call[c].pc \in {"idle", "backoff"} /\ call[c].attempt \in 0..MaxAttempts
    BY <1>2 DEF Fresh, TypeOK
  <2>2. wire[<<c, n>>] = "unsent" /\ wire'[<<c, n>>] = "unsent"
    BY <1>2, <2>1 DEF Fresh, CallOK, WireOK
  <2>3. AttemptOK(c)'
    BY <1>1, <1>2, RaisedCall, NoneAssumption DEF AttemptOK
  <2>4. o \in Ingests => \A m \in 1..MaxAttempts : wire[<<c, m>>] \in {"unsent", "over"}
    <3> SUFFICES ASSUME o \in Ingests, NEW m \in 1..MaxAttempts
                 PROVE  wire[<<c, m>>] \in {"unsent", "over"}
      OBVIOUS
    <3>1. CASE call[c].pc = "idle"
      BY <1>2, <3>1 DEF CallOK, AttemptOK, WireOK, NoCall
    <3>2. CASE call[c].pc = "backoff"
      BY <1>2, <3>2 DEF Fresh, CallOK, WireOK
    <3> QED BY <2>1, <3>1, <3>2
  <2>5. WireOK(c)'
    <3>1. \A m \in 0..MaxAttempts : wire[<<c, m>>] \notin Statuses
      BY <1>2, <2>1 DEF CallOK, WireOK
    <3>2. \A m \in 1..MaxAttempts : m > n => wire[<<c, m>>] = "unsent"
      BY <1>2, <2>1 DEF Fresh, CallOK, WireOK
    <3> QED BY <1>1, <1>2, <2>2, <2>4, <3>1, <3>2, RaisedCall DEF WireOK
  <2>6. copies[c] = 0
    BY <1>2, <2>1 DEF CallOK, CopiesOK
  <2>7. CopiesOK(c)'
    BY <1>1, <1>2, <2>2, <2>6, RaisedCall DEF CopiesOK
  <2>8. GoneOK(c)'
    BY <1>1, <1>2, <2>2, RaisedCall, NothingRead DEF GoneOK
  <2>9. TaskOK(c)'
    BY <1>1, <1>2, <2>1, RaisedCall DEF CallOK, TaskOK, ToldStored
  <2>10. Allowed(kind, call[c].op)'
    BY <1>1, <1>2, RaisedCall
  <2> QED BY <2>3, <2>5, <2>7, <2>8, <2>9, <2>10 DEF CallOK
<1> QED BY <1>2, <1>3, <1>4, <1>5, <1>6, SameCall DEF IInv
\* An attempt that sends its request.
LEMMA SendStep ==
  ASSUME IInv, NEW c \in Calls, NEW o \in Ops, NEW n \in 1..MaxAttempts, Fresh(c, o, n), Allowed(kind, o),
         call' = [call EXCEPT ![c] = [op |-> o, attempt |-> n, pc |-> "sent", answer |-> None]],
         wire' = [wire EXCEPT ![<<c, n>>] = "travelling"],
         UNCHANGED <<lifecycleVars, task, held, backendVars>>
  PROVE  IInv'
<1> USE DEF lifecycleVars, backendVars
<1>1. TypeOK /\ LifecycleOK /\ CallOK(c)
  BY DEF IInv
<1>2. call'[c] = [op |-> o, attempt |-> n, pc |-> "sent", answer |-> None]
  BY <1>1 DEF TypeOK
<1>3. \A d \in Calls, m \in 0..MaxAttempts :
        wire'[<<d, m>>] = IF d = c /\ m = n THEN "travelling" ELSE wire[<<d, m>>]
  BY <1>1, AttemptsAssumption DEF TypeOK, Requests
<1>4. TypeOK'
  <2>1. call' \in [Calls -> [op : Ops \cup {None}, attempt : 0..MaxAttempts,
                            pc : {"idle", "sent", "backoff", "done"},
                            answer : Errors \cup {"ok", "none", None}]]
    BY <1>1, AttemptsAssumption DEF TypeOK
  <2>2. wire' \in [Requests -> Statuses \cup Bodies \cup {"unsent", "travelling", "over"}]
    BY <1>1 DEF TypeOK
  <2> QED BY <1>1, <2>1, <2>2 DEF TypeOK
<1>5. LifecycleOK'
  BY <1>1 DEF LifecycleOK, HandleIsOnClient
<1>6. \A d \in Calls \ {c} : Same(d)
  BY <1>1, <1>3 DEF Same, TypeOK
<1>7. CallOK(c)'
  <2>1. call[c].pc \in {"idle", "backoff"} /\ call[c].attempt \in 0..MaxAttempts
    BY <1>1 DEF Fresh, TypeOK
  <2>2. AttemptOK(c)'
    BY <1>2 DEF AttemptOK
  <2>3. o \in Ingests => \A m \in 1..MaxAttempts : wire[<<c, m>>] \in {"unsent", "over"}
    <3> SUFFICES ASSUME o \in Ingests, NEW m \in 1..MaxAttempts
                 PROVE  wire[<<c, m>>] \in {"unsent", "over"}
      OBVIOUS
    <3>1. CASE call[c].pc = "idle"
      BY <1>1, <3>1 DEF CallOK, AttemptOK, WireOK, NoCall
    <3>2. CASE call[c].pc = "backoff"
      BY <1>1, <3>2 DEF Fresh, CallOK, WireOK
    <3> QED BY <2>1, <3>1, <3>2
  <2>4. WireOK(c)'
    <3>1. \A m \in 0..MaxAttempts : wire[<<c, m>>] \notin Statuses
      BY <1>1, <2>1 DEF CallOK, WireOK
    <3>2. \A m \in 1..MaxAttempts : m > n => wire[<<c, m>>] = "unsent"
      BY <1>1, <2>1 DEF Fresh, CallOK, WireOK
    <3>3. "travelling" \notin Statuses
      BY DEF Statuses
    <3> QED BY <1>2, <1>3, <2>3, <3>1, <3>2, <3>3 DEF WireOK
  <2>5. copies[c] = 0
    BY <1>1, <2>1 DEF CallOK, CopiesOK
  <2>6. CopiesOK(c)'
    BY <1>2, <1>3, <2>5 DEF CopiesOK
  <2>7. GoneOK(c)'
    <3>1. ~ReadsNothing(kind', "travelling")
      BY DEF ReadsNothing
    <3>2. wire'[<<c, n>>] = "travelling"
      BY <1>3, AttemptsAssumption
    <3> QED BY <1>2, <3>1, <3>2, NoneAssumption DEF GoneOK
  <2>8. TaskOK(c)'
    <3>1. wire'[<<c, 0>>] = wire[<<c, 0>>]
      BY <1>3, AttemptsAssumption
    <3> QED BY <1>1, <2>1, <3>1 DEF CallOK, TaskOK, ToldStored
  <2>9. Allowed(kind, call[c].op)'
    BY <1>2
  <2> QED BY <2>2, <2>4, <2>6, <2>7, <2>8, <2>9 DEF CallOK
<1> QED BY <1>1, <1>4, <1>5, <1>6, <1>7, SameCall DEF IInv

\* A call is made, or made again after it backed off.
LEMMA AttemptStep ==
  ASSUME IInv, NEW c \in Calls, (\E o \in Ops : Call(c, o)) \/ Retry(c)
  PROVE  IInv'
<1>1. \E o \in Ops, n \in 1..MaxAttempts : Fresh(c, o, n) /\ Allowed(kind, o) /\ Attempt(c, o, n)
  <2>1. CASE \E o \in Ops : Call(c, o)
    <3>1. PICK o \in Ops : call[c].pc = "idle" /\ Allowed(kind, o) /\ Attempt(c, o, 1)
      BY <2>1 DEF Call, Allowed
    <3>2. call[c].attempt = 0
      BY <3>1 DEF IInv, CallOK, AttemptOK, NoCall
    <3>3. Fresh(c, o, 1)
      BY <3>1, <3>2 DEF Fresh
    <3>4. 1 \in 1..MaxAttempts
      BY AttemptsAssumption
    <3> QED BY <3>1, <3>3, <3>4
  <2>2. CASE Retry(c)
    <3>1. call[c].op \in Ops /\ call[c].attempt + 1 \in 1..MaxAttempts
      BY <2>2, AttemptsAssumption DEF Retry, IInv, CallOK, AttemptOK
    <3>2. Fresh(c, call[c].op, call[c].attempt + 1) /\ Allowed(kind, call[c].op)
      BY <2>2 DEF Retry, Fresh, IInv, CallOK
    <3> QED BY <2>2, <3>1, <3>2 DEF Retry
  <2> QED BY <2>1, <2>2
<1>2. PICK o \in Ops, n \in 1..MaxAttempts : Fresh(c, o, n) /\ Allowed(kind, o) /\ Attempt(c, o, n)
  BY <1>1
<1>3. RunOperation("RuntimeError") = "ProviderError"
  BY DEF RunOperation, Errors, Rejections
<1>4. CASE ~ready /\ Raised(c, o, n, "NotInitializedError") /\ UNCHANGED wire
  BY <1>2, <1>4, RefusedStep DEF Attempt
<1>5. CASE Raised(c, o, n, RunOperation("RuntimeError")) /\ UNCHANGED wire
  BY <1>2, <1>3, <1>5, RefusedStep DEF Attempt
<1>6. CASE /\ call' = [call EXCEPT ![c] = [op |-> o, attempt |-> n, pc |-> "sent", answer |-> None]]
           /\ wire' = [wire EXCEPT ![<<c, n>>] = "travelling"]
  BY <1>2, <1>6, SendStep DEF Attempt
<1> QED BY <1>2, <1>4, <1>5, <1>6 DEF Attempt
-----------------------------------------------------------------------------
(* Answers                                                                 *)

\* What is read of a response, by the status it came with: the error of an
\* answer is never one that only a refused attempt has.
LEMMA AnswerKinds ==
  ASSUME NEW o \in Ops, Allowed(kind, o), NEW status \in Statuses, NEW s \in Readings(o, status)
  PROVE  /\ s \in Statuses \cup Bodies
         /\ Answer(o, s) \in {"RateLimitError", "PendingIngestError", "ProviderError", "ok", "none"}
         /\ Answer(o, s) = "RateLimitError" => status = "limited"
         /\ Answer(o, s) = "ok" => status = "ok" \/ (status = "missing" /\ o # "get")
         /\ Answer(o, s) = "none" => o = "get" /\ (status = "missing" \/ ReadsNothing(kind, s))
         /\ s = "misshapen" => status = "ok"
         /\ StartsInference(o, s) =>
              /\ o = "deferred ingest" /\ status = "ok"
              /\ Answer(o, s) = "ok" \/ (Answer(o, s) = "ProviderError" /\ s = "misshapen")
<1>1. s \in Statuses \cup Bodies /\ (s # status => status = "ok" /\ s \in Bodies /\ o # "delete")
  BY DEF Readings
<1>2. RunOperation("ValueError") = "ProviderError"
  BY DEF RunOperation, Errors, Rejections
<1>3. CASE s \in Bodies
  <2>1. status = "ok"
    BY <1>1, <1>3 DEF Statuses, Bodies
  <2>2. Answer(o, s) = Read(o, s)
    BY <1>3, Zenon DEF Answer, Bodies
  <2>3. Read(o, s) \in {"ok", "none", "ProviderError"}
    BY <1>2 DEF Read
  <2>4. Read(o, s) = "none" => o = "get" /\ ReadsNothing(kind, s)
    BY <1>2 DEF Read
  <2>5. StartsInference(o, s) => Read(o, s) = "ok" \/ s = "misshapen"
    BY <1>3 DEF Read, StartsInference, Bodies, Ingests, Allowed
  <2>6. StartsInference(o, s) => o = "deferred ingest"
    BY DEF StartsInference
  <2>7. o = "deferred ingest" => o # "get"
    OBVIOUS
  <2> QED BY <1>1, <2>1, <2>2, <2>3, <2>4, <2>5, <2>6, <2>7
<1>4. CASE s \notin Bodies
  <2>1. s = status /\ s \in {"pending", "missing", "limited", "error", "refused"}
    BY <1>1, <1>4 DEF Statuses, Bodies
  <2>2. ~StartsInference(o, s)
    BY <1>4 DEF StartsInference
  <2>3. /\ s = "limited" => Answer(o, s) = "RateLimitError"
        /\ s = "pending" => Answer(o, s) = "PendingIngestError"
        /\ s = "missing" => Answer(o, s) = IF o = "get" THEN "none" ELSE "ok"
        /\ s \in {"error", "refused"} => Answer(o, s) = "ProviderError"
    BY <2>1 DEF Answer, Bodies
  <2> QED BY <1>1, <2>1, <2>2, <2>3
<1> QED BY <1>3, <1>4

\* The response to a call is received, as a result or as an error.
LEMMA RespondStep ==
  ASSUME IInv, NEW c \in Calls, Respond(c)
  PROVE  IInv'
<1> USE DEF lifecycleVars, backendVars
<1> DEFINE o == call[c].op
           n == call[c].attempt
           status == wire[<<c, n>>]
<1>1. TypeOK /\ LifecycleOK /\ CallOK(c)
  BY DEF IInv
<1>2. /\ call[c].pc = "sent" /\ o \in Ops /\ n \in 1..MaxAttempts /\ status \in Statuses
      /\ task[c] = "none"
  BY <1>1 DEF Respond, CallOK, AttemptOK, TaskOK, ToldStored
<1>0. PICK s \in Readings(o, status) :
        /\ IF Answer(o, s) \in Errors THEN Raised(c, o, n, Answer(o, s)) ELSE Returned(c, Answer(o, s))
        /\ \/ StartsInference(o, s)
              /\ task' = [task EXCEPT ![c] = "created"]
              /\ held' = held \cup {c}
           \/ ~StartsInference(o, s) /\ UNCHANGED <<task, held>>
        /\ wire' = [wire EXCEPT ![<<c, n>>] =
             IF Answer(o, s) = "none" \/ (Answer(o, s) \in Errors /\ StartsInference(o, s)) THEN s ELSE "over"]
  BY Zenon DEF Respond
<1> DEFINE a == Answer(o, s)
           starts == StartsInference(o, s)
           record == IF a = "none" \/ (a \in Errors /\ starts) THEN s ELSE "over"
<1>3. /\ s \in Statuses \cup Bodies
      /\ a \in {"RateLimitError", "PendingIngestError", "ProviderError", "ok", "none"}
      /\ a = "RateLimitError" => status = "limited"
      /\ a = "ok" => status = "ok" \/ (status = "missing" /\ o # "get")
      /\ a = "none" => o = "get" /\ (status = "missing" \/ ReadsNothing(kind, s))
      /\ s = "misshapen" => status = "ok"
      /\ starts => /\ o = "deferred ingest" /\ status = "ok"
                   /\ a = "ok" \/ (a = "ProviderError" /\ s = "misshapen")
  <2>1. Allowed(kind, o)
    BY <1>1 DEF CallOK
  <2> HIDE DEF o, status
  <2> QED BY <1>2, <2>1, AnswerKinds
<1>31. UNCHANGED <<lifecycleVars, backendVars>>
  BY DEF Respond
<1> HIDE DEF a, starts
<1>32. wire' = [wire EXCEPT ![<<c, n>>] = record]
  BY <1>0 DEF a, starts
<1>33. record \in Statuses \cup Bodies \cup {"over"}
  BY <1>3
<1>34. /\ a = "none" => record = s
       /\ a \notin {"none"} \cup Errors => record = "over"
       /\ ~starts /\ a # "none" => record = "over"
       /\ starts /\ a \in Errors => record = s
  OBVIOUS
<1> HIDE DEF record
<1>4. \A d \in Calls, m \in 0..MaxAttempts :
        wire'[<<d, m>>] = IF d = c /\ m = n THEN record ELSE wire[<<d, m>>]
  BY <1>1, <1>2, <1>32, AttemptsAssumption DEF TypeOK, Requests
<1>5. /\ call' \in [Calls -> [op : Ops \cup {None}, attempt : 0..MaxAttempts,
                              pc : {"idle", "sent", "backoff", "done"},
                              answer : Errors \cup {"ok", "none", None}]]
      /\ call'[c].op = o /\ call'[c].attempt = n /\ call'[c].answer = a
      /\ call'[c].pc \in {"backoff", "done"}
      /\ call'[c].pc = "backoff" => n < MaxAttempts /\ a \in Retryable[o] /\ a \in Errors
      /\ \A d \in Calls \ {c} : call'[d] = call[d]
  <2>1. CASE a \in Errors
    <3>1. Raised(c, o, n, a)
      BY <1>0, <2>1 DEF a
    <3> HIDE DEF o, n
    <3> QED BY <1>1, <1>2, <2>1, <3>1, RaisedCall
  <2>2. CASE a \notin Errors
    <3>1. Returned(c, a)
      BY <1>0, <2>2 DEF a
    <3>2. a \in {"ok", "none"}
      BY <1>3, <2>2 DEF Errors, Rejections
    <3>3. call' = [call EXCEPT ![c] = [call[c] EXCEPT !.pc = "done", !.answer = a]]
      BY <1>1, <3>1 DEF Returned, TypeOK
    <3> QED BY <1>1, <3>2, <3>3 DEF TypeOK
  <2> QED BY <2>1, <2>2
<1>6. /\ task' \in [Calls -> {"none", "created", "sent", "ended"}]
      /\ held' \subseteq Calls /\ held \subseteq held'
      /\ \A d \in Calls \ {c} : task'[d] = task[d]
      /\ task'[c] \in {"none", "created"}
      /\ task'[c] = "created" => starts /\ c \in held'
  BY <1>0, <1>1, <1>2 DEF starts, TypeOK
<1>7. TypeOK'
  <2>1. wire' \in [Requests -> Statuses \cup Bodies \cup {"unsent", "travelling", "over"}]
    BY <1>1, <1>32, <1>33 DEF TypeOK
  <2> QED BY <1>1, <1>5, <1>6, <1>31, <2>1 DEF TypeOK
<1>8. LifecycleOK'
  BY <1>1, <1>31 DEF LifecycleOK, HandleIsOnClient
<1>9. UNCHANGED <<kind, copies, inferred, present>>
  BY <1>31
<1>10. \A d \in Calls \ {c} : Same(d)
  <2> HIDE DEF n
  <2> QED BY <1>2, <1>4, <1>5, <1>6, <1>9 DEF Same
<1>12. wire'[<<c, n>>] = record
  BY <1>2, <1>4
<1>13. o \in Ingests => a # "none" /\ a \notin {"missing"}
  BY <1>3 DEF Ingests
<1>14. o \in Ingests /\ call'[c].pc = "backoff" => a \in Rejections
  BY <1>2, <1>5, RetryableAssumption
<1>15. o \in Ingests /\ call'[c].pc = "backoff" => record = "over" /\ status = "limited"
  BY <1>3, <1>13, <1>14, <1>34 DEF Rejections
<1>16. record = "over" \/ call'[c].pc = "done"
  <2>1. a = "none" => call'[c].pc = "done"
    BY <1>5 DEF Errors, Rejections
  <2>2. starts /\ a \in Errors => call'[c].pc = "done"
    <3>1. starts /\ a \in Errors => o \in Ingests /\ a \notin Rejections
      BY <1>3 DEF Errors, Rejections, Ingests
    <3> QED BY <1>5, <1>14, <3>1
  <2> QED BY <1>34, <2>1, <2>2
<1>11. CallOK(c)'
  <2>1. AttemptOK(c)'
    BY <1>2, <1>3, <1>5, NoneAssumption DEF AttemptOK, Errors, Rejections
  <2>2. WireOK(c)'
    <3>1. \A m \in 0..MaxAttempts \ {n} : wire'[<<c, m>>] = wire[<<c, m>>]
      BY <1>4
    <3> QED BY <1>1, <1>2, <1>5, <1>12, <1>15, <1>16, <3>1 DEF CallOK, WireOK, Statuses
  <2>3. CopiesOK(c)'
    <3>2. o \in Ingests => copies[c] \in {0, 1} /\ (status = "ok" => copies[c] = 1)
                             /\ (status = "limited" => copies[c] = 0) /\ status # "missing"
      BY <1>1, <1>2 DEF CallOK, CopiesOK
    <3>3. o \notin Ingests => copies[c] = 0
      BY <1>1 DEF CallOK, CopiesOK
    <3>4. o \in Ingests /\ a \in Rejections => status = "limited"
      BY <1>3 DEF Rejections
    <3>5. record = "misshapen" => status = "ok"
      BY <1>3, <1>34
    <3>6. record \notin {"unsent", "travelling"}
      BY <1>33 DEF Statuses, Bodies
    <3> QED BY <1>3, <1>5, <1>9, <1>12, <1>15, <3>2, <3>3, <3>4, <3>5, <3>6 DEF CopiesOK
  <2>4. GoneOK(c)'
    <3>1. status = "missing" /\ o = "get" => ~present
      BY <1>1, <1>2 DEF CallOK, GoneOK
    <3>2. status \in {"ok", "missing"} /\ o = "delete" => ~present
      BY <1>1, <1>2 DEF CallOK, GoneOK
    <3>3. a = "none" => ~present \/ ReadsNothing(kind, record)
      BY <1>3, <1>34, <3>1
    <3>4. o # "delete" \/ o # "get"
      OBVIOUS
    <3>5. call'[c].pc # "done" => record = "over"
      BY <1>3, <1>5, <1>34, <1>16, NothingRead
    <3>6. ~ReadsNothing(kind, "over")
      BY DEF ReadsNothing
    <3> QED BY <1>3, <1>5, <1>9, <1>12, <3>2, <3>3, <3>5, <3>6 DEF GoneOK
  <2>5. TaskOK(c)'
    <3>1. wire'[<<c, 0>>] = wire[<<c, 0>>]
      BY <1>2, <1>4, AttemptsAssumption
    <3>2. a = "ok" => a \notin Errors
      BY DEF Errors, Rejections
    <3>3. starts => call'[c].pc = "done" /\ (a = "ok" \/ (a = "ProviderError" /\ record = "misshapen"))
      <4>1. "ProviderError" \in Errors
        BY DEF Errors
      <4>2. starts => o \in Ingests /\ a \notin Rejections
        BY <1>3 DEF Rejections, Ingests
      <4> QED BY <1>3, <1>5, <1>14, <1>34, <4>1, <4>2
    <3>4. starts => ToldStored(c)'
      BY <1>5, <1>12, <3>3 DEF ToldStored
    <3>5. task'[c] # "none" => call'[c].op = "deferred ingest" /\ ToldStored(c)'
      BY <1>3, <1>5, <1>6, <3>4
    <3> QED BY <1>1, <1>2, <1>6, <1>9, <3>1, <3>5 DEF CallOK, TaskOK
  <2>6. Allowed(kind, call[c].op)'
    BY <1>1, <1>5, <1>9 DEF CallOK
  <2> QED BY <2>1, <2>2, <2>3, <2>4, <2>5, <2>6 DEF CallOK
<1> QED BY <1>1, <1>7, <1>8, <1>10, <1>11, SameCall DEF IInv

\* A call loses its connection or its time, and its request may still arrive.
LEMMA TransportFailsStep ==
  ASSUME IInv, NEW c \in Calls, TransportFails(c)
  PROVE  IInv'
<1> USE DEF lifecycleVars, backendVars
<1> DEFINE o == call[c].op
           n == call[c].attempt
<1>1. TypeOK /\ LifecycleOK /\ CallOK(c)
  BY DEF IInv
<1>2. call[c].pc = "sent" /\ o \in Ops /\ n \in 1..MaxAttempts /\ wire[<<c, n>>] = "travelling"
  BY <1>1 DEF TransportFails, CallOK, AttemptOK
<1>3. Raised(c, o, n, "ProviderError") /\ "ProviderError" \in Errors
  BY DEF TransportFails, RunOperation, Errors, Rejections
<1>4. UNCHANGED <<lifecycleVars, task, held, wire, backendVars>>
  BY DEF TransportFails
<1>5. /\ call' \in [Calls -> [op : Ops \cup {None}, attempt : 0..MaxAttempts,
                              pc : {"idle", "sent", "backoff", "done"},
                              answer : Errors \cup {"ok", "none", None}]]
      /\ call'[c].op = o /\ call'[c].attempt = n /\ call'[c].answer = "ProviderError"
      /\ call'[c].pc \in {"backoff", "done"}
      /\ call'[c].pc = "backoff" => n < MaxAttempts /\ "ProviderError" \in Retryable[o]
      /\ \A d \in Calls \ {c} : call'[d] = call[d]
  <2> HIDE DEF o, n
  <2> QED BY <1>1, <1>2, <1>3, RaisedCall
<1>6. TypeOK'
  BY <1>1, <1>4, <1>5 DEF TypeOK
<1>7. LifecycleOK'
  BY <1>1, <1>4 DEF LifecycleOK, HandleIsOnClient
<1>8. \A d \in Calls \ {c} : Same(d)
  BY <1>4, <1>5 DEF Same
<1>9. CallOK(c)'
  <2>1. o \in Ingests => call'[c].pc = "done"
    BY <1>2, <1>5, RetryableAssumption DEF Rejections
  <2>2. AttemptOK(c)'
    BY <1>2, <1>3, <1>5, NoneAssumption DEF AttemptOK
  <2>3. WireOK(c)'
    <3>1. \A m \in 0..MaxAttempts : wire[<<c, m>>] \notin Statuses
      BY <1>1, <1>2 DEF CallOK, WireOK, Statuses
    <3> QED BY <1>1, <1>2, <1>4, <1>5, <2>1, <3>1 DEF CallOK, WireOK
  <2>4. CopiesOK(c)'
    BY <1>1, <1>2, <1>4, <1>5, <2>1 DEF CallOK, CopiesOK, Rejections
  <2>5. GoneOK(c)'
    <3>1. ~ReadsNothing(kind', "travelling")
      BY DEF ReadsNothing
    <3> QED BY <1>2, <1>4, <1>5, <3>1 DEF GoneOK
  <2>6. TaskOK(c)'
    <3>1. task[c] = "none" /\ task'[c] = "none"
      BY <1>1, <1>2, <1>4 DEF CallOK, TaskOK, ToldStored
    <3> QED BY <1>1, <1>4, <3>1 DEF CallOK, TaskOK
  <2>7. Allowed(kind, call[c].op)'
    BY <1>1, <1>4, <1>5 DEF CallOK
  <2> QED BY <2>2, <2>3, <2>4, <2>5, <2>6, <2>7 DEF CallOK
<1> QED BY <1>1, <1>6, <1>7, <1>8, <1>9, SameCall DEF IInv

-----------------------------------------------------------------------------
(* Background tasks                                                        *)

\* A background task sends its request, ends, and is discarded.
LEMMA BackgroundStep ==
  ASSUME IInv, NEW c \in Calls, Background(c)
  PROVE  IInv'
<1> USE DEF lifecycleVars, backendVars
<1>1. TypeOK /\ LifecycleOK /\ CallOK(c)
  BY DEF IInv
<1>2. UNCHANGED <<lifecycleVars, call, backendVars>>
  BY DEF Background, TaskRuns, TaskEnds, TaskDiscarded
<1>3. /\ task' \in [Calls -> {"none", "created", "sent", "ended"}]
      /\ held' \subseteq held
      /\ wire' \in [Requests -> Statuses \cup Bodies \cup {"unsent", "travelling", "over"}]
  BY <1>1 DEF Background, TaskRuns, TaskEnds, TaskDiscarded, TypeOK
<1>4. /\ \A d \in Calls \ {c} : task'[d] = task[d] /\ (d \in held => d \in held')
      /\ \A d \in Calls, m \in 0..MaxAttempts :
           wire'[<<d, m>>] = wire[<<d, m>>] \/ (d = c /\ m = 0 /\ wire'[<<d, m>>] = "travelling")
  BY <1>1, AttemptsAssumption DEF Background, TaskRuns, TaskEnds, TaskDiscarded, TypeOK, Requests
<1>5. task[c] # "none" /\ task'[c] # "none"
  BY <1>1 DEF Background, TaskRuns, TaskEnds, TaskDiscarded, TypeOK
<1>6. TypeOK'
  BY <1>1, <1>2, <1>3 DEF TypeOK
<1>7. LifecycleOK'
  BY <1>1, <1>2 DEF LifecycleOK, HandleIsOnClient
<1>8. \A d \in Calls \ {c} : Same(d)
  BY <1>2, <1>4 DEF Same
<1>9. CallOK(c)'
  <2>1. /\ call[c].pc = "done" /\ call[c].attempt \in 1..MaxAttempts
        /\ call[c].op = "deferred ingest" /\ ToldStored(c)
    BY <1>1, <1>5 DEF CallOK, TaskOK, AttemptOK, ToldStored
  <2>2. \A m \in 1..MaxAttempts : wire'[<<c, m>>] = wire[<<c, m>>]
    BY <1>4
  <2>8. ToldStored(c)'
    BY <1>2, <2>1, <2>2 DEF ToldStored
  <2>9. Allowed(kind, call[c].op)'
    BY <1>1, <1>2 DEF CallOK
  <2>3. AttemptOK(c)'
    BY <1>1, <1>2 DEF CallOK, AttemptOK
  <2>4. WireOK(c)'
    <3>1. "travelling" \notin Statuses
      BY DEF Statuses
    <3> QED BY <1>1, <1>2, <1>4, <2>1, <2>2, <3>1 DEF CallOK, WireOK
  <2>5. CopiesOK(c)'
    BY <1>1, <1>2, <2>1, <2>2 DEF CallOK, CopiesOK
  <2>6. GoneOK(c)'
    BY <1>1, <1>2, <2>1, <2>2 DEF CallOK, GoneOK
  <2>7. TaskOK(c)'
    <3>1. CASE TaskRuns(c)
      <4>1. inferred[c] = 0 /\ c \in held
        BY <1>1, <3>1 DEF TaskRuns, CallOK, TaskOK
      <4>2. task'[c] \in {"sent", "ended"} /\ held' = held /\ inferred'[c] = 0
        BY <1>1, <1>2, <3>1, <4>1 DEF TaskRuns, TypeOK
      <4>3. call'[c] = call[c]
        BY <1>2
      <4>4. task'[c] # "none" => call'[c].op = "deferred ingest" /\ ToldStored(c)'
        BY <2>1, <2>8, <4>3
      <4>5. task'[c] \in {"created", "sent"} => c \in held'
        BY <4>1, <4>2
      <4>6. task'[c] \notin {"none", "created"}
        BY <4>2
      <4>7. inferred'[c] \in {0,1} /\ inferred'[c] # 1
        BY <4>2
      <4> QED BY <4>4, <4>5, <4>6, <4>7 DEF TaskOK
    <3>2. CASE TaskEnds(c)
      BY <1>1, <1>2, <2>1, <2>8, <3>2 DEF TaskEnds, CallOK, TaskOK, TypeOK
    <3>3. CASE TaskDiscarded(c)
      BY <1>1, <1>2, <2>1, <2>8, <3>3 DEF TaskDiscarded, CallOK, TaskOK, TypeOK
    <3> QED BY <3>1, <3>2, <3>3 DEF Background
  <2> QED BY <2>3, <2>4, <2>5, <2>6, <2>7, <2>9 DEF CallOK
<1> QED BY <1>1, <1>6, <1>7, <1>8, <1>9, SameCall DEF IInv
-----------------------------------------------------------------------------
(* The backend                                                             *)

\* What the properties need of a response: an ingest is never answered "missing",
\* what was not done is not answered "ok", and a limited request was not done.
LEMMA OutcomeKinds ==
  ASSUME NEW o \in Ops, NEW out \in Outcomes(o)
  PROVE  /\ out.status \in Statuses /\ out.done \in BOOLEAN
         /\ o \in Ingests => /\ out.status # "missing"
                             /\ out.status = "ok" => out.done
                             /\ out.status = "limited" => ~out.done
         /\ out.status = "missing" => ~present
         /\ o = "delete" /\ out.status = "ok" => out.done
<1> DEFINE there == o \in Ingests \/ present
<1>1. \/ out = [status |-> "error", done |-> FALSE]
      \/ out = [status |-> "error", done |-> there]
      \/ out = [status |-> "limited", done |-> FALSE]
      \/ there /\ out = [status |-> "ok", done |-> TRUE]
      \/ ~there /\ out = [status |-> "missing", done |-> FALSE]
      \/ \E d \in BOOLEAN : out = [status |-> "pending", done |-> d]
      \/ \E d \in BOOLEAN : out = [status |-> "refused", done |-> d]
  BY Zenon DEF Outcomes
<1>2. CASE out = [status |-> "error", done |-> there]
  <2>1. there \in BOOLEAN
    OBVIOUS
  <2> HIDE DEF there
  <2>2. out.status = "error" /\ out.done \in BOOLEAN
    BY <1>2, <2>1
  <2> QED BY <2>2 DEF Statuses
<1>3. CASE out = [status |-> "error", done |-> FALSE] \/ out = [status |-> "limited", done |-> FALSE]
  <2>1. out.status \in {"error", "limited"} /\ out.done = FALSE
    BY <1>3
  <2>2. out.done \in BOOLEAN /\ ~out.done
    BY <2>1
  <2> QED BY <2>1, <2>2 DEF Statuses
<1>4. CASE there /\ out = [status |-> "ok", done |-> TRUE]
  BY <1>4 DEF Statuses
<1>5. CASE ~there /\ out = [status |-> "missing", done |-> FALSE]
  BY <1>5 DEF Statuses
<1>6. CASE \E d \in BOOLEAN : out = [status |-> "pending", done |-> d]
  BY <1>6 DEF Statuses
<1>7. CASE \E d \in BOOLEAN : out = [status |-> "refused", done |-> d]
  BY <1>7 DEF Statuses
<1> HIDE DEF there
<1> QED BY <1>1, <1>2, <1>3, <1>4, <1>5, <1>6, <1>7

\* The backend answers a request of a call that may have given up long ago.
LEMMA BackendStep ==
  ASSUME IInv, NEW c \in Calls, NEW n \in 0..MaxAttempts, BackendAnswers(<<c, n>>)
  PROVE  IInv'
<1> USE DEF lifecycleVars, backendVars
<1> DEFINE o == call[c].op
           awaited == call[c].pc = "sent" /\ call[c].attempt = n
<1>1. TypeOK /\ LifecycleOK /\ CallOK(c)
  BY DEF IInv
<1>2. wire[<<c, n>>] = "travelling" /\ UNCHANGED <<lifecycleVars, call, task, held>>
  BY DEF BackendAnswers
<1>0. n = 0 \/ n \in 1..MaxAttempts
  BY AttemptsAssumption
<1>3. call[c].pc # "idle" /\ o \in Ops /\ call[c].attempt \in 1..MaxAttempts
      /\ (n = 0 => task[c] # "none")
  <2>1. n = 0 => task[c] # "none"
    BY <1>1, <1>2 DEF CallOK, TaskOK
  <2>2. call[c].pc # "idle"
    <3> SUFFICES ASSUME call[c].pc = "idle" PROVE FALSE
      OBVIOUS
    <3>1. call[c].attempt = 0 /\ task[c] = "none"
      BY <1>1 DEF CallOK, TaskOK, ToldStored, AttemptOK, NoCall
    <3>2. n \in 1..MaxAttempts /\ n > call[c].attempt
      BY <1>0, <2>1, <3>1
    <3> QED BY <1>1, <1>2, <3>2 DEF CallOK, WireOK
  <2> QED BY <1>1, <2>1, <2>2 DEF CallOK, AttemptOK
<1>4. PICK out \in Outcomes(o) :
        /\ wire' = [wire EXCEPT ![<<c, n>>] = IF awaited THEN out.status ELSE "over"]
        /\ copies' = [copies EXCEPT ![c] = @ + (IF out.done /\ o \in Ingests /\ n # 0 THEN 1 ELSE 0)]
        /\ inferred' = [inferred EXCEPT ![c] = @ + (IF out.done /\ o \in Ingests /\ n = 0 THEN 1 ELSE 0)]
        /\ present' = (present /\ ~(out.done /\ o = "delete"))
  BY DEF BackendAnswers, Awaited
<1>5. /\ out.status \in Statuses /\ out.done \in BOOLEAN
      /\ o \in Ingests => /\ out.status # "missing"
                          /\ out.status = "ok" => out.done
                          /\ out.status = "limited" => ~out.done
      /\ out.status = "missing" => ~present
      /\ o = "delete" /\ out.status = "ok" => out.done
  <2> HIDE DEF o
  <2> QED BY <1>3, OutcomeKinds
<1> HIDE DEF awaited
<1>6. \A d \in Calls, m \in 0..MaxAttempts :
        wire'[<<d, m>>] = IF d = c /\ m = n THEN IF awaited THEN out.status ELSE "over"
                          ELSE wire[<<d, m>>]
  BY <1>1, <1>4 DEF TypeOK, Requests
<1>7. /\ copies'[c] = copies[c] + (IF out.done /\ o \in Ingests /\ n # 0 THEN 1 ELSE 0)
      /\ inferred'[c] = inferred[c] + (IF out.done /\ o \in Ingests /\ n = 0 THEN 1 ELSE 0)
      /\ \A d \in Calls \ {c} : copies'[d] = copies[d] /\ inferred'[d] = inferred[d]
  BY <1>1, <1>4 DEF TypeOK
<1>8. TypeOK'
  <2>1. wire' \in [Requests -> Statuses \cup Bodies \cup {"unsent", "travelling", "over"}]
    BY <1>1, <1>4, <1>5 DEF TypeOK
  <2>2. copies' \in [Calls -> Nat] /\ inferred' \in [Calls -> Nat]
    BY <1>1, <1>4 DEF TypeOK
  <2>3. present' \in BOOLEAN
    BY <1>4
  <2> QED BY <1>1, <1>2, <2>1, <2>2, <2>3 DEF TypeOK
<1>9. LifecycleOK'
  BY <1>1, <1>2 DEF LifecycleOK, HandleIsOnClient
<1>10. present' => present
  BY <1>4
<1>11. \A d \in Calls \ {c} : Same(d)
  BY <1>2, <1>6, <1>7, <1>10 DEF Same
<1>12. CallOK(c)'
  <2>1. AttemptOK(c)'
    BY <1>1, <1>2 DEF CallOK, AttemptOK
  <2>2. awaited <=> call[c].pc = "sent" /\ call[c].attempt = n
    BY DEF awaited
  <2>3. WireOK(c)'
    <3>1. "over" \notin Statuses
      BY DEF Statuses
    <3>2. n # 0 => n <= call[c].attempt
      BY <1>0, <1>1, <1>3, <1>2 DEF CallOK, WireOK
    <3>3. n # 0 /\ o \in Ingests => n = call[c].attempt
      BY <1>0, <1>1, <1>2 DEF CallOK, WireOK
    <3>4. call[c].pc = "backoff" /\ o \in Ingests => n = 0
      BY <1>1, <1>2, <3>3 DEF CallOK, WireOK
    <3> QED BY <1>1, <1>2, <1>3, <1>5, <1>6, <2>2, <3>1, <3>2, <3>3, <3>4 DEF CallOK, WireOK
  <2>4. CopiesOK(c)'
    <3>1. CASE n = 0 \/ o \notin Ingests
      BY <1>1, <1>2, <1>3, <1>5, <1>6, <1>7, <2>2, <3>1 DEF CallOK, CopiesOK, TypeOK
    <3>2. CASE n # 0 /\ o \in Ingests
      <4>1. n = call[c].attempt /\ call[c].pc \in {"sent", "done"} /\ copies[c] = 0
        BY <1>0, <1>1, <1>2, <1>3, <3>2 DEF CallOK, WireOK, CopiesOK, TypeOK
      <4> QED BY <1>1, <1>2, <1>3, <1>5, <1>6, <1>7, <2>2, <3>2, <4>1 DEF CallOK, CopiesOK, Statuses
    <3> QED BY <3>1, <3>2
  <2>5. GoneOK(c)'
    <3>1. o = "delete" /\ out.status \in {"ok", "missing"} => ~present'
      BY <1>4, <1>5
    <3>2. out.status = "missing" => ~present'
      BY <1>4, <1>5
    <3>3. ~ReadsNothing(kind', out.status) /\ ~ReadsNothing(kind', "over")
      BY <1>5 DEF ReadsNothing, Statuses
    <3>4. kind' = kind /\ call'[c] = call[c]
      BY <1>2
    <3>5. ReadsNothing(kind', wire'[<<c, call[c].attempt>>]) => ReadsNothing(kind, wire[<<c, call[c].attempt>>])
      <4>1. wire'[<<c, call[c].attempt>>] \in {out.status, "over", wire[<<c, call[c].attempt>>]}
        BY <1>3, <1>6
      <4> QED BY <3>3, <3>4, <4>1
    <3>6. /\ o = "get" /\ call[c].answer = "none" => ~present' \/ ReadsNothing(kind', wire'[<<c, call[c].attempt>>])
          /\ o = "get" /\ ReadsNothing(kind', wire'[<<c, call[c].attempt>>]) => call[c].pc = "done"
      <4>1. o = "get" /\ call[c].answer = "none" => ~present \/ ReadsNothing(kind, wire[<<c, call[c].attempt>>])
        BY <1>1 DEF CallOK, GoneOK
      <4>2. ReadsNothing(kind, wire[<<c, call[c].attempt>>]) => wire'[<<c, call[c].attempt>>] = wire[<<c, call[c].attempt>>]
        <5>1. ~ReadsNothing(kind, "travelling")
          BY DEF ReadsNothing
        <5> QED BY <1>2, <1>3, <1>6, <5>1
      <4>3. o = "get" /\ ReadsNothing(kind, wire[<<c, call[c].attempt>>]) => call[c].pc = "done"
        BY <1>1 DEF CallOK, GoneOK
      <4> QED BY <1>10, <3>4, <3>5, <4>1, <4>2, <4>3
    <3> QED BY <1>1, <1>3, <1>6, <1>10, <2>2, <3>1, <3>2, <3>4, <3>6 DEF CallOK, GoneOK
  <2>7. Allowed(kind, call[c].op)'
    BY <1>1, <1>2 DEF CallOK
  <2>8. task[c] # "none" => ToldStored(c)'
    <3>1. task[c] # "none" => ToldStored(c)
      BY <1>1 DEF CallOK, TaskOK
    <3>2. wire[<<c, call[c].attempt>>] = "misshapen" => wire'[<<c, call[c].attempt>>] = "misshapen"
      BY <1>2, <1>3, <1>6
    <3> QED BY <1>2, <3>1, <3>2 DEF ToldStored
  <2>6. TaskOK(c)'
    <3>1. CASE n = 0
      <4>1. inferred[c] = 0 /\ task[c] \notin {"none", "created"} /\ ~awaited
        BY <1>1, <1>2, <1>3, <2>2, <3>1 DEF CallOK, TaskOK, ToldStored, TypeOK
      <4>2. wire'[<<c, 0>>] = "over" /\ inferred'[c] \in {0, 1}
        BY <1>6, <1>7, <3>1, <4>1
      <4> QED BY <1>1, <1>2, <1>3, <2>8, <3>1, <4>1, <4>2 DEF CallOK, TaskOK
    <3>2. CASE n # 0
      <4>1. wire'[<<c, 0>>] = wire[<<c, 0>>] /\ inferred'[c] = inferred[c]
        BY <1>1, <1>6, <1>7, <3>2, AttemptsAssumption DEF TypeOK
      <4> QED BY <1>1, <1>2, <2>8, <4>1 DEF CallOK, TaskOK
    <3> QED BY <3>1, <3>2
  <2> QED BY <2>1, <2>3, <2>4, <2>5, <2>6, <2>7 DEF CallOK
<1> QED BY <1>1, <1>8, <1>9, <1>11, <1>12, SameCall DEF IInv
-----------------------------------------------------------------------------
(* The theorems                                                            *)

LEMMA InitInv == Init => IInv
<1> SUFFICES ASSUME Init PROVE IInv
  OBVIOUS
<1> USE DEF Init, NoCall
<1>1. TypeOK
  <2>1. NoCall \in [op : Ops \cup {None}, attempt : 0..MaxAttempts,
                   pc : {"idle", "sent", "backoff", "done"},
                   answer : Errors \cup {"ok", "none", None}]
    BY AttemptsAssumption
  <2>2. call \in [Calls -> [op : Ops \cup {None}, attempt : 0..MaxAttempts,
                           pc : {"idle", "sent", "backoff", "done"},
                           answer : Errors \cup {"ok", "none", None}]]
    BY <2>1 DEF Init
  <2> QED BY <2>2 DEF TypeOK
<1>2. LifecycleOK
  BY DEF LifecycleOK, HandleIsOnClient
<1>3. ASSUME NEW c \in Calls PROVE CallOK(c)
  <2>1. call[c] = NoCall /\ task[c] = "none" /\ copies[c] = 0 /\ inferred[c] = 0
    OBVIOUS
  <2>2. \A n \in 0..MaxAttempts : wire[<<c, n>>] = "unsent"
    BY DEF Requests
  <2>3. None \notin Ingests \cup {"get", "delete"}
    BY NoneAssumption DEF Ops
  <2>4. wire[<<c, 0>>] = "unsent"
    BY <2>2, AttemptsAssumption
  <2>5. AttemptOK(c)
    BY <2>1 DEF AttemptOK
  <2>6. WireOK(c)
    BY <2>1, <2>2 DEF WireOK, Statuses
  <2>7. CopiesOK(c)
    BY <2>1, <2>3 DEF CopiesOK
  <2>8. GoneOK(c)
    BY <2>1, <2>3 DEF GoneOK
  <2>9. TaskOK(c)
    BY <2>1, <2>4 DEF TaskOK
  <2>10. Allowed(kind, call[c].op)
    BY <2>1, NoneAssumption DEF Allowed, Ops, Ingests
  <2> QED BY <2>5, <2>6, <2>7, <2>8, <2>9, <2>10 DEF CallOK
<1> QED BY <1>1, <1>2, <1>3 DEF IInv

LEMMA NextInv == IInv /\ [Next]_vars => IInv'
<1> SUFFICES ASSUME IInv, [Next]_vars PROVE IInv'
  OBVIOUS
<1>1. CASE Initialize \/ Close \/ CloseEnds \/ CloseIsCut
  BY <1>1, LifecycleStep
<1>2. CASE \E c \in Calls : (\E o \in Ops : Call(c, o)) \/ Loop(c) \/ Background(c)
  BY <1>2, AttemptStep, RespondStep, TransportFailsStep, BackgroundStep DEF Loop
<1>3. CASE \E r \in Requests : BackendAnswers(r)
  <2>1. PICK c \in Calls, n \in 0..MaxAttempts : BackendAnswers(<<c, n>>)
    BY <1>3 DEF Requests
  <2> QED BY <2>1, BackendStep
<1>4. CASE UNCHANGED vars
  <2> USE DEF vars, lifecycleVars, backendVars
  <2>1. TypeOK' /\ LifecycleOK'
    BY <1>4 DEF IInv, TypeOK, LifecycleOK, HandleIsOnClient
  <2>2. \A d \in Calls : Same(d)
    BY <1>4 DEF Same
  <2> QED BY <2>1, <2>2, SameCall DEF IInv
<1> QED BY <1>1, <1>2, <1>3, <1>4 DEF Next

\* The inductive invariant of a provider over HTTP: where each request is tells
\* what the backend may still do for its call.
\* What the requests on the wire may still do is bounded by where their calls are.
THEOREM Inductive == Spec => []IInv
BY InitInv, NextInv, PTL DEF Spec

\* Type correctness for any calls, attempts and httpx clients.
THEOREM TypeCorrect == Spec => []TypeOK
<1>1. IInv => TypeOK
  BY DEF IInv
<1> QED BY <1>1, Inductive, PTL

\* An ingest that returns was stored once, one that reports a rejection was not
\* stored, however often the caller retries it (core/retry.py around do_ingest).
THEOREM AnswerTellsCopiesHolds == Spec => []AnswerTellsCopies
<1>1. ASSUME IInv, NEW c \in Calls
      PROVE  /\ copies[c] <= 1
             /\ call[c].pc = "done" /\ call[c].op \in Ingests =>
                  /\ call[c].answer = "ok" => copies[c] = 1
                  /\ call[c].answer \in Rejections => copies[c] = 0
  <2>1. CopiesOK(c)
    BY <1>1 DEF IInv, CallOK
  <2>2. copies[c] <= 1
    BY <2>1 DEF CopiesOK
  <2> QED BY <2>1, <2>2 DEF CopiesOK
<1>2. IInv => AnswerTellsCopies
  BY <1>1 DEF AnswerTellsCopies
<1> QED BY <1>2, Inductive, PTL

\* A delete() that returns tells the memory is gone, and so does a get() that
\* returns None for a 404 (the 404 rules of http.py), whatever was lost or
\* retried before; a get() returns None otherwise only for a body that do_get()
\* takes for no memory.
THEOREM GoneMeansGoneHolds == Spec => []GoneMeansGone
<1>1. IInv => GoneMeansGone
  BY DEF IInv, CallOK, GoneOK, GoneMeansGone
<1> QED BY <1>1, Inductive, PTL

\* Deferred inference (do_ingest of the mem0 provider) follows an ingest that
\* the backend stored and answered, also if the answer could not be mapped, at
\* most once, in a task that is referenced while it runs.
THEOREM DeferredInferenceHolds == Spec => []DeferredInference
<1>1. ASSUME IInv, NEW c \in Calls
      PROVE  /\ task[c] \in {"created", "sent"} => c \in held
             /\ inferred[c] > 0 => ToldStored(c) /\ copies[c] = 1
             /\ inferred[c] <= 1
  <2>1. CallOK(c) /\ inferred[c] \in {0, 1}
    BY <1>1 DEF IInv, CallOK, TaskOK
  <2>2. inferred[c] > 0 => ToldStored(c) /\ call[c].op \in Ingests
    <3>1. inferred[c] > 0 => inferred[c] = 1
      BY <2>1
    <3>2. inferred[c] = 1 => ToldStored(c) /\ call[c].op = "deferred ingest"
      BY <2>1 DEF CallOK, TaskOK
    <3> QED BY <3>1, <3>2 DEF Ingests
  <2>3. inferred[c] > 0 => copies[c] = 1
    BY <2>1, <2>2 DEF CallOK, CopiesOK, ToldStored
  <2>4. task[c] \in {"created", "sent"} => c \in held
    BY <2>1 DEF CallOK, TaskOK
  <2>5. inferred[c] <= 1
    BY <2>1
  <2> QED BY <2>2, <2>3, <2>4, <2>5
<1>2. IInv => DeferredInference
  BY <1>1 DEF DeferredInference
<1> QED BY <1>2, Inductive, PTL

\* The handle of an atomicmemory provider never outlives the client it sends
\* through (initialize() and close() of the provider).
THEOREM HandleIsOnClientHolds == Spec => []HandleIsOnClient
<1>1. IInv => HandleIsOnClient
  BY DEF IInv, LifecycleOK
<1> QED BY <1>1, Inductive, PTL
=============================================================================
