----------------------- MODULE AsyncSerialLifecycles -----------------------
(***************************************************************************)
(* AsyncMemoryClient whose callers keep its lifecycles apart: any number   *)
(* of tasks initialize, operate, close and are cancelled concurrently, but *)
(* an initialize() that starts a new run is called only while no other     *)
(* initialize() or close() is in progress.  Under this use the client      *)
(* keeps the lifecycle contract; AsyncMemoryClient without it does not.    *)
(***************************************************************************)
EXTENDS AsyncMemoryClient

VARIABLES closeSeen,  \* a close() has acted since the last run was started
          cutShort    \* runs whose providers were being closed by a cancelled close()

history == <<closeSeen, cutShort>>
serialVars == <<vars, history>>

SerialInit == Init /\ closeSeen = FALSE /\ cutShort = {}

Quiet == \A c \in Calls : call[c].pc \notin {"waiting", "joining", "closing"}

SerialNext ==
  \/ \E r \in Runs : RunInitialize(r) /\ UNCHANGED history
  \/ \E c \in Calls :
       \/ JoinInitialize(c) /\ UNCHANGED history
       \/ Resume(c) /\ UNCHANGED history
       \/ CancelWaiter(c) /\ UNCHANGED history
       \/ CancelJoiner(c) /\ UNCHANGED history
       \/ Close(c) /\ closeSeen' = TRUE /\ UNCHANGED cutShort
       \/ CancelCloser(c) /\ cutShort' = cutShort \cup {call[c].run} /\ UNCHANGED closeSeen
  \/ \E c \in Calls, n \in Names : Operate(c, n) /\ UNCHANGED history
  \/ \E c \in Calls, r \in Runs, reg \in Registries :
       Quiet /\ StartInitialize(c, r, reg) /\ closeSeen' = FALSE /\ UNCHANGED cutShort

SerialSpec == SerialInit /\ [][SerialNext]_serialVars

\* The fairness of AsyncMemoryClient, for steps of this specification.
FairSerialSpec ==
  /\ SerialSpec
  /\ \A r \in Runs : WF_serialVars(RunInitialize(r) /\ UNCHANGED history)
  /\ \A c \in Calls : WF_serialVars(Resume(c) /\ UNCHANGED history)

-----------------------------------------------------------------------------

\* The state of the contract this client state stands for.
Phase == IF initialized THEN "ready" ELSE IF initError # None THEN "failed" ELSE "fresh"
By == IF initialized THEN providers ELSE initError

Contract == INSTANCE LifecycleContract WITH phase <- Phase, by <- By

\* The client implements the lifecycle contract step by step: initialize() and
\* close() of AsyncMemoryClient look like single atomic operations.
ImplementsContract == Contract!Spec

\* Once every close() has returned, and until somebody calls initialize(), the
\* client is not initialized and no run is left that could initialize it.
EndsUninitialized ==
  closeSeen /\ (\A c \in Calls : call[c].pc \notin {"joining", "closing"}) =>
    ~initialized /\ \A r \in Runs : ~Pending(r)

\* A provider that was opened stays in service until it is closed; only a close()
\* that was itself cancelled forgets an open one.
NoProviderForgotten ==
  \A r \in Runs, n \in Names :
    Ended(r) /\ inst[r][n] = "open" /\ r \notin cutShort => providers = r
=============================================================================
