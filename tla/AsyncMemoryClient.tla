------------------------- MODULE AsyncMemoryClient -------------------------
(***************************************************************************)
(* AsyncMemoryClient (client/async_memory_client.py) over the service:     *)
(* initialize() shared by its callers through the _init_task slot, close() *)
(* that cancels a pending run, operations admitted by _assert_initialized. *)
(*                                                                         *)
(* Calls are the caller tasks of one event loop.  Each makes one call at a *)
(* time and may be cancelled (wait_for, Task.cancel) wherever it is        *)
(* suspended.  A call that returns or raises without suspending and        *)
(* without assigning anything is no step.                                  *)
(***************************************************************************)
EXTENDS AsyncMemoryService

CONSTANTS Calls, Registries

ASSUME RegistriesAssumption == Registries \subseteq SUBSET Names

VARIABLES initialized,  \* self._initialized
          initError,    \* self._init_error: the run whose exception it is, or None
          slot,         \* self._init_task
          call          \* what each caller is suspended in

clientVars == <<initialized, initError, slot>>
vars == <<run, inst, providers, initialized, initError, slot, call>>

\* "waiting": initialize() awaits shield(task).  "joining": close() awaits the run
\* it cancelled.  "closing": close() awaits provider.close().  "using": an
\* operation awaits its provider.
CallPC == {"idle", "waiting", "joining", "closing", "using"}

CallRecord == [pc: CallPC, run: Runs \cup {None}, cur: Names \cup {None}, left: SUBSET Names]

Returned == [pc |-> "idle", run |-> None, cur |-> None, left |-> {}]

Suspended(pc, r) == [pc |-> pc, run |-> r, cur |-> None, left |-> {}]

Init ==
  /\ ServiceInit
  /\ initialized = FALSE
  /\ initError = None
  /\ slot = None
  /\ call = [c \in Calls |-> Returned]

-----------------------------------------------------------------------------
(* The initialization run *)

\* Mutant of RunInitialize: cancellation is recorded like a failure.
RunInitializePoisons(r) ==
  /\ ServiceInitialize(r)
  /\ initialized' = (initialized \/ run'[r].pc = "ok")
  /\ initError' = IF run'[r].pc \in {"failed", "cancelled"} THEN r ELSE initError
  /\ UNCHANGED <<slot, call>>

\* _run_initialize around the service: an Exception becomes sticky, cancellation
\* does not, success sets the flag; all in the step in which the service returns.
RunInitialize(r) ==
  /\ ServiceInitialize(r)
  /\ initialized' = (initialized \/ run'[r].pc = "ok")
  /\ initError' = IF run'[r].pc = "failed" THEN r ELSE initError
  /\ UNCHANGED <<slot, call>>

\* Mutant of StartInitialize: the recorded error is not looked at.
StartInitializeRetries(c, r, reg) ==
  /\ call[c].pc = "idle" /\ ~initialized /\ slot = None
  /\ run[r].pc = "unused"
  /\ StartRun(r, reg)
  /\ slot' = r
  /\ call' = [call EXCEPT ![c] = Suspended("waiting", r)]
  /\ UNCHANGED <<inst, providers, initialized, initError>>

\* Mutant of StartInitialize: a task in the slot is not looked at.
StartInitializeAlways(c, r, reg) ==
  /\ call[c].pc = "idle" /\ ~initialized /\ initError = None
  /\ run[r].pc = "unused"
  /\ StartRun(r, reg)
  /\ slot' = r
  /\ call' = [call EXCEPT ![c] = Suspended("waiting", r)]
  /\ UNCHANGED <<inst, providers, initialized, initError>>

\* initialize() that finds no task: create one and wait for it.
StartInitialize(c, r, reg) ==
  /\ call[c].pc = "idle"
  /\ ~initialized /\ initError = None /\ slot = None
  /\ run[r].pc = "unused"
  /\ StartRun(r, reg)
  /\ slot' = r
  /\ call' = [call EXCEPT ![c] = Suspended("waiting", r)]
  /\ UNCHANGED <<inst, providers, initialized, initError>>

\* initialize() that finds a task: wait for it, or, when it is done already,
\* take its outcome at once and clear the slot.
JoinInitialize(c) ==
  /\ call[c].pc = "idle"
  /\ ~initialized /\ initError = None /\ slot # None
  /\ IF Ended(slot)
       THEN slot' = None /\ UNCHANGED call
       ELSE call' = [call EXCEPT ![c] = Suspended("waiting", slot)] /\ UNCHANGED slot
  /\ UNCHANGED <<run, inst, providers, initialized, initError>>

\* The finally clause of initialize(): the test is on the task this call waited
\* for, the assignment on whatever the slot holds now.
ReleaseSlot(r) == slot' = IF Ended(r) THEN None ELSE slot

\* The shared run has ended and its outcome reaches a waiter.
InitializeReturns(c) ==
  /\ call[c].pc = "waiting" /\ Ended(call[c].run)
  /\ ReleaseSlot(call[c].run)
  /\ call' = [call EXCEPT ![c] = Returned]
  /\ UNCHANGED <<run, inst, providers, initialized, initError>>

\* Mutant of CancelWaiter: the task is awaited without a shield.
CancelWaiterUnshielded(c) ==
  /\ call[c].pc = "waiting" /\ Pending(call[c].run)
  /\ CancelRun(call[c].run)
  /\ call' = [call EXCEPT ![c] = Returned]
  /\ UNCHANGED <<providers, initialized, initError, slot>>

\* A waiter is cancelled; the shield keeps the run going.
CancelWaiter(c) ==
  /\ call[c].pc = "waiting"
  /\ ReleaseSlot(call[c].run)
  /\ call' = [call EXCEPT ![c] = Returned]
  /\ UNCHANGED <<run, inst, providers, initialized, initError>>

-----------------------------------------------------------------------------
(* close() *)

\* The part of close() after the task is dealt with: nothing to do, or the first
\* provider.close().
CloseService(c) ==
  IF ~initialized
    THEN /\ call' = [call EXCEPT ![c] = Returned]
         /\ UNCHANGED inst
    ELSE \E n \in StagedIn(inst, providers) :
           /\ First(n, StagedIn(inst, providers))
           /\ call' = [call EXCEPT ![c] =
                         [pc |-> "closing", run |-> providers, cur |-> n,
                          left |-> StagedIn(inst, providers) \ {n}]]
           /\ CloseCalled(providers, n)

\* Mutant of CloseCancelsRun: the cancelled task is not waited for.
CloseAbandonsRun(c) ==
  /\ call[c].pc = "idle"
  /\ slot # None /\ Pending(slot)
  /\ CancelRun(slot)
  /\ slot' = None
  /\ UNCHANGED <<providers, initialized, initError, call>>

\* close() that finds a pending task cancels it and waits for its end.
CloseCancelsRun(c) ==
  /\ call[c].pc = "idle"
  /\ slot # None /\ Pending(slot)
  /\ CancelRun(slot)
  /\ call' = [call EXCEPT ![c] = Suspended("joining", slot)]
  /\ UNCHANGED <<providers, initialized, initError, slot>>

\* close() that finds no pending task.
CloseDirectly(c) ==
  /\ call[c].pc = "idle"
  /\ slot # None => Ended(slot)
  /\ slot # None \/ initialized
  /\ slot' = None
  /\ CloseService(c)
  /\ UNCHANGED <<run, providers, initialized, initError>>

\* The cancelled task is over; clear the slot and go on.
CloseJoined(c) ==
  /\ call[c].pc = "joining" /\ Ended(call[c].run)
  /\ slot' = None
  /\ CloseService(c)
  /\ UNCHANGED <<run, providers, initialized, initError>>

\* Cancelling a close() that awaits the run cancels the run again; suppress()
\* hides the CancelledError, and close() goes on when the run has ended.
CancelJoiner(c) ==
  /\ call[c].pc = "joining" /\ Pending(call[c].run)
  /\ CancelRun(call[c].run)
  /\ UNCHANGED <<providers, initialized, initError, slot, call>>

\* Mutant of CloseEnds: the flag is not reset.
CloseEndsInitialized(c) ==
  /\ ClearMaps
  /\ UNCHANGED initialized
  /\ call' = [call EXCEPT ![c] = Returned]

\* The end of close(), by return or by exception.
CloseEnds(c) ==
  /\ ClearMaps
  /\ initialized' = FALSE
  /\ call' = [call EXCEPT ![c] = Returned]

\* Mutant of ProviderClosed: the first close() that raises ends the loop.
ProviderClosedStops(c) ==
  /\ call[c].pc = "closing"
  /\ inst' = [inst EXCEPT ![call[c].run][call[c].cur] = "closed"]
  /\ CloseEnds(c)
  /\ UNCHANGED <<run, initError, slot>>

\* provider.close() returned or raised (the first error is kept for the caller):
\* go on to the next provider, or finish.
ProviderClosed(c) ==
  /\ call[c].pc = "closing"
  /\ \/ \E n \in call[c].left :
          /\ First(n, call[c].left)
          /\ call' = [call EXCEPT ![c] = [@ EXCEPT !.cur = n, !.left = call[c].left \ {n}]]
          /\ CloseCalledAfter(call[c].run, call[c].cur, n)
          /\ UNCHANGED <<providers, initialized>>
     \/ /\ call[c].left = {}
        /\ inst' = [inst EXCEPT ![call[c].run][call[c].cur] = "closed"]
        /\ CloseEnds(c)
  /\ UNCHANGED <<run, initError, slot>>

\* CancelledError is no Exception: the loop over the providers stops.
CancelCloser(c) ==
  /\ call[c].pc = "closing"
  /\ CloseCancelled(call[c].run, call[c].cur)
  /\ CloseEnds(c)
  /\ UNCHANGED <<run, initError, slot>>

-----------------------------------------------------------------------------
(* Operations *)

\* Mutant of Operate: a name without a provider is not refused.
OperateUnregistered(c, n) ==
  /\ call[c].pc = "idle"
  /\ initialized /\ providers # None
  /\ call' = [call EXCEPT ![c] = [Suspended("using", providers) EXCEPT !.cur = n]]
  /\ UNCHANGED <<run, inst, providers, initialized, initError, slot>>

\* ingest, search, get, ...: check the flag, look the provider up, await it.
Operate(c, n) ==
  /\ call[c].pc = "idle"
  /\ initialized
  /\ providers # None /\ n \in StagedIn(inst, providers)
  /\ call' = [call EXCEPT ![c] = [Suspended("using", providers) EXCEPT !.cur = n]]
  /\ UNCHANGED <<run, inst, providers, initialized, initError, slot>>

OperateEnds(c) ==
  /\ call[c].pc = "using"
  /\ call' = [call EXCEPT ![c] = Returned]
  /\ UNCHANGED <<run, inst, providers, initialized, initError, slot>>

-----------------------------------------------------------------------------

Initialize(c) == (\E r \in Runs, reg \in Registries : StartInitialize(c, r, reg)) \/ JoinInitialize(c)
Close(c) == CloseCancelsRun(c) \/ CloseDirectly(c)
Cancel(c) == CancelWaiter(c) \/ CancelJoiner(c) \/ CancelCloser(c)
Resume(c) == InitializeReturns(c) \/ CloseJoined(c) \/ ProviderClosed(c) \/ OperateEnds(c)

Next ==
  \/ \E r \in Runs : RunInitialize(r)
  \/ \E c \in Calls : Initialize(c) \/ Close(c) \/ Cancel(c) \/ Resume(c)
  \/ \E c \in Calls, n \in Names : Operate(c, n)

\* The event loop runs every coroutine that is ready, and every await on a
\* factory or provider returns or raises (the HTTP clients have timeouts).
\* Nobody is obliged to call or to cancel anything.
Fairness ==
  /\ \A r \in Runs : WF_vars(RunInitialize(r))
  /\ \A c \in Calls : WF_vars(Resume(c))

Spec == Init /\ [][Next]_vars
FairSpec == Spec /\ Fairness

-----------------------------------------------------------------------------
(* Properties *)

\* Every variable keeps its type.
TypeOK ==
  /\ run \in [Runs -> RunRecord]
  /\ inst \in [Runs -> [Names -> InstanceStates]]
  /\ providers \in Runs \cup {None}
  /\ initialized \in BOOLEAN
  /\ initError \in Runs \cup {None}
  /\ slot \in Runs \cup {None}
  /\ call \in [Calls -> CallRecord]

\* The client is initialized exactly when the service has providers, and those
\* are the complete set of one successful run, the default among them, each one
\* past its own initialize(): no step of a failing, cancelled or overlapping
\* initialize() or close() exposes a half-built set (service.initialize stages
\* and commits; service.close clears in the step that clears the flag).
CommittedWhole ==
  /\ initialized <=> providers # None
  /\ providers # None =>
       /\ run[providers].pc = "ok"
       /\ inst[providers][Default] # "absent"
       /\ \A n \in Names : inst[providers][n] # "staged"

\* A run that ended without success left no provider behind it open: each one it
\* had staged has been closed, unless a second cancellation struck during the
\* teardown; a run whose own failure is reported tore everything down.
TeardownComplete ==
  \A r \in Runs : run[r].pc \in {"failed", "cancelled"} =>
    \A n \in Names :
      inst[r][n] \in {"absent", "closed"} \cup (IF run[r].pc = "cancelled" THEN {"interrupted"} ELSE {})

\* An operation in progress was given a provider of a set that was committed
\* whole, whatever closed or replaced the set since.
OperationsOnCommitted ==
  \A c \in Calls : call[c].pc \in {"using", "closing"} =>
    /\ run[call[c].run].pc = "ok"
    /\ inst[call[c].run][call[c].cur] \notin {"absent", "staged"}

\* A failure is sticky: the recorded error is never cleared, and no run starts
\* after it is recorded.
StickyFailure ==
  [][initError # None =>
       /\ initError' # None
       /\ \A r \in Runs : run[r].pc = "unused" => run'[r].pc = "unused"]_vars

\* A run is cancelled by close() only: cancelling one waiter of initialize()
\* never cancels the run the others wait for, and never fails it.
CancelIsolation ==
  [][\A r \in Runs : (~run[r].cancel /\ run'[r].cancel) =>
       \E c \in Calls : call'[c].pc = "joining" /\ call'[c].run = r]_vars

\* Cancellation is never sticky: an error is recorded only by a run that failed
\* by itself, and the client's error is that run's.
ErrorIsARunsOwn == initError # None => run[initError].pc = "failed"

\* Every initialize() and close() call returns.
CallsReturn == \A c \in Calls : call[c].pc # "idle" ~> call[c].pc = "idle"

\* Concurrent calls share a single initialization run: two runs are never
\* pending together.
SharedRun == \A r, s \in Runs : Pending(r) /\ Pending(s) => r = s

\* Cancelling a pending run by close() tears its staged providers down: no
\* close() of a staged provider is cut short.
StagedTornDown ==
  \A r \in Runs : run[r].pc = "cancelled" => \A n \in Names : inst[r][n] # "interrupted"

\* close() takes out of service only the providers it was closing.
ClearsOnlyWhatItClosed ==
  [][\A c \in Calls : (call[c].pc = "closing" /\ call'[c].pc = "idle") => providers \in {None, call[c].run}]_vars
=============================================================================
