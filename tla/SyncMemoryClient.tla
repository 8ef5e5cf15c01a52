------------------------- MODULE SyncMemoryClient -------------------------
(***************************************************************************)
(* MemoryClient (client/memory_client.py) over MemoryService               *)
(* (memory/service.py): initialize() and close() hold _init_lock, the      *)
(* operations read _initialized, _providers and _pipelines without it.     *)
(*                                                                         *)
(* An action is the code of one thread between two points where another    *)
(* thread can see a difference: the lock, a factory or provider call, an   *)
(* assignment to one of the three attributes.  Ctrl-C raises               *)
(* KeyboardInterrupt in the main thread at any of these points.            *)
(*                                                                         *)
(* The n-th entry of provider_configs is named n; the provider instance    *)
(* that run r of service.initialize() builds for it is <<r, n>>.           *)
(***************************************************************************)
EXTENDS Naturals

CONSTANTS Names,      \* positions of the configured providers
          Default,    \* position of the default provider
          Registries, \* what a registry may have factories for
          Runs,       \* identities of initialization runs (bounds their number)
          Threads,
          Main,       \* the thread that receives signals, or None
          None

ASSUME NamesAssumption == Names \subseteq Nat /\ Default \in Names
ASSUME RegistriesAssumption == Registries \subseteq SUBSET Names
ASSUME NoneAssumption == None \notin Names \cup Runs \cup Threads

VARIABLES lock,         \* the thread that holds _init_lock, or None
          initialized,  \* self._initialized
          initError,    \* self._init_error: the run whose exception it is, or None
          providers,    \* the run whose staged dict is self._providers, or None
          pipelines,    \* the same for self._pipelines
          inst,         \* what became of each provider instance
          outcome,      \* how each run ended
          thread,       \* what each thread is doing
          served,       \* history: the run that last set _initialized to True
          hit           \* history: runs hit by an interrupt while opening or closing

attributes == <<initialized, initError, providers, pipelines>>
history == <<served, hit>>
vars == <<lock, attributes, inst, outcome, thread, history>>

Starting == {"factory", "opening", "teardown", "setProviders", "setPipelines", "setFlag"}
Closing == {"closing", "clearProviders", "clearPipelines", "clearFlag"}
Operating == {"checked", "found", "using"}
ThreadPC == {"idle", "wantInit", "wantClose"} \cup Starting \cup Closing \cup Operating

Endings == {"failed", "interrupted"}

ThreadRecord == [pc: ThreadPC, run: Runs \cup {None}, cur: Names \cup {None},
                 left: SUBSET Names, why: Endings, pipe: Runs \cup {None}]

Idle == [pc |-> "idle", run |-> None, cur |-> None, left |-> {}, why |-> "failed", pipe |-> None]

Init ==
  /\ lock = None
  /\ initialized = FALSE /\ initError = None /\ providers = None /\ pipelines = None
  /\ inst = [r \in Runs |-> [n \in Names |-> "absent"]]
  /\ outcome = [r \in Runs |-> "unused"]
  /\ thread = [t \in Threads |-> Idle]
  /\ served = None /\ hit = {}

Staged(ins, r) == {n \in Names : ins[r][n] # "absent"}

\* n is the first of the names in S in the order of provider_configs.
First(n, S) == n \in S /\ \A m \in S : n <= m

Goto(t, pc) == thread' = [thread EXCEPT ![t].pc = pc]

\* The call is over and the with block releases the lock.
Release(t) == lock' = None /\ thread' = [thread EXCEPT ![t] = Idle]

-----------------------------------------------------------------------------
(* initialize() *)

\* A call takes the number of the run it may become; reg is its registry.
CallInitialize(t, r, reg) ==
  /\ thread[t].pc = "idle"
  /\ outcome[r] = "unused" /\ \A s \in Threads : thread[s].run # r
  /\ thread' = [thread EXCEPT ![t] = [Idle EXCEPT !.pc = "wantInit", !.run = r, !.left = reg]]
  /\ UNCHANGED <<lock, attributes, inst, outcome, history>>

\* The lock is acquired and there is nothing to do: initialized already, or the
\* recorded error is raised again.
InitializeAgain(t) ==
  /\ thread[t].pc = "wantInit" /\ lock = None
  /\ initialized \/ initError # None
  /\ thread' = [thread EXCEPT ![t] = Idle]
  /\ UNCHANGED <<lock, attributes, inst, outcome, history>>

\* Mutant of RunFails: only return and Exception release the lock.
RunFailsLocked(t, why) ==
  /\ lock' = IF why = "interrupted" THEN lock ELSE None
  /\ thread' = [thread EXCEPT ![t] = Idle]
  /\ outcome' = [outcome EXCEPT ![thread[t].run] = why]
  /\ initError' = IF why = "failed" THEN thread[t].run ELSE initError
  /\ UNCHANGED <<initialized, providers, pipelines, served>>

\* service.initialize() leaves with its exception: an Exception becomes sticky,
\* an interrupt does not.
RunFails(t, why) ==
  /\ Release(t)
  /\ outcome' = [outcome EXCEPT ![thread[t].run] = why]
  /\ initError' = IF why = "failed" THEN thread[t].run ELSE initError
  /\ UNCHANGED <<initialized, providers, pipelines, served>>

\* except BaseException: close what was staged, one provider after the other.
Unwind(t, ins, why) ==
  LET S == Staged(ins, thread[t].run)
  IN /\ inst' = ins
     /\ \/ S = {} /\ RunFails(t, why)
        \/ /\ \E n \in S :
                /\ First(n, S)
                /\ thread' = [thread EXCEPT ![t].pc = "teardown", ![t].cur = n,
                                            ![t].left = S \ {n}, ![t].why = why]
           /\ UNCHANGED <<lock, attributes, outcome, served>>

\* The rest of the for loop: call the next factory, or go on to commit, or find
\* that the default provider was never staged.
Proceed(t, ins) ==
  \/ /\ \E n \in thread[t].left :
          /\ First(n, thread[t].left)
          /\ thread' = [thread EXCEPT ![t].pc = "factory", ![t].cur = n,
                                      ![t].left = thread[t].left \ {n}]
     /\ inst' = ins
     /\ UNCHANGED <<attributes, outcome, served>>
  \/ /\ thread[t].left = {} /\ Default \in Staged(ins, thread[t].run)
     /\ Goto(t, "setProviders")
     /\ inst' = ins
     /\ UNCHANGED <<attributes, outcome, served>>

NoDefault(t, ins) == thread[t].left = {} /\ Default \notin Staged(ins, thread[t].run)

\* Mutant of StartInitialize: the flag and the error were read before the lock.
StartInitializeUnchecked(t) ==
  /\ thread[t].pc = "wantInit" /\ lock = None
  /\ lock' = t
  /\ Proceed(t, inst)
  /\ UNCHANGED hit

\* The lock is acquired and this call runs the initialization.
StartInitialize(t) ==
  /\ thread[t].pc = "wantInit" /\ lock = None
  /\ ~initialized /\ initError = None
  /\ \/ lock' = t /\ Proceed(t, inst)
     \/ NoDefault(t, inst) /\ RunFails(t, "failed") /\ UNCHANGED inst
  /\ UNCHANGED hit

\* Mutant of FactoryReturns: the provider is registered before its initialize().
FactoryRegisters(t) ==
  /\ thread[t].pc = "factory"
  /\ inst' = [inst EXCEPT ![thread[t].run][thread[t].cur] = "staged"]
  /\ providers' = thread[t].run
  /\ Goto(t, "opening")
  /\ UNCHANGED <<lock, initialized, initError, pipelines, outcome, history>>

FactoryReturns(t) ==
  /\ thread[t].pc = "factory"
  /\ inst' = [inst EXCEPT ![thread[t].run][thread[t].cur] = "staged"]
  /\ Goto(t, "opening")
  /\ UNCHANGED <<lock, attributes, outcome, history>>

FactoryRaises(t) == thread[t].pc = "factory" /\ Unwind(t, inst, "failed") /\ UNCHANGED hit

ProviderOpens(t) ==
  LET ins == [inst EXCEPT ![thread[t].run][thread[t].cur] = "open"]
  IN /\ thread[t].pc = "opening"
     /\ \/ Proceed(t, ins) /\ UNCHANGED lock
        \/ NoDefault(t, ins) /\ Unwind(t, ins, "failed")
     /\ UNCHANGED hit

ProviderOpenRaises(t) == thread[t].pc = "opening" /\ Unwind(t, inst, "failed") /\ UNCHANGED hit

\* Mutant of StagedCloses: an exception of a close() ends the teardown.
StagedClosesOnce(t) ==
  /\ thread[t].pc = "teardown"
  /\ inst' = [inst EXCEPT ![thread[t].run][thread[t].cur] = "closed"]
  /\ RunFails(t, thread[t].why)
  /\ UNCHANGED hit

\* close() of a staged provider ends; suppress(Exception) hides a failure.
StagedCloses(t) ==
  /\ thread[t].pc = "teardown"
  /\ inst' = [inst EXCEPT ![thread[t].run][thread[t].cur] = "closed"]
  /\ \/ /\ \E n \in thread[t].left :
             /\ First(n, thread[t].left)
             /\ thread' = [thread EXCEPT ![t].cur = n, ![t].left = thread[t].left \ {n}]
        /\ UNCHANGED <<lock, attributes, outcome, served>>
     \/ thread[t].left = {} /\ RunFails(t, thread[t].why)
  /\ UNCHANGED hit

\* The three assignments of a successful initialize(), each visible on its own.
SetProviders(t) ==
  /\ thread[t].pc = "setProviders"
  /\ providers' = thread[t].run
  /\ Goto(t, "setPipelines")
  /\ UNCHANGED <<lock, initialized, initError, pipelines, inst, outcome, history>>

\* Mutant of SetPipelines: the dict is updated, not replaced.
UpdatePipelines(t) ==
  /\ thread[t].pc = "setPipelines"
  /\ pipelines' = IF pipelines = None THEN thread[t].run ELSE pipelines
  /\ Goto(t, "setFlag")
  /\ UNCHANGED <<lock, initialized, initError, providers, inst, outcome, history>>

SetPipelines(t) ==
  /\ thread[t].pc = "setPipelines"
  /\ pipelines' = thread[t].run
  /\ Goto(t, "setFlag")
  /\ UNCHANGED <<lock, initialized, initError, providers, inst, outcome, history>>

SetFlag(t) ==
  /\ thread[t].pc = "setFlag"
  /\ initialized' = TRUE
  /\ outcome' = [outcome EXCEPT ![thread[t].run] = "ok"]
  /\ served' = thread[t].run
  /\ Release(t)
  /\ UNCHANGED <<initError, providers, pipelines, inst, hit>>

-----------------------------------------------------------------------------
(* close() *)

CallClose(t) ==
  /\ thread[t].pc = "idle"
  /\ Goto(t, "wantClose")
  /\ UNCHANGED <<lock, attributes, inst, outcome, history>>

CloseAgain(t) ==
  /\ thread[t].pc = "wantClose" /\ lock = None /\ ~initialized
  /\ thread' = [thread EXCEPT ![t] = Idle]
  /\ UNCHANGED <<lock, attributes, inst, outcome, history>>

\* The providers of the dict captured here are closed in order.
StartClose(t) ==
  /\ thread[t].pc = "wantClose" /\ lock = None /\ initialized
  /\ lock' = t
  /\ \/ \E n \in IF providers = None THEN {} ELSE Staged(inst, providers) :
          /\ First(n, Staged(inst, providers))
          /\ thread' = [thread EXCEPT ![t] =
                          [Idle EXCEPT !.pc = "closing", !.run = providers, !.cur = n,
                                       !.left = Staged(inst, providers) \ {n}]]
     \/ providers = None /\ Goto(t, "clearProviders")
  /\ UNCHANGED <<attributes, inst, outcome, history>>

\* provider.close() returned or raised (the first error is kept for the caller).
ProviderClosed(t) ==
  /\ thread[t].pc = "closing"
  /\ inst' = [inst EXCEPT ![thread[t].run][thread[t].cur] = "closed"]
  /\ \/ \E n \in thread[t].left :
          /\ First(n, thread[t].left)
          /\ thread' = [thread EXCEPT ![t].cur = n, ![t].left = thread[t].left \ {n}]
     \/ thread[t].left = {} /\ Goto(t, "clearProviders")
  /\ UNCHANGED <<lock, attributes, outcome, history>>

\* finally: the maps, then the flag of the client.
ClearProviders(t) ==
  /\ thread[t].pc = "clearProviders"
  /\ providers' = None
  /\ Goto(t, "clearPipelines")
  /\ UNCHANGED <<lock, initialized, initError, pipelines, inst, outcome, history>>

ClearPipelines(t) ==
  /\ thread[t].pc = "clearPipelines"
  /\ pipelines' = None
  /\ Goto(t, "clearFlag")
  /\ UNCHANGED <<lock, initialized, initError, providers, inst, outcome, history>>

ClearFlag(t) ==
  /\ thread[t].pc = "clearFlag"
  /\ initialized' = FALSE
  /\ Release(t)
  /\ UNCHANGED <<initError, providers, pipelines, inst, outcome, history>>

-----------------------------------------------------------------------------
(* Operations: _assert_initialized, get_provider, _pipeline, the provider *)

CheckInitialized(t) ==
  /\ thread[t].pc = "idle" /\ initialized
  /\ Goto(t, "checked")
  /\ UNCHANGED <<lock, attributes, inst, outcome, history>>

\* self._providers.get(name), or ConfigError when it is not there.
GetProvider(t, n) ==
  /\ thread[t].pc = "checked"
  /\ IF providers # None /\ n \in Staged(inst, providers)
       THEN thread' = [thread EXCEPT ![t].pc = "found", ![t].run = providers, ![t].cur = n]
       ELSE thread' = [thread EXCEPT ![t] = Idle]
  /\ UNCHANGED <<lock, attributes, inst, outcome, history>>

\* self._pipelines.get(name, NOOP_PIPELINE)
GetPipeline(t) ==
  /\ thread[t].pc = "found"
  /\ thread' = [thread EXCEPT ![t].pc = "using", ![t].pipe = pipelines]
  /\ UNCHANGED <<lock, attributes, inst, outcome, history>>

OperationEnds(t) ==
  /\ thread[t].pc = "using"
  /\ thread' = [thread EXCEPT ![t] = Idle]
  /\ UNCHANGED <<lock, attributes, inst, outcome, history>>

-----------------------------------------------------------------------------
(* KeyboardInterrupt: no except Exception of the code catches it *)

Hit(t) == hit' = hit \cup ({thread[t].run} \cap Runs)

\* Waiting for the lock, or in an operation: the call is abandoned.
InterruptOutside(t) ==
  /\ thread[t].pc \in {"wantInit", "wantClose"} \cup Operating
  /\ thread' = [thread EXCEPT ![t] = Idle]
  /\ UNCHANGED <<lock, attributes, inst, outcome, history>>

\* Inside the try of service.initialize(): the staged providers are closed.
InterruptOpening(t) ==
  /\ thread[t].pc \in {"factory", "opening"}
  /\ Unwind(t, inst, "interrupted")
  /\ Hit(t)

\* In the teardown, or past the try: the run ends where it is.
InterruptRun(t) ==
  /\ thread[t].pc \in {"teardown", "setProviders", "setPipelines", "setFlag"}
  /\ RunFails(t, "interrupted")
  /\ inst' = IF thread[t].pc = "teardown"
               THEN [inst EXCEPT ![thread[t].run][thread[t].cur] = "interrupted"] ELSE inst
  /\ Hit(t)

\* In the loop of service.close(), its finally clause, or the client's.
InterruptClose(t) ==
  /\ \/ /\ thread[t].pc = "closing"
        /\ inst' = [inst EXCEPT ![thread[t].run][thread[t].cur] = "interrupted"]
        /\ Goto(t, "clearProviders") /\ UNCHANGED lock
     \/ /\ thread[t].pc \in {"clearProviders", "clearPipelines"}
        /\ Goto(t, "clearFlag") /\ UNCHANGED <<inst, lock>>
     \/ /\ thread[t].pc = "clearFlag"
        /\ Release(t) /\ UNCHANGED inst
  /\ Hit(t)
  /\ UNCHANGED <<attributes, outcome, served>>

Interrupt(t) == InterruptOutside(t) \/ InterruptOpening(t) \/ InterruptRun(t) \/ InterruptClose(t)

-----------------------------------------------------------------------------

Call(t) ==
  \/ \E r \in Runs, reg \in Registries : CallInitialize(t, r, reg)
  \/ CallClose(t) \/ CheckInitialized(t)

Step(t) ==
  \/ InitializeAgain(t) \/ StartInitialize(t)
  \/ FactoryReturns(t) \/ FactoryRaises(t) \/ ProviderOpens(t) \/ ProviderOpenRaises(t)
  \/ StagedCloses(t) \/ SetProviders(t) \/ SetPipelines(t) \/ SetFlag(t)
  \/ CloseAgain(t) \/ StartClose(t) \/ ProviderClosed(t)
  \/ ClearProviders(t) \/ ClearPipelines(t) \/ ClearFlag(t)
  \/ \E n \in Names : GetProvider(t, n)
  \/ GetPipeline(t) \/ OperationEnds(t)

Next == (\E t \in Threads : Call(t) \/ Step(t)) \/ (\E t \in Threads \cap {Main} : Interrupt(t))

\* Every thread is scheduled, and the calls into factories and providers return
\* or raise.  Nobody is obliged to call anything; the number of runs is bounded,
\* so the lock is not handed around for ever.
Fairness == \A t \in Threads : WF_vars(Step(t))

Spec == Init /\ [][Next]_vars
FairSpec == Spec /\ Fairness

-----------------------------------------------------------------------------
(* Properties *)

\* Every variable keeps its type.
TypeOK ==
  /\ lock \in Threads \cup {None}
  /\ initialized \in BOOLEAN
  /\ {initError, providers, pipelines, served} \subseteq Runs \cup {None}
  /\ inst \in [Runs -> [Names -> {"absent", "staged", "open", "closed", "interrupted"}]]
  /\ outcome \in [Runs -> {"unused", "ok"} \cup Endings]
  /\ thread \in [Threads -> ThreadRecord]
  /\ hit \subseteq Runs

\* Unless Ctrl-C struck its close(), an initialized client that nobody is closing
\* has the providers and the pipelines of one and the same run, all opened, the
\* default among them: the three assignments of initialize() and of close(), made
\* one by one under the lock, never leave a mixture behind.
CommittedWhole ==
  initialized /\ served \notin hit /\ (\A t \in Threads : thread[t].pc \notin Closing) =>
    /\ providers = served /\ pipelines = served
    /\ inst[served][Default] = "open"
    /\ \A n \in Names : inst[served][n] \in {"absent", "open"}

\* Operations take no lock, and a stale _initialized may let them in while the
\* next run is being set up: still the provider they find has been through its
\* own initialize() in a run that staged the default provider too.
OperationsOnOpened ==
  \A t \in Threads : thread[t].pc \in {"found", "using"} =>
    /\ inst[thread[t].run][thread[t].cur] \notin {"absent", "staged"}
    /\ inst[thread[t].run][Default] \notin {"absent", "staged"}

\* A provider is open only while it serves, or while a thread in initialize() or
\* close() still has it in hand; only Ctrl-C in such a call leaks one.
NoProviderForgotten ==
  \A r \in Runs, n \in Names :
    inst[r][n] \in {"staged", "open"} /\ r \notin hit =>
      \/ initialized /\ providers = r
      \/ \E t \in Threads : thread[t].run = r /\ thread[t].pc \in Starting \cup Closing

Phase == IF initialized THEN "ready" ELSE IF initError # None THEN "failed" ELSE "fresh"
By == IF initialized THEN served ELSE initError

Contract == INSTANCE LifecycleContract WITH phase <- Phase, by <- By

\* The client implements the lifecycle contract step by step, whatever threads
\* overlap and wherever Ctrl-C strikes: no failed client comes back to life, no
\* second run replaces one that serves.
ImplementsContract == Contract!Spec

\* Every call returns, wherever Ctrl-C strikes, unless it is pressed for ever:
\* nobody is left waiting for the lock or a provider.
CallsReturn ==
  <>[][\A t \in Threads : ~Interrupt(t)]_vars =>
    \A t \in Threads : thread[t].pc # "idle" ~> thread[t].pc = "idle"
=============================================================================
