-------------------- MODULE AsyncSerialLifecyclesProofs --------------------
(***************************************************************************)
(* AsyncSerialLifecycles implements LifecycleContract, shares its runs and *)
(* forgets no provider, for any set of callers, runs and providers.  On    *)
(* top of the invariant of AsyncMemoryClient: while a run is pending it is *)
(* the one in the slot and the only business of every suspended lifecycle  *)
(* call, and a run that a close() has met can no longer succeed.           *)
(***************************************************************************)
EXTENDS AsyncSerialLifecycles, AsyncMemoryClientProofs

\* What every suspended lifecycle call is about while run r is pending.
SharedBy(r) ==
  /\ slot = r /\ ~initialized /\ initError = None
  /\ \A c \in Calls :
       /\ call[c].pc \in {"waiting", "joining"} => call[c].run = r
       /\ call[c].pc # "closing"

PendingAlone == \A r \in Runs : Pending(r) => SharedBy(r)

OneOutcome == initialized => initError = None

\* A run with this mark ends without success.
Doomed(r) == run[r].cancel \/ run[r].pc = "teardown"

SomeCall(pc) == \E c \in Calls : call[c].pc = pc

\* What a close() leaves to be done, a close() that has not returned is doing.
ClosedOK ==
  closeSeen =>
    /\ \A r \in Runs : Pending(r) => Doomed(r) /\ SomeCall("joining")
    /\ initialized => SomeCall("closing")

\* A close() has every open provider of its run before it, and nobody replaces the run.
ClosersOK ==
  \A c \in Calls : call[c].pc = "closing" =>
    /\ providers \in {call[c].run, None}
    /\ \A n \in Names : inst[call[c].run][n] = "open" => n \in call[c].left

SerialInv == IInv /\ PendingAlone /\ OneOutcome /\ ClosedOK /\ ClosersOK /\ NoProviderForgotten

-----------------------------------------------------------------------------
(* Facts the steps share *)

\* The new parts of the invariant after a step.
NewParts == PendingAlone /\ OneOutcome /\ ClosedOK /\ ClosersOK /\ NoProviderForgotten

LEMMA Types ==
  ASSUME SerialInv
  PROVE  /\ run \in [Runs -> RunRecord] /\ inst \in [Runs -> [Names -> InstanceStates]]
         /\ call \in [Calls -> CallRecord]
         /\ initialized \in BOOLEAN
         /\ initialized <=> providers # None
         /\ \A c \in Calls : CallOK(call[c])
BY DEF SerialInv, IInv, ServiceOK, ClientOK, ProvidersOK, CallsOK

\* A step of a doomed run does not make it succeed, and leaves it doomed.
LEMMA DoomedStep ==
  ASSUME ServiceOK, NEW r \in Runs, ServiceInitialize(r), Doomed(r)
  PROVE  run'[r].pc # "ok" /\ (Pending(r)' => Doomed(r)')
<1>0. run[r] \in RunRecord /\ r \in DOMAIN run
  BY DEF ServiceOK
<1>1. CASE CancelDelivered(r)
  <2>1. Unwind(r, inst, "cancelled")
    BY <1>1 DEF CancelDelivered
  <2>2. \/ run' = [run EXCEPT ![r] = [run[r] EXCEPT !.pc = "cancelled", !.cancel = FALSE]]
        \/ run' = [run EXCEPT ![r] = [run[r] EXCEPT !.pc = "teardown", !.cancel = FALSE, !.why = "cancelled"]]
    BY <2>1 DEF Unwind
  <2>3. run'[r].pc \in {"cancelled", "teardown"}
    BY <1>0, <2>2 DEF RunRecord
  <2>. QED BY <2>3 DEF Pending, Doomed
<1>2. CASE \E n \in Names : StagedCloses(r, n)
  BY <1>2 DEF StagedCloses, Doomed
<1>3. CASE TeardownEnds(r)
  <2>1. run[r].why \in {"failed", "cancelled"}
    BY <1>3 DEF TeardownEnds, ServiceOK, RunOK
  <2>2. run'[r].pc \in {"failed", "cancelled"}
    BY <1>0, <1>3, <2>1 DEF TeardownEnds, RunRecord
  <2>. QED BY <2>2 DEF Pending
<1>. QED BY <1>1, <1>2, <1>3
     DEF ServiceInitialize, Begin, FactoryReturns, FactoryRaises, ProviderOpens, ProviderOpenRaises, Doomed

-----------------------------------------------------------------------------
(* Steps *)

\* The pending run goes on or ends; nobody is in close() but to wait for it.
LEMMA RunSerial ==
  ASSUME SerialInv, NEW r \in Runs, RunInitialize(r), UNCHANGED history
  PROVE  NewParts'
<1>1. Pending(r) /\ SharedBy(r) /\ StepOf(r) /\ ServiceOK'
  BY ServiceStep DEF RunInitialize, SerialInv, IInv, PendingAlone
<1>2. /\ call' = call /\ slot' = slot /\ closeSeen' = closeSeen /\ cutShort' = cutShort
      /\ initialized' = (initialized \/ run'[r].pc = "ok")
      /\ initError' = IF run'[r].pc = "failed" THEN r ELSE initError
  BY DEF RunInitialize, history
<1>3. providers = None /\ r # None
  BY <1>1, Types, NoneAssumption DEF SharedBy
<1>4. \A s \in Runs \ {r} : ~Pending(s) /\ run'[s] = run[s] /\ inst'[s] = inst[s]
  BY <1>1 DEF SerialInv, PendingAlone, SharedBy, StepOf
<1>5. PendingAlone'
  <2> SUFFICES ASSUME NEW s \in Runs, Pending(s)' PROVE SharedBy(s)'
    BY DEF PendingAlone
  <2>1. s = r
    BY <1>4 DEF Pending
  <2>2. run'[r].pc \notin {"ok", "failed"}
    BY <2>1 DEF Pending
  <2>. QED BY <1>1, <1>2, <2>1, <2>2 DEF SharedBy
<1>6. OneOutcome'
  BY <1>1, <1>2 DEF OneOutcome, SharedBy
<1>7. ClosedOK'
  <2> SUFFICES ASSUME closeSeen
               PROVE  /\ \A s \in Runs : Pending(s)' => Doomed(s)' /\ SomeCall("joining")'
                      /\ initialized' => SomeCall("closing")'
    BY <1>2 DEF ClosedOK
  <2>1. Doomed(r) /\ SomeCall("joining")
    BY <1>1 DEF SerialInv, ClosedOK
  <2>2. run'[r].pc # "ok" /\ (Pending(r)' => Doomed(r)')
    BY <2>1, DoomedStep DEF SerialInv, IInv, RunInitialize
  <2>3. SomeCall("joining")'
    BY <1>2, <2>1 DEF SomeCall
  <2>4. \A s \in Runs \ {r} : ~Pending(s)'
    BY <1>4 DEF Pending
  <2>5. ~initialized'
    BY <1>1, <1>2, <2>2 DEF SharedBy
  <2>. QED BY <2>2, <2>3, <2>4, <2>5
<1>8. ClosersOK'
  BY <1>1, <1>2 DEF ClosersOK, SharedBy
<1>9. NoProviderForgotten'
  <2> SUFFICES ASSUME NEW s \in Runs, NEW n \in Names,
                      Ended(s)', inst'[s][n] = "open", s \notin cutShort
               PROVE  providers' = s
    BY <1>2 DEF NoProviderForgotten
  <2>1. CASE s # r
    <3>1. providers = s
      BY <1>4, <2>1 DEF Ended, SerialInv, NoProviderForgotten
    <3>. QED BY <1>3, <3>1, NoneAssumption
  <2>2. CASE s = r
    <3>1. inst'[r][n] \in Allowed(run'[r], n)
      BY <1>1, <2>2 DEF ServiceOK, RunOK, Allowed
    <3>2. run'[r].pc = "ok"
      BY <2>2, <3>1 DEF Ended, Outcomes, Allowed
    <3>. QED BY <1>1, <2>2, <3>2 DEF StepOf
  <2>. QED BY <2>1, <2>2
<1>. QED BY <1>5, <1>6, <1>7, <1>8, <1>9 DEF NewParts

\* A new run, with nobody else in a lifecycle call.
LEMMA StartSerial ==
  ASSUME SerialInv, NEW c \in Calls, NEW r \in Runs, NEW reg \in Registries,
         Quiet, StartInitialize(c, r, reg), closeSeen' = FALSE, UNCHANGED cutShort
  PROVE  NewParts'
<1>1. /\ run[r].pc = "unused" /\ slot = None /\ ~initialized /\ initError = None
      /\ inst' = inst /\ providers' = providers /\ slot' = r
      /\ initialized' = initialized /\ initError' = initError
      /\ call' = [call EXCEPT ![c] = Suspended("waiting", r)]
      /\ \A s \in Runs \ {r} : run'[s] = run[s]
      /\ run'[r].pc = "new"
  BY Types DEF StartInitialize, StartRun
<1>2. \A s \in Runs : ~Pending(s)
  BY <1>1, NoneAssumption DEF SerialInv, PendingAlone, SharedBy
<1>3. /\ call'[c] = Suspended("waiting", r)
      /\ \A d \in Calls \ {c} : call'[d] = call[d] /\ call[d].pc \notin {"waiting", "joining", "closing"}
  BY <1>1, Types DEF Quiet
<1>4. PendingAlone'
  <2> SUFFICES ASSUME NEW s \in Runs, Pending(s)' PROVE SharedBy(s)'
    BY DEF PendingAlone
  <2>1. s = r
    BY <1>1, <1>2 DEF Pending
  <2>. QED BY <1>1, <1>3, <2>1 DEF SharedBy, Suspended
<1>5. OneOutcome' /\ ClosedOK'
  BY <1>1 DEF OneOutcome, ClosedOK
<1>6. ClosersOK'
  BY <1>3 DEF ClosersOK, Suspended
<1>7. NoProviderForgotten'
  BY <1>1 DEF SerialInv, NoProviderForgotten, Ended, Outcomes
<1>. QED BY <1>4, <1>5, <1>6, <1>7 DEF NewParts

\* Steps that change only the slot and the caller's own state.
LEMMA WaiterSerial ==
  ASSUME SerialInv, NEW c \in Calls, UNCHANGED history,
         JoinInitialize(c) \/ InitializeReturns(c) \/ CancelWaiter(c) \/ OperateEnds(c)
         \/ \E n \in Names : Operate(c, n)
  PROVE  NewParts'
<1>1. /\ run' = run /\ inst' = inst /\ providers' = providers
      /\ initialized' = initialized /\ initError' = initError
      /\ closeSeen' = closeSeen /\ cutShort' = cutShort
  BY DEF JoinInitialize, InitializeReturns, CancelWaiter, OperateEnds, Operate, history
<1>2. /\ call[c].pc \in {"idle", "waiting", "using"}
      /\ \A d \in Calls \ {c} : call'[d] = call[d]
      /\ \/ call'[c] = call[c]
         \/ call'[c].pc \in {"idle", "using"}
         \/ call'[c] = Suspended("waiting", slot)
  <2>0. call \in [Calls -> CallRecord]
    BY Types
  <2>1. CASE JoinInitialize(c)
    BY <2>0, <2>1 DEF JoinInitialize
  <2>2. CASE InitializeReturns(c) \/ CancelWaiter(c) \/ OperateEnds(c)
    BY <2>0, <2>2 DEF InitializeReturns, CancelWaiter, OperateEnds, Returned
  <2>3. CASE \E n \in Names : Operate(c, n)
    <3>1. PICK n \in Names : Operate(c, n)
      BY <2>3
    <3>2. [Suspended("using", providers) EXCEPT !.cur = n].pc = "using"
      BY DEF Suspended
    <3>. QED BY <2>0, <3>1, <3>2 DEF Operate
  <2>. QED BY <2>1, <2>2, <2>3
<1>3. ASSUME NEW r \in Runs, Pending(r) PROVE slot' = r
  <2>1. SharedBy(r) /\ ~Ended(r)
    BY <1>3 DEF SerialInv, PendingAlone, Pending, Ended, Outcomes
  <2>2. CASE JoinInitialize(c)
    BY <2>1, <2>2 DEF JoinInitialize, SharedBy
  <2>3. CASE InitializeReturns(c) \/ CancelWaiter(c)
    <3>1. call[c].run = r
      BY <2>1, <2>3 DEF SharedBy, InitializeReturns, CancelWaiter
    <3>. QED BY <2>1, <2>3, <3>1 DEF SharedBy, InitializeReturns, CancelWaiter, ReleaseSlot
  <2>4. CASE OperateEnds(c) \/ \E n \in Names : Operate(c, n)
    BY <2>1, <2>4 DEF SharedBy, OperateEnds, Operate
  <2>. QED BY <2>2, <2>3, <2>4
<1>4. PendingAlone'
  <2> SUFFICES ASSUME NEW r \in Runs, Pending(r) PROVE SharedBy(r)'
    BY <1>1 DEF PendingAlone, Pending
  <2>1. SharedBy(r) /\ slot' = r
    BY <1>3 DEF SerialInv, PendingAlone
  <2>2. ASSUME NEW d \in Calls
        PROVE  /\ call'[d].pc \in {"waiting", "joining"} => call'[d].run = r
               /\ call'[d].pc # "closing"
    BY <1>2, <2>1 DEF SharedBy, Suspended
  <2>. QED BY <1>1, <2>1, <2>2 DEF SharedBy
<1>5. OneOutcome'
  BY <1>1 DEF SerialInv, OneOutcome
<1>6. ClosedOK'
  <2>1. \A pc \in {"joining", "closing"} : SomeCall(pc) => SomeCall(pc)'
    BY <1>2 DEF SomeCall
  <2>. QED BY <1>1, <2>1 DEF SerialInv, ClosedOK, Pending, Doomed
<1>7. ClosersOK'
  BY <1>1, <1>2 DEF SerialInv, ClosersOK, Suspended
<1>8. NoProviderForgotten'
  BY <1>1 DEF SerialInv, NoProviderForgotten, Ended
<1>. QED BY <1>4, <1>5, <1>6, <1>7, <1>8 DEF NewParts

\* The cancellation of the pending run, by close() or by who cancels a close().
LEMMA CancelSerial ==
  ASSUME SerialInv, NEW c \in Calls, UNCHANGED cutShort,
         \/ CloseCancelsRun(c) /\ closeSeen' = TRUE
         \/ CancelJoiner(c) /\ closeSeen' = closeSeen
  PROVE  NewParts'
<1>1. PICK r \in Runs :
        /\ Pending(r) /\ CancelRun(r)
        /\ providers' = providers /\ initialized' = initialized /\ initError' = initError /\ slot' = slot
        /\ \/ call' = call /\ call[c].pc = "joining"
           \/ call' = [call EXCEPT ![c] = Suspended("joining", r)]
  <2>1. CASE CloseCancelsRun(c)
    BY <2>1 DEF CloseCancelsRun, SerialInv, IInv, ClientOK
  <2>2. CASE CancelJoiner(c)
    BY <2>2, Types DEF CancelJoiner, CallOK
  <2>. QED BY <2>1, <2>2
<1>2. SharedBy(r)
  BY <1>1 DEF SerialInv, PendingAlone
<1>3. \A s \in Runs \ {r} : ~Pending(s) /\ run'[s] = run[s] /\ inst'[s] = inst[s]
  BY <1>1, <1>2, Types DEF CancelRun, SerialInv, PendingAlone, SharedBy
<1>4. run'[r].cancel = TRUE /\ run'[r].pc = run[r].pc
  <2>1. run' = [run EXCEPT ![r] = [run[r] EXCEPT !.cancel = TRUE]] /\ run[r] \in RunRecord
    BY <1>1, Types DEF CancelRun
  <2>. QED BY <2>1, Types DEF RunRecord
<1>5. /\ call'[c].pc = "joining"
      /\ \A d \in Calls : call'[d] = call[d] \/ call'[d] = Suspended("joining", r)
  <2>0. call \in [Calls -> CallRecord]
    BY Types
  <2>1. CASE call' = call /\ call[c].pc = "joining"
    BY <2>1
  <2>2. CASE call' = [call EXCEPT ![c] = Suspended("joining", r)]
    BY <2>0, <2>2 DEF Suspended
  <2>. QED BY <1>1, <2>1, <2>2
<1>6. PendingAlone'
  <2> SUFFICES ASSUME NEW s \in Runs, Pending(s)' PROVE SharedBy(s)'
    BY DEF PendingAlone
  <2>1. s = r
    BY <1>3 DEF Pending
  <2>. QED BY <1>1, <1>2, <1>5, <2>1 DEF SharedBy, Suspended
<1>7. OneOutcome'
  BY <1>1 DEF SerialInv, OneOutcome
<1>8. ClosedOK'
  <2>1. ~initialized'
    BY <1>1, <1>2 DEF SharedBy
  <2>2. SomeCall("joining")' /\ Doomed(r)'
    BY <1>4, <1>5 DEF SomeCall, Doomed
  <2>3. \A s \in Runs : Pending(s)' => s = r
    BY <1>3 DEF Pending
  <2>. QED BY <2>1, <2>2, <2>3 DEF ClosedOK
<1>9. ClosersOK'
  BY <1>2, <1>5 DEF SharedBy, ClosersOK, Suspended
<1>10. NoProviderForgotten'
  <2> SUFFICES ASSUME NEW s \in Runs, NEW n \in Names,
                      Ended(s)', inst'[s][n] = "open", s \notin cutShort
               PROVE  providers' = s
    BY DEF NoProviderForgotten
  <2>1. s # r
    BY <1>1, <1>4 DEF Pending, Ended, Outcomes
  <2>. QED BY <1>1, <1>3, <2>1 DEF SerialInv, NoProviderForgotten, Ended
<1>. QED BY <1>6, <1>7, <1>8, <1>9, <1>10 DEF NewParts

\* close() is past the run: its first provider.close(), or its return.
LEMMA CloseServiceSerial ==
  ASSUME SerialInv, NEW c \in Calls, UNCHANGED cutShort, CloseDirectly(c) \/ CloseJoined(c)
  PROVE  NewParts'
<1>1. /\ CloseService(c) /\ run' = run /\ providers' = providers
      /\ initialized' = initialized /\ initError' = initError
  BY DEF CloseDirectly, CloseJoined
<1>2. \A r \in Runs : ~Pending(r)
  <2> SUFFICES ASSUME NEW r \in Runs, Pending(r) PROVE FALSE
    OBVIOUS
  <2>1. SharedBy(r) /\ ~Ended(r)
    BY DEF SerialInv, PendingAlone, Pending, Ended, Outcomes
  <2>2. slot = r /\ r # None
    BY <2>1, NoneAssumption DEF SharedBy
  <2>. QED BY <2>1, <2>2 DEF SharedBy, CloseDirectly, CloseJoined
<1>3. PendingAlone' /\ OneOutcome'
  BY <1>1, <1>2 DEF SerialInv, PendingAlone, OneOutcome, Pending
<1>4. CASE ~initialized
  <2>1. inst' = inst /\ call' = [call EXCEPT ![c] = Returned]
    BY <1>1, <1>4 DEF CloseService
  <2>2. call'[c].pc = "idle" /\ \A d \in Calls \ {c} : call'[d] = call[d]
    BY <2>1, Types DEF Returned
  <2>3. ClosedOK'
    BY <1>1, <1>2, <1>4 DEF ClosedOK, Pending
  <2>4. ClosersOK' /\ NoProviderForgotten'
    BY <1>1, <2>1, <2>2 DEF SerialInv, ClosersOK, NoProviderForgotten, Ended
  <2>. QED BY <1>3, <2>3, <2>4 DEF NewParts
<1>5. CASE initialized
  <2>1. PICK n \in StagedIn(inst, providers) :
           /\ call' = [call EXCEPT ![c] =
                         [pc |-> "closing", run |-> providers, cur |-> n,
                          left |-> StagedIn(inst, providers) \ {n}]]
           /\ CloseCalled(providers, n)
    BY <1>1, <1>5 DEF CloseService
  <2>2. /\ call'[c] = [pc |-> "closing", run |-> providers, cur |-> n,
                       left |-> StagedIn(inst, providers) \ {n}]
        /\ \A d \in Calls \ {c} : call'[d] = call[d]
    BY <2>1, Types
  <2>3. n \in Names /\ providers \in Runs
    BY <1>5, <2>1 DEF StagedIn, SerialInv, IInv, ProvidersOK, ServiceOK
  <2>4. /\ \A s \in Runs, m \in Names : inst'[s][m] = "open" => inst[s][m] = "open"
        /\ inst'[providers][n] # "open"
    BY <2>1, <2>3, Types DEF CloseCalled
  <2>5. ClosedOK'
    BY <1>1, <1>2, <2>2 DEF ClosedOK, Pending, SomeCall
  <2>6. ClosersOK'
    <3> SUFFICES ASSUME NEW d \in Calls, call'[d].pc = "closing"
                 PROVE  /\ providers \in {call'[d].run, None}
                        /\ \A m \in Names : inst'[call'[d].run][m] = "open" => m \in call'[d].left
      BY <1>1 DEF ClosersOK
    <3>1. CASE d = c
      <4>1. \A m \in Names : inst'[providers][m] = "open" => m \in StagedIn(inst, providers) \ {n}
        BY <2>3, <2>4 DEF StagedIn
      <4>. QED BY <2>2, <3>1, <4>1
    <3>2. CASE d # c
      <4>1. call'[d] = call[d] /\ call[d].run \in Runs
        BY <2>2, <3>2, Types DEF CallOK
      <4>. QED BY <2>4, <4>1 DEF SerialInv, ClosersOK
    <3>. QED BY <3>1, <3>2
  <2>7. NoProviderForgotten'
    BY <1>1, <2>4 DEF SerialInv, NoProviderForgotten, Ended
  <2>. QED BY <1>3, <2>5, <2>6, <2>7 DEF NewParts
<1>. QED BY <1>4, <1>5

\* provider.close() ended or was cancelled: the next one, or the end of close().
LEMMA CloserSerial ==
  ASSUME SerialInv, NEW c \in Calls,
         \/ ProviderClosed(c) /\ UNCHANGED history
         \/ CancelCloser(c) /\ cutShort' = cutShort \cup {call[c].run} /\ UNCHANGED closeSeen
  PROVE  NewParts'
<1> DEFINE r == call[c].run
           m == call[c].cur
<1>1. /\ run' = run /\ initError' = initError
      /\ closeSeen' = closeSeen /\ cutShort \subseteq cutShort'
      /\ call[c].pc = "closing"
  BY DEF ProviderClosed, CancelCloser, history
<1>2. \A s \in Runs : ~Pending(s)
  BY <1>1 DEF SerialInv, PendingAlone, SharedBy
<1>3. /\ r \in Runs /\ m \in Names
      /\ providers \in {r, None}
      /\ \A n \in Names : inst[r][n] = "open" => n \in call[c].left
      /\ call[c].left \subseteq Names
  BY <1>1, Types DEF CallOK, CallRecord, SerialInv, ClosersOK
<1>4. \A s \in Runs, n \in Names : inst'[s][n] = "open" => inst[s][n] = "open"
  <2>1. CASE \E n \in call[c].left : CloseCalledAfter(r, m, n)
    BY <1>3, <2>1, Types DEF CloseCalledAfter
  <2>2. CASE inst' = [inst EXCEPT ![r][m] = "closed"]
    BY <1>3, <2>2, Types
  <2>3. CASE CloseCancelled(r, m)
    BY <1>3, <2>3, Types DEF CloseCancelled
  <2>. QED BY <2>1, <2>2, <2>3 DEF ProviderClosed, CancelCloser
<1>5. PendingAlone'
  BY <1>1, <1>2 DEF PendingAlone, Pending
<1>6. ASSUME NEW n \in call[c].left,
             call' = [call EXCEPT ![c] = [call[c] EXCEPT !.cur = n, !.left = call[c].left \ {n}]],
             CloseCalledAfter(r, m, n), providers' = providers, initialized' = initialized,
             cutShort' = cutShort
      PROVE  NewParts'
  <2>1. /\ call'[c].pc = "closing" /\ call'[c].run = r /\ call'[c].left = call[c].left \ {n}
        /\ \A d \in Calls \ {c} : call'[d] = call[d]
    BY <1>1, <1>6, Types DEF CallRecord
  <2>2. inst'[r][n] # "open"
    BY <1>3, <1>6, Types DEF CloseCalledAfter
  <2>3. OneOutcome' /\ ClosedOK'
    BY <1>1, <1>2, <1>6, <2>1 DEF SerialInv, OneOutcome, ClosedOK, Pending, SomeCall
  <2>4. ClosersOK'
    <3> SUFFICES ASSUME NEW d \in Calls, call'[d].pc = "closing"
                 PROVE  /\ providers \in {call'[d].run, None}
                        /\ \A k \in Names : inst'[call'[d].run][k] = "open" => k \in call'[d].left
      BY <1>6 DEF ClosersOK
    <3>1. CASE d = c
      BY <1>3, <1>4, <2>1, <2>2, <3>1
    <3>2. CASE d # c
      <4>1. call'[d] = call[d] /\ call[d].run \in Runs
        BY <2>1, <3>2, Types DEF CallOK
      <4>. QED BY <1>4, <4>1 DEF SerialInv, ClosersOK
    <3>. QED BY <3>1, <3>2
  <2>5. NoProviderForgotten'
    BY <1>1, <1>4, <1>6 DEF SerialInv, NoProviderForgotten, Ended
  <2>. QED BY <1>5, <2>3, <2>4, <2>5 DEF NewParts
<1>7. ASSUME CloseEnds(c), call[c].left = {} \/ r \in cutShort'
      PROVE  NewParts'
  <2>1. /\ providers' = None /\ initialized' = FALSE
        /\ call'[c].pc = "idle" /\ \A d \in Calls \ {c} : call'[d] = call[d]
    BY <1>7, Types DEF CloseEnds, ClearMaps, Returned
  <2>2. OneOutcome' /\ ClosedOK'
    BY <1>1, <1>2, <2>1 DEF OneOutcome, ClosedOK, Pending
  <2>3. ClosersOK'
    <3> SUFFICES ASSUME NEW d \in Calls, call'[d].pc = "closing"
                 PROVE  \A k \in Names : inst'[call'[d].run][k] = "open" => k \in call'[d].left
      BY <2>1 DEF ClosersOK
    <3>1. call'[d] = call[d] /\ call[d].run \in Runs
      BY <2>1, Types DEF CallOK
    <3>. QED BY <1>4, <3>1 DEF SerialInv, ClosersOK
  <2>4. NoProviderForgotten'
    <3> SUFFICES ASSUME NEW s \in Runs, NEW n \in Names,
                        Ended(s)', inst'[s][n] = "open", s \notin cutShort'
                 PROVE  FALSE
      BY DEF NoProviderForgotten
    <3>1. inst[s][n] = "open" /\ Ended(s) /\ s \notin cutShort
      BY <1>1, <1>4 DEF Ended
    <3>2. providers = s
      BY <3>1 DEF SerialInv, NoProviderForgotten
    <3>3. s = r
      BY <1>3, <3>2, NoneAssumption
    <3>. QED BY <1>3, <1>7, <3>1, <3>3
  <2>. QED BY <1>5, <2>2, <2>3, <2>4 DEF NewParts
<1>8. CASE ProviderClosed(c) /\ UNCHANGED history
  BY <1>6, <1>7, <1>8 DEF ProviderClosed, history
<1>9. CASE CancelCloser(c) /\ cutShort' = cutShort \cup {r}
  BY <1>7, <1>9 DEF CancelCloser
<1>. QED BY <1>8, <1>9

-----------------------------------------------------------------------------
(* The theorems *)

LEMMA SerialInitInv == SerialInit => SerialInv
<1> SUFFICES ASSUME SerialInit PROVE SerialInv
  OBVIOUS
<1>1. IInv
  BY InitInv DEF SerialInit
<1>2. PendingAlone /\ OneOutcome /\ ClosedOK
  BY DEF SerialInit, Init, ServiceInit, Idle, PendingAlone, Pending, OneOutcome, ClosedOK
<1>3. ClosersOK /\ NoProviderForgotten
  BY DEF SerialInit, Init, ServiceInit, Idle, Returned, ClosersOK, NoProviderForgotten, Ended, Outcomes
<1>. QED BY <1>1, <1>2, <1>3 DEF SerialInv

\* The steps are those of AsyncMemoryClient, some of them under a condition.
LEMMA SerialStep == [SerialNext]_serialVars => [Next]_vars
BY DEF SerialNext, Next, Initialize, Cancel, serialVars

LEMMA SerialNextInv == SerialInv /\ [SerialNext]_serialVars => SerialInv'
<1> SUFFICES ASSUME SerialInv, [SerialNext]_serialVars PROVE SerialInv'
  OBVIOUS
<1>0. IInv'
  BY SerialStep, NextInv DEF SerialInv
<1>1. ASSUME NEW r \in Runs, RunInitialize(r), UNCHANGED history PROVE NewParts'
  BY <1>1, RunSerial
<1>2. ASSUME NEW c \in Calls, JoinInitialize(c) \/ CancelWaiter(c), UNCHANGED history PROVE NewParts'
  BY <1>2, WaiterSerial
<1>3. ASSUME NEW c \in Calls, Resume(c), UNCHANGED history PROVE NewParts'
  BY <1>3, WaiterSerial, CloseServiceSerial, CloserSerial DEF Resume, history
<1>4. ASSUME NEW c \in Calls, CancelJoiner(c), UNCHANGED history PROVE NewParts'
  BY <1>4, CancelSerial DEF history
<1>5. ASSUME NEW c \in Calls, Close(c), closeSeen' = TRUE, UNCHANGED cutShort PROVE NewParts'
  BY <1>5, CancelSerial, CloseServiceSerial DEF Close
<1>6. ASSUME NEW c \in Calls, CancelCloser(c),
             cutShort' = cutShort \cup {call[c].run}, UNCHANGED closeSeen
      PROVE  NewParts'
  BY <1>6, CloserSerial
<1>7. ASSUME NEW c \in Calls, NEW n \in Names, Operate(c, n), UNCHANGED history PROVE NewParts'
  BY <1>7, WaiterSerial
<1>8. ASSUME NEW c \in Calls, NEW r \in Runs, NEW reg \in Registries,
             Quiet, StartInitialize(c, r, reg), closeSeen' = FALSE, UNCHANGED cutShort
      PROVE  NewParts'
  BY <1>8, StartSerial
<1>9. ASSUME UNCHANGED serialVars PROVE NewParts'
  <2>1. UNCHANGED <<vars, closeSeen, cutShort>>
    BY <1>9 DEF serialVars, history
  <2>2. PendingAlone' /\ OneOutcome'
    BY <2>1 DEF vars, SerialInv, PendingAlone, SharedBy, Pending, OneOutcome
  <2>3. ClosedOK' /\ ClosersOK'
    BY <2>1 DEF vars, SerialInv, ClosedOK, Pending, Doomed, SomeCall, ClosersOK
  <2>4. NoProviderForgotten'
    BY <2>1 DEF vars, SerialInv, NoProviderForgotten, Ended
  <2>. QED BY <2>2, <2>3, <2>4 DEF NewParts
<1>10. NewParts'
  <2>1. CASE \E c \in Calls :
          \/ JoinInitialize(c) /\ UNCHANGED history
          \/ Resume(c) /\ UNCHANGED history
          \/ CancelWaiter(c) /\ UNCHANGED history
          \/ CancelJoiner(c) /\ UNCHANGED history
          \/ Close(c) /\ closeSeen' = TRUE /\ UNCHANGED cutShort
          \/ CancelCloser(c) /\ cutShort' = cutShort \cup {call[c].run} /\ UNCHANGED closeSeen
    BY <1>2, <1>3, <1>4, <1>5, <1>6, <2>1
  <2>2. CASE \E c \in Calls, r \in Runs, reg \in Registries :
               Quiet /\ StartInitialize(c, r, reg) /\ closeSeen' = FALSE /\ UNCHANGED cutShort
    BY <1>8, <2>2
  <2>3. CASE \E c \in Calls, n \in Names : Operate(c, n) /\ UNCHANGED history
    BY <1>7, <2>3
  <2>4. CASE \E r \in Runs : RunInitialize(r) /\ UNCHANGED history
    BY <1>1, <2>4
  <2>. QED BY <1>9, <2>1, <2>2, <2>3, <2>4 DEF SerialNext
<1>. QED BY <1>0, <1>10 DEF SerialInv, NewParts

\* SerialInv is an invariant of every use that keeps lifecycles apart.
THEOREM SerialInductive == SerialSpec => []SerialInv
BY SerialInitInv, SerialNextInv, PTL DEF SerialSpec

\* Concurrent calls share one initialization run, as long as lifecycles are
\* kept apart (initialize() creates the task, or awaits the one in the slot).
THEOREM SharedRunHolds == SerialSpec => []SharedRun
<1>1. SerialInv => SharedRun
  BY DEF SerialInv, PendingAlone, SharedBy, SharedRun
<1>. QED BY <1>1, SerialInductive, PTL

\* When every close() has returned, nothing is initialized and no run is left
\* that could initialize it (close() cancels and awaits the pending one).
THEOREM EndsUninitializedHolds == SerialSpec => []EndsUninitialized
<1>1. SerialInv => EndsUninitialized
  BY DEF SerialInv, ClosedOK, SomeCall, EndsUninitialized
<1>. QED BY <1>1, SerialInductive, PTL

\* An open provider serves, or the close() that should have closed it was cancelled.
THEOREM NoProviderForgottenHolds == SerialSpec => []NoProviderForgotten
<1>1. SerialInv => NoProviderForgotten
  BY DEF SerialInv
<1>. QED BY <1>1, SerialInductive, PTL

\* Every step of the client is a step of the lifecycle contract, or none.
LEMMA StepImplements ==
  ASSUME SerialInv, [SerialNext]_serialVars
  PROVE  [Contract!Next]_(Contract!vars)
<1>0. SerialInv' /\ [Next]_vars
  BY SerialNextInv, SerialStep
<1>1. ASSUME NEW r \in Runs, RunInitialize(r) PROVE [Contract!Next]_(Contract!vars)
  <2>1. SharedBy(r) /\ StepOf(r) /\ r # None
    BY <1>1, ServiceStep, NoneAssumption DEF RunInitialize, SerialInv, IInv, PendingAlone
  <2>2. CASE run'[r].pc = "ok"
    <3>1. initialized' /\ providers' = r
      BY <1>1, <2>1, <2>2 DEF RunInitialize, StepOf
    <3>2. Contract!Succeed(r)
      BY <2>1, <3>1 DEF Contract!Succeed, Phase, By, SharedBy
    <3>. QED BY <3>2 DEF Contract!Next
  <2>3. CASE run'[r].pc = "failed"
    <3>1. ~initialized' /\ initError' = r
      BY <1>1, <2>1, <2>3 DEF RunInitialize, SharedBy
    <3>2. Contract!Fail(r)
      BY <2>1, <3>1 DEF Contract!Fail, Phase, By, SharedBy
    <3>. QED BY <3>2 DEF Contract!Next
  <2>4. CASE run'[r].pc \notin {"ok", "failed"}
    <3>1. ~initialized' /\ initError' = initError
      BY <1>1, <2>1, <2>4 DEF RunInitialize, SharedBy
    <3>. QED BY <2>1, <3>1 DEF Contract!vars, Phase, By, SharedBy
  <2>. QED BY <2>2, <2>3, <2>4
<1>2. ASSUME UNCHANGED <<providers, initialized, initError>> PROVE [Contract!Next]_(Contract!vars)
  BY <1>2 DEF Contract!vars, Phase, By
<1>3. ASSUME NEW c \in Calls, CloseEnds(c), initError' = initError PROVE [Contract!Next]_(Contract!vars)
  <2>1. initialized' = FALSE
    BY <1>3 DEF CloseEnds
  <2>2. CASE initialized
    <3>1. initError = None
      BY <2>2 DEF SerialInv, OneOutcome
    <3>2. Contract!CloseReady
      BY <1>3, <2>1, <2>2, <3>1 DEF Contract!CloseReady, Phase, By
    <3>. QED BY <3>2 DEF Contract!Next
  <2>3. CASE ~initialized
    BY <1>3, <2>1, <2>3 DEF Contract!vars, Phase, By
  <2>. QED BY <2>2, <2>3
<1>4. ASSUME NEW c \in Calls, Initialize(c) \/ Close(c) PROVE [Contract!Next]_(Contract!vars)
  BY <1>2, <1>4 DEF Initialize, StartInitialize, JoinInitialize, Close, CloseCancelsRun, CloseDirectly
<1>5. ASSUME NEW c \in Calls, ProviderClosed(c) \/ CancelCloser(c) PROVE [Contract!Next]_(Contract!vars)
  BY <1>2, <1>3, <1>5 DEF ProviderClosed, CancelCloser
<1>6. ASSUME NEW c \in Calls, Cancel(c) \/ Resume(c) PROVE [Contract!Next]_(Contract!vars)
  BY <1>2, <1>5, <1>6
     DEF Cancel, CancelWaiter, CancelJoiner, Resume, InitializeReturns, CloseJoined, OperateEnds
<1>7. ASSUME NEW c \in Calls, NEW n \in Names, Operate(c, n) PROVE [Contract!Next]_(Contract!vars)
  BY <1>2, <1>7 DEF Operate
<1>8. ASSUME UNCHANGED vars PROVE [Contract!Next]_(Contract!vars)
  BY <1>2, <1>8 DEF vars
<1>. QED BY <1>0, <1>1, <1>4, <1>6, <1>7, <1>8 DEF Next

\* For any callers, runs and providers, cancelled wherever they like, a client
\* whose lifecycles are kept apart implements the contract: one run decides,
\* failure is final, success can be closed and opened again.
THEOREM ImplementsContractHolds == SerialSpec => ImplementsContract
<1>1. SerialInit => Contract!Init
  BY DEF SerialInit, Init, Contract!Init, Phase, By
<1>2. SerialInv /\ [SerialNext]_serialVars => [Contract!Next]_(Contract!vars)
  BY StepImplements
<1>. QED BY <1>1, <1>2, SerialInductive, PTL DEF SerialSpec, ImplementsContract, Contract!Spec
=============================================================================
