---------------------- MODULE AsyncMemoryClientProofs ----------------------
(***************************************************************************)
(* Safety of AsyncMemoryClient for any set of callers, runs and providers. *)
(* The inductive invariant IInv ties what happened to each provider        *)
(* instance to the program counter of the run that built it, and every     *)
(* caller suspended in a provider to a run that committed.                 *)
(***************************************************************************)
EXTENDS AsyncMemoryClient, TLAPS

\* The states the instance built for n may be in while its run is in record q.
Allowed(q, n) ==
  CASE q.pc \in {"unused", "new"} -> {"absent"}
    [] q.pc = "factory" -> {"absent", "open"}
    [] q.pc = "opening" -> IF n = q.cur THEN {"staged"} ELSE {"absent", "open"}
    [] q.pc = "teardown" -> IF q.cancel THEN {"absent", "closing", "closed", "interrupted"}
                                        ELSE {"absent", "closing", "closed"}
    [] q.pc = "ok" -> IF n = Default THEN {"open", "closing", "closed", "interrupted"}
                                     ELSE {"absent", "open", "closing", "closed", "interrupted"}
    [] q.pc = "failed" -> {"absent", "closed"}
    [] q.pc = "cancelled" -> {"absent", "closed", "interrupted"}

\* A run in record q with the instances ii is consistent.
RunOK(q, ii) ==
  /\ \A n \in Names : ii[n] \in Allowed(q, n)
  /\ q.pc \in {"factory", "opening"} => q.cur \in Names
  /\ q.pc = "teardown" => q.why \in {"failed", "cancelled"}

ServiceOK ==
  /\ run \in [Runs -> RunRecord]
  /\ inst \in [Runs -> [Names -> InstanceStates]]
  /\ providers \in Runs \cup {None}
  /\ \A r \in Runs : RunOK(run[r], inst[r])

ClientOK ==
  /\ initialized \in BOOLEAN
  /\ initError \in Runs \cup {None}
  /\ slot \in Runs \cup {None}
  /\ call \in [Calls -> CallRecord]

ProvidersOK ==
  /\ initialized <=> providers # None
  /\ providers # None => run[providers].pc = "ok"

\* What a suspended caller holds on to.
CallOK(q) ==
  /\ q.pc \in {"waiting", "joining"} => q.run \in Runs
  /\ q.pc \in {"closing", "using"} =>
       /\ q.run \in Runs /\ q.cur \in Names
       /\ run[q.run].pc = "ok"
       /\ inst[q.run][q.cur] # "absent"
       /\ \A n \in q.left : inst[q.run][n] # "absent"

CallsOK == \A c \in Calls : CallOK(call[c])

IInv == ServiceOK /\ ClientOK /\ ProvidersOK /\ CallsOK /\ ErrorIsARunsOwn

-----------------------------------------------------------------------------
(* Steps of a run *)

\* What a step of run r may change: only r's own entries, and self._providers
\* only by committing r.
StepOf(r) ==
  /\ \A s \in Runs \ {r} : run'[s] = run[s] /\ inst'[s] = inst[s]
  /\ \/ providers' = providers /\ run'[r].pc # "ok"
     \/ providers' = r /\ run'[r].pc = "ok"

\* A step that leaves run r in a consistent record keeps the whole service so.
LEMMA OneRunStep ==
  ASSUME ServiceOK, NEW r \in Runs, NEW q \in RunRecord,
         NEW ii \in [Names -> InstanceStates], RunOK(q, ii),
         run' = [run EXCEPT ![r] = q],
         inst' \in [Runs -> [Names -> InstanceStates]],
         inst'[r] = ii,
         \A s \in Runs \ {r} : inst'[s] = inst[s],
         \/ providers' = providers /\ q.pc # "ok"
         \/ providers' = r /\ q.pc = "ok"
  PROVE  ServiceOK' /\ StepOf(r)
<1>1. /\ run' \in [Runs -> RunRecord]
      /\ run'[r] = q
      /\ \A s \in Runs \ {r} : run'[s] = run[s]
  BY DEF ServiceOK
<1>2. \A s \in Runs : RunOK(run'[s], inst'[s])
  BY <1>1 DEF ServiceOK
<1>3. (\A s \in Runs : RunOK(run[s], inst[s]))'
  BY <1>2 DEF RunOK, Allowed
<1>. QED BY <1>1, <1>3 DEF ServiceOK, StepOf

\* The except branch leaves run r in its teardown, or ended when nothing was staged.
LEMMA UnwindStep ==
  ASSUME ServiceOK, NEW r \in Runs, NEW why \in {"failed", "cancelled"},
         NEW ins \in [Runs -> [Names -> InstanceStates]],
         \A s \in Runs \ {r} : ins[s] = inst[s],
         \A n \in Names : ins[r][n] \in {"absent", "staged", "open"},
         Unwind(r, ins, why)
  PROVE  ServiceOK' /\ StepOf(r)
<1>0. run[r] \in RunRecord
  BY DEF ServiceOK
<1>1. CASE StagedIn(ins, r) = {}
  <2> DEFINE q == [run[r] EXCEPT !.pc = why, !.cancel = FALSE]
  <2>1. q \in RunRecord /\ q.pc = why
    BY <1>0 DEF RunRecord, RunPC, Outcomes
  <2>2. run' = [run EXCEPT ![r] = q] /\ inst' = ins /\ providers' = providers
    BY <1>1 DEF Unwind
  <2> HIDE DEF q
  <2>3. \A n \in Names : ins[r][n] = "absent"
    BY <1>1 DEF StagedIn
  <2>4. RunOK(q, ins[r])
    BY <2>1, <2>3 DEF RunOK, Allowed
  <2>. QED BY <2>1, <2>2, <2>4, OneRunStep
<1>2. CASE StagedIn(ins, r) # {}
  <2> DEFINE q == [run[r] EXCEPT !.pc = "teardown", !.cancel = FALSE, !.why = why]
             ii == [n \in Names |-> IF ins[r][n] = "absent" THEN "absent" ELSE "closing"]
  <2>1. q \in RunRecord /\ q.pc = "teardown" /\ q.why = why /\ q.cancel = FALSE
    BY <1>0 DEF RunRecord, RunPC, Outcomes
  <2>2. run' = [run EXCEPT ![r] = q] /\ inst' = [ins EXCEPT ![r] = ii] /\ providers' = providers
    BY <1>2 DEF Unwind
  <2>3. ii \in [Names -> InstanceStates] /\ \A n \in Names : ii[n] \in {"absent", "closing"}
    BY DEF InstanceStates
  <2> HIDE DEF q, ii
  <2>4. RunOK(q, ii)
    BY <2>1, <2>3 DEF RunOK, Allowed
  <2>. QED BY <2>1, <2>2, <2>3, <2>4, OneRunStep
<1>. QED BY <1>1, <1>2

\* The loop over the configs goes on, commits a set with the default in it, or unwinds.
LEMMA ProceedStep ==
  ASSUME ServiceOK, NEW r \in Runs,
         NEW ins \in [Runs -> [Names -> InstanceStates]],
         \A s \in Runs \ {r} : ins[s] = inst[s],
         \A n \in Names : ins[r][n] \in {"absent", "open"},
         Proceed(r, ins)
  PROVE  ServiceOK' /\ StepOf(r)
<1>0. run[r] \in RunRecord
  BY DEF ServiceOK
<1>1. ASSUME NEW n \in run[r].todo,
             run' = [run EXCEPT ![r] = [@ EXCEPT !.pc = "factory", !.cur = n, !.todo = run[r].todo \ {n}]],
             inst' = ins, providers' = providers
      PROVE  ServiceOK' /\ StepOf(r)
  <2> DEFINE q == [run[r] EXCEPT !.pc = "factory", !.cur = n, !.todo = run[r].todo \ {n}]
  <2>1. n \in Names
    BY <1>0 DEF RunRecord
  <2>2. q \in RunRecord /\ q.pc = "factory" /\ q.cur = n
    BY <1>0, <2>1 DEF RunRecord, RunPC
  <2>3. run' = [run EXCEPT ![r] = q]
    BY <1>1
  <2> HIDE DEF q
  <2>4. RunOK(q, ins[r])
    BY <2>1, <2>2 DEF RunOK, Allowed
  <2>. QED BY <1>1, <2>2, <2>3, <2>4, OneRunStep
<1>2. CASE /\ Default \in StagedIn(ins, r)
           /\ run' = [run EXCEPT ![r].pc = "ok"]
           /\ inst' = ins
           /\ providers' = r
  <2> DEFINE q == [run[r] EXCEPT !.pc = "ok"]
  <2>1. q \in RunRecord /\ q.pc = "ok"
    BY <1>0 DEF RunRecord, RunPC, Outcomes
  <2>2. run' = [run EXCEPT ![r] = q]
    BY <1>2
  <2>3. ins[r][Default] = "open"
    BY <1>2, NamesAssumption DEF StagedIn
  <2> HIDE DEF q
  <2>4. RunOK(q, ins[r])
    BY <2>1, <2>3 DEF RunOK, Allowed
  <2>. QED BY <1>2, <2>1, <2>2, <2>4, OneRunStep
<1>3. CASE Unwind(r, ins, "failed")
  BY <1>3, UnwindStep
<1>. QED BY <1>1, <1>2, <1>3 DEF Proceed

\* Every step of a run keeps RunOK and touches nothing of another run.
LEMMA ServiceStep ==
  ASSUME ServiceOK, NEW r \in Runs, ServiceInitialize(r)
  PROVE  Pending(r) /\ ServiceOK' /\ StepOf(r)
<1>0. /\ run[r] \in RunRecord
      /\ inst[r] \in [Names -> InstanceStates]
      /\ RunOK(run[r], inst[r])
  BY DEF ServiceOK
<1>p. Pending(r)
  BY DEF ServiceInitialize, Begin, FactoryReturns, FactoryRaises, ProviderOpens,
         ProviderOpenRaises, CancelDelivered, StagedCloses, TeardownEnds, Pending
<1>1. CASE Begin(r)
  <2>1. \A n \in Names : inst[r][n] \in {"absent", "open"}
    BY <1>0, <1>1 DEF Begin, RunOK, Allowed
  <2>. QED BY <1>p, <1>1, <2>1, ProceedStep DEF Begin, ServiceOK
<1>2. CASE FactoryReturns(r)
  <2> DEFINE q == [run[r] EXCEPT !.pc = "opening"]
             ii == [inst[r] EXCEPT ![run[r].cur] = "staged"]
  <2>1. run[r].cur \in Names /\ \A n \in Names : inst[r][n] \in {"absent", "open"}
    BY <1>0, <1>2 DEF FactoryReturns, RunOK, Allowed
  <2>2. q \in RunRecord /\ q.pc = "opening" /\ q.cur = run[r].cur
    BY <1>0 DEF RunRecord, RunPC
  <2>3. /\ ii \in [Names -> InstanceStates]
        /\ \A n \in Names : ii[n] = IF n = run[r].cur THEN "staged" ELSE inst[r][n]
    BY <1>0, <2>1 DEF InstanceStates
  <2>4. run' = [run EXCEPT ![r] = q] /\ inst' = [inst EXCEPT ![r] = ii] /\ providers' = providers
    BY <1>2 DEF FactoryReturns
  <2> HIDE DEF q, ii
  <2>5. RunOK(q, ii)
    BY <2>1, <2>2, <2>3 DEF RunOK, Allowed
  <2>6. /\ inst' \in [Runs -> [Names -> InstanceStates]] /\ inst'[r] = ii
        /\ \A s \in Runs \ {r} : inst'[s] = inst[s]
    BY <2>3, <2>4 DEF ServiceOK
  <2>. QED BY <1>p, <2>2, <2>3, <2>4, <2>5, <2>6, OneRunStep
<1>3. CASE FactoryRaises(r)
  <2>1. \A n \in Names : inst[r][n] \in {"absent", "staged", "open"}
    BY <1>0, <1>3 DEF FactoryRaises, RunOK, Allowed
  <2>. QED BY <1>p, <1>3, <2>1, UnwindStep DEF FactoryRaises, ServiceOK
<1>4. CASE ProviderOpens(r)
  <2> DEFINE ins == [inst EXCEPT ![r][run[r].cur] = "open"]
  <2>1. run[r].cur \in Names /\ \A n \in Names : n # run[r].cur => inst[r][n] \in {"absent", "open"}
    BY <1>0, <1>4 DEF ProviderOpens, RunOK, Allowed
  <2>2. /\ ins \in [Runs -> [Names -> InstanceStates]]
        /\ \A s \in Runs \ {r} : ins[s] = inst[s]
        /\ \A n \in Names : ins[r][n] \in {"absent", "open"}
    BY <2>1 DEF ServiceOK, InstanceStates
  <2>3. Proceed(r, ins)
    BY <1>4 DEF ProviderOpens
  <2> HIDE DEF ins
  <2>. QED BY <1>p, <2>2, <2>3, ProceedStep
<1>5. CASE ProviderOpenRaises(r)
  <2>1. \A n \in Names : inst[r][n] \in {"absent", "staged", "open"}
    BY <1>0, <1>5 DEF ProviderOpenRaises, RunOK, Allowed
  <2>. QED BY <1>p, <1>5, <2>1, UnwindStep DEF ProviderOpenRaises, ServiceOK
<1>6. CASE CancelDelivered(r)
  <2>1. \A n \in Names : inst[r][n] \in {"absent", "staged", "open"}
    BY <1>0, <1>6 DEF CancelDelivered, RunOK, Allowed
  <2>. QED BY <1>p, <1>6, <2>1, UnwindStep DEF CancelDelivered, ServiceOK
<1>7. CASE \E n \in Names : StagedCloses(r, n)
  <2>1. PICK n \in Names : StagedCloses(r, n)
    BY <1>7
  <2> DEFINE ii == [inst[r] EXCEPT ![n] = "closed"]
  <2>2. ii \in [Names -> InstanceStates] /\ \A m \in Names : ii[m] = IF m = n THEN "closed" ELSE inst[r][m]
    BY <1>0 DEF InstanceStates
  <2>3. inst' = [inst EXCEPT ![r] = ii] /\ run' = run /\ providers' = providers /\ run[r].pc = "teardown"
    BY <2>1 DEF StagedCloses
  <2> HIDE DEF ii
  <2>4. RunOK(run[r], ii)
    BY <1>0, <2>2, <2>3 DEF RunOK, Allowed
  <2>5. run' = [run EXCEPT ![r] = run[r]]
    BY <2>3 DEF ServiceOK
  <2>6. /\ inst' \in [Runs -> [Names -> InstanceStates]] /\ inst'[r] = ii
        /\ \A s \in Runs \ {r} : inst'[s] = inst[s]
    BY <2>2, <2>3 DEF ServiceOK
  <2>. QED BY <1>0, <1>p, <2>2, <2>3, <2>4, <2>5, <2>6, OneRunStep
<1>8. CASE TeardownEnds(r)
  <2> DEFINE end == IF run[r].cancel THEN "cancelled" ELSE run[r].why
             q == [run[r] EXCEPT !.pc = end, !.cancel = FALSE]
  <2>1. run[r].why \in {"failed", "cancelled"} /\ end \in {"failed", "cancelled"}
    BY <1>0, <1>8 DEF TeardownEnds, RunOK
  <2>2. q \in RunRecord /\ q.pc = end
    BY <1>0, <2>1 DEF RunRecord, RunPC, Outcomes
  <2>3. /\ run' = [run EXCEPT ![r] = q] /\ inst' = inst /\ providers' = providers
        /\ \A n \in Names : inst[r][n] # "closing"
    BY <1>8 DEF TeardownEnds
  <2>4. \A n \in Names : inst[r][n] \in {"absent", "closed"} \cup (IF run[r].cancel THEN {"interrupted"} ELSE {})
    BY <1>0, <1>8, <2>3 DEF TeardownEnds, RunOK, Allowed
  <2>5. \A n \in Names : inst[r][n] \in {"absent", "closed"} \cup (IF end = "cancelled" THEN {"interrupted"} ELSE {})
    BY <2>4
  <2> HIDE DEF q, end
  <2>6. RunOK(q, inst[r])
    BY <2>1, <2>2, <2>5 DEF RunOK, Allowed
  <2>. QED BY <1>0, <1>p, <2>1, <2>2, <2>3, <2>6, OneRunStep DEF ServiceOK
<1>. QED
  BY <1>1, <1>2, <1>3, <1>4, <1>5, <1>6, <1>7, <1>8 DEF ServiceInitialize

\* No step of a run requests a cancellation.
LEMMA NoStepCancels ==
  ASSUME ServiceOK, NEW r \in Runs, ServiceInitialize(r), run'[r].cancel
  PROVE  run[r].cancel
<1>0. r \in DOMAIN run /\ run[r] \in RunRecord
  BY DEF ServiceOK
<1>1. ASSUME NEW ins, NEW why, Unwind(r, ins, why)
      PROVE  ~run'[r].cancel
  <2>1. \/ run' = [run EXCEPT ![r] = [run[r] EXCEPT !.pc = why, !.cancel = FALSE]]
        \/ run' = [run EXCEPT ![r] = [run[r] EXCEPT !.pc = "teardown", !.cancel = FALSE, !.why = why]]
    BY <1>1 DEF Unwind
  <2>. QED BY <1>0, <2>1 DEF RunRecord
<1>2. ASSUME NEW ins, Proceed(r, ins)
      PROVE  run[r].cancel
  <2>1. CASE \E n \in run[r].todo :
               run' = [run EXCEPT ![r] = [@ EXCEPT !.pc = "factory", !.cur = n, !.todo = run[r].todo \ {n}]]
    <3>1. PICK n \in run[r].todo :
             run' = [run EXCEPT ![r] = [run[r] EXCEPT !.pc = "factory", !.cur = n, !.todo = run[r].todo \ {n}]]
      BY <2>1
    <3>. QED BY <1>0, <3>1 DEF RunRecord
  <2>2. CASE run' = [run EXCEPT ![r].pc = "ok"]
    BY <1>0, <2>2 DEF RunRecord
  <2>. QED BY <1>1, <1>2, <2>1, <2>2 DEF Proceed
<1>3. CASE FactoryReturns(r)
  BY <1>0, <1>3 DEF FactoryReturns, RunRecord
<1>4. CASE \E n \in Names : StagedCloses(r, n)
  BY <1>4 DEF StagedCloses
<1>5. CASE TeardownEnds(r)
  BY <1>0, <1>5 DEF TeardownEnds, RunRecord
<1>. QED BY <1>1, <1>2, <1>3, <1>4, <1>5
     DEF ServiceInitialize, Begin, FactoryRaises, ProviderOpens, ProviderOpenRaises, CancelDelivered

-----------------------------------------------------------------------------
(* Steps of the client *)

LEMMA InitInv == Init => IInv
<1> SUFFICES ASSUME Init PROVE IInv
  OBVIOUS
<1>1. ServiceOK
  <2>1. Idle \in RunRecord
    BY DEF Idle, RunRecord, RunPC, Outcomes
  <2>2. \A ii \in [Names -> {"absent"}] : RunOK(Idle, ii)
    BY DEF RunOK, Allowed, Idle
  <2>. QED BY <2>1, <2>2 DEF Init, ServiceInit, ServiceOK, InstanceStates
<1>2. ClientOK
  BY DEF Init, ClientOK, CallRecord, CallPC, Returned
<1>3. ProvidersOK /\ CallsOK /\ ErrorIsARunsOwn
  BY DEF Init, ServiceInit, ProvidersOK, CallsOK, CallOK, ErrorIsARunsOwn, Returned
<1>. QED BY <1>1, <1>2, <1>3 DEF IInv

\* The run task: the outcome reaches the client in the step in which it is decided.
LEMMA RunStepInv ==
  ASSUME IInv, NEW r \in Runs, RunInitialize(r)
  PROVE  IInv'
<1>1. /\ Pending(r) /\ ServiceOK' /\ StepOf(r)
      /\ run[r].pc \notin Outcomes
  BY ServiceStep DEF IInv, RunInitialize, Pending, Outcomes
<1>2. \A s \in Runs : run[s].pc = "ok" => s # r /\ run'[s] = run[s] /\ inst'[s] = inst[s]
  BY <1>1 DEF StepOf, Outcomes
<1>3. ClientOK'
  BY DEF IInv, ClientOK, RunInitialize
<1>4. ProvidersOK'
  <2>1. CASE providers' = providers /\ run'[r].pc # "ok"
    BY <1>2, <2>1 DEF IInv, ServiceOK, ClientOK, ProvidersOK, RunInitialize
  <2>2. CASE providers' = r /\ run'[r].pc = "ok"
    BY <2>2, NoneAssumption DEF IInv, ClientOK, ProvidersOK, RunInitialize
  <2>. QED BY <1>1, <2>1, <2>2 DEF StepOf
<1>5. CallsOK'
  <2> SUFFICES ASSUME NEW c \in Calls PROVE CallOK(call[c])'
    BY DEF CallsOK
  <2>1. CallOK(call[c]) /\ call[c].left \subseteq Names /\ call' = call
    BY DEF IInv, CallsOK, ClientOK, CallRecord, RunInitialize
  <2>. QED BY <1>2, <2>1 DEF CallOK
<1>6. ErrorIsARunsOwn'
  <2>1. CASE run'[r].pc = "failed"
    BY <2>1 DEF ErrorIsARunsOwn, RunInitialize
  <2>2. CASE run'[r].pc # "failed"
    BY <1>1, <2>2 DEF IInv, ErrorIsARunsOwn, RunInitialize, StepOf, ClientOK, Outcomes
  <2>. QED BY <2>1, <2>2
<1>. QED BY <1>1, <1>3, <1>4, <1>5, <1>6 DEF IInv

\* A new task: nothing was staged for it before.
LEMMA StartInv ==
  ASSUME IInv, NEW c \in Calls, NEW r \in Runs, NEW reg \in Registries,
         StartInitialize(c, r, reg)
  PROVE  IInv'
<1> DEFINE q == [pc |-> "new", todo |-> reg, cur |-> None, cancel |-> FALSE, why |-> "ok"]
<1>1. q \in RunRecord /\ q.pc = "new"
  BY RegistriesAssumption DEF RunRecord, RunPC, Outcomes
<1>2. /\ run' = [run EXCEPT ![r] = q] /\ inst' = inst /\ providers' = providers
      /\ initialized' = initialized /\ initError' = initError /\ slot' = r
      /\ call' = [call EXCEPT ![c] = Suspended("waiting", r)]
      /\ run[r].pc = "unused"
  BY DEF StartInitialize, StartRun
<1>3. RunOK(q, inst[r])
  BY <1>2 DEF IInv, ServiceOK, RunOK, Allowed
<1> HIDE DEF q
<1>4. ServiceOK' /\ StepOf(r)
  BY <1>1, <1>2, <1>3, OneRunStep DEF IInv, ServiceOK
<1>5. \A s \in Runs : run[s].pc \in {"ok", "failed"} => run'[s] = run[s]
  BY <1>2, <1>4 DEF StepOf
<1>6. ClientOK'
  BY <1>2 DEF IInv, ClientOK, CallRecord, CallPC, Suspended
<1>7. ProvidersOK' /\ ErrorIsARunsOwn'
  BY <1>2, <1>5 DEF IInv, ProvidersOK, ErrorIsARunsOwn, ServiceOK, ClientOK
<1>8. CallsOK'
  BY <1>2, <1>5 DEF IInv, CallsOK, CallOK, ClientOK, CallRecord, Suspended
<1>. QED BY <1>4, <1>6, <1>7, <1>8 DEF IInv

\* Steps that change only the slot and the caller's own state.
LEMMA WaiterInv ==
  ASSUME IInv, NEW c \in Calls,
         JoinInitialize(c) \/ InitializeReturns(c) \/ CancelWaiter(c) \/ OperateEnds(c)
         \/ \E n \in Names : Operate(c, n)
  PROVE  IInv'
<1>1. run' = run /\ inst' = inst /\ providers' = providers /\ initialized' = initialized /\ initError' = initError
  BY DEF JoinInitialize, InitializeReturns, CancelWaiter, OperateEnds, Operate
<1>2. slot' \in Runs \cup {None}
  BY DEF IInv, ClientOK, JoinInitialize, InitializeReturns, CancelWaiter, OperateEnds, Operate, ReleaseSlot
<1>3. \E q \in CallRecord : CallOK(q) /\ call' = [call EXCEPT ![c] = q]
  <2>1. CallOK(Returned) /\ Returned \in CallRecord
    BY DEF CallOK, Returned, CallRecord, CallPC
  <2>2. CASE JoinInitialize(c)
    <3>1. CASE Ended(slot)
      BY <2>2, <3>1 DEF JoinInitialize, IInv, ClientOK, CallsOK
    <3>2. CASE ~Ended(slot)
      <4>1. call' = [call EXCEPT ![c] = Suspended("waiting", slot)] /\ slot \in Runs
        BY <2>2, <3>2 DEF JoinInitialize, IInv, ClientOK
      <4>2. Suspended("waiting", slot) \in CallRecord /\ CallOK(Suspended("waiting", slot))
        BY <4>1 DEF CallOK, Suspended, CallRecord, CallPC
      <4>. QED BY <4>1, <4>2
    <3>. QED BY <3>1, <3>2
  <2>3. CASE InitializeReturns(c) \/ CancelWaiter(c) \/ OperateEnds(c)
    BY <2>1, <2>3 DEF InitializeReturns, CancelWaiter, OperateEnds
  <2>4. CASE \E n \in Names : Operate(c, n)
    <3>1. PICK n \in Names : Operate(c, n)
      BY <2>4
    <3> DEFINE q == [Suspended("using", providers) EXCEPT !.cur = n]
    <3>2. providers \in Runs /\ run[providers].pc = "ok" /\ inst[providers][n] # "absent"
      BY <3>1 DEF Operate, IInv, ServiceOK, ProvidersOK, StagedIn
    <3>3. q \in CallRecord /\ CallOK(q)
      BY <3>2 DEF CallOK, Suspended, CallRecord, CallPC
    <3>. QED BY <3>1, <3>3 DEF Operate
  <2>. QED BY <2>2, <2>3, <2>4
<1>4. ClientOK'
  BY <1>1, <1>2, <1>3 DEF IInv, ClientOK
<1>5. CallsOK'
  BY <1>1, <1>3 DEF IInv, ClientOK, CallsOK, CallOK
<1>6. ServiceOK' /\ ProvidersOK' /\ ErrorIsARunsOwn'
  BY <1>1 DEF IInv, ServiceOK, RunOK, Allowed, ProvidersOK, ErrorIsARunsOwn
<1>. QED BY <1>4, <1>5, <1>6 DEF IInv

\* Task.cancel() on a pending run keeps the run consistent: during a teardown it
\* records in cancel that some close() may be interrupted.
LEMMA CancelRunStep ==
  ASSUME ServiceOK, NEW r \in Runs, Pending(r), CancelRun(r), providers' = providers
  PROVE  ServiceOK' /\ StepOf(r) /\ run'[r].pc = run[r].pc
<1> DEFINE q == [run[r] EXCEPT !.cancel = TRUE]
           ii == IF run[r].pc # "teardown" THEN inst[r]
                 ELSE [n \in Names |-> IF inst[r][n] = "closing" THEN "interrupted" ELSE inst[r][n]]
<1>0. /\ run[r] \in RunRecord
      /\ inst[r] \in [Names -> InstanceStates]
      /\ RunOK(run[r], inst[r])
  BY DEF ServiceOK
<1>1. /\ q \in RunRecord /\ q.pc = run[r].pc /\ q.cur = run[r].cur /\ q.why = run[r].why
      /\ q.cancel = TRUE
  BY <1>0 DEF RunRecord
<1>2. ii \in [Names -> InstanceStates]
  BY <1>0 DEF InstanceStates
<1>3. run' = [run EXCEPT ![r] = q]
  BY DEF CancelRun, ServiceOK
<1>4. inst' = [inst EXCEPT ![r] = ii]
  BY DEF CancelRun, ServiceOK
<1>5. run[r].pc # "ok"
  BY DEF Pending
<1>6. RunOK(q, ii)
  <2>1. CASE run[r].pc = "teardown"
    <3>1. \A n \in Names : ii[n] \in {"absent", "closed", "interrupted"}
      BY <1>0, <2>1 DEF RunOK, Allowed
    <3> HIDE DEF q, ii
    <3>. QED BY <1>0, <1>1, <2>1, <3>1 DEF RunOK, Allowed
  <2>2. CASE run[r].pc # "teardown"
    <3>1. ii = inst[r]
      BY <2>2
    <3> HIDE DEF q, ii
    <3>2. \A n \in Names : Allowed(q, n) = Allowed(run[r], n)
      BY <1>1, <2>2 DEF Allowed
    <3>. QED BY <1>0, <1>1, <3>1, <3>2 DEF RunOK
  <2>. QED BY <2>1, <2>2
<1> HIDE DEF q, ii
<1>7. /\ inst' \in [Runs -> [Names -> InstanceStates]] /\ inst'[r] = ii
      /\ \A s \in Runs \ {r} : inst'[s] = inst[s]
  BY <1>2, <1>4 DEF ServiceOK
<1>8. ServiceOK' /\ StepOf(r)
  BY <1>1, <1>2, <1>3, <1>5, <1>6, <1>7, OneRunStep
<1>9. run'[r].pc = run[r].pc
  BY <1>1, <1>3 DEF ServiceOK
<1>. QED BY <1>8, <1>9

LEMMA CancelInv ==
  ASSUME IInv, NEW c \in Calls, CloseCancelsRun(c) \/ CancelJoiner(c)
  PROVE  IInv'
<1>1. PICK r \in Runs :
        /\ Pending(r) /\ CancelRun(r)
        /\ providers' = providers /\ initialized' = initialized /\ initError' = initError /\ slot' = slot
        /\ call' = call \/ call' = [call EXCEPT ![c] = Suspended("joining", r)]
  <2>1. CASE CloseCancelsRun(c)
    BY <2>1 DEF CloseCancelsRun, IInv, ClientOK
  <2>2. CASE CancelJoiner(c)
    BY <2>2 DEF CancelJoiner, IInv, CallsOK, CallOK
  <2>. QED BY <2>1, <2>2
<1>2. ServiceOK' /\ StepOf(r) /\ run'[r].pc = run[r].pc /\ run[r].pc # "ok"
  BY <1>1, CancelRunStep DEF IInv, Pending
<1>3. \A s \in Runs : run[s].pc = "ok" => run'[s] = run[s] /\ inst'[s] = inst[s]
  BY <1>2 DEF StepOf
<1>4. \A s \in Runs : run'[s].pc = run[s].pc
  BY <1>2 DEF StepOf
<1>5. ClientOK'
  BY <1>1 DEF IInv, ClientOK, CallRecord, CallPC, Suspended
<1>6. ProvidersOK' /\ ErrorIsARunsOwn'
  BY <1>1, <1>4 DEF IInv, ServiceOK, ClientOK, ProvidersOK, ErrorIsARunsOwn
<1>7. CallsOK'
  BY <1>1, <1>3 DEF IInv, CallsOK, CallOK, ClientOK, CallRecord, Suspended
<1>. QED BY <1>2, <1>5, <1>6, <1>7 DEF IInv

\* close() works on the instances of a committed run and never takes one back
\* to a state before its close().
LEMMA CommittedInstanceStep ==
  ASSUME ServiceOK, NEW r \in Runs, run[r].pc = "ok", run' = run,
         inst' \in [Runs -> [Names -> InstanceStates]],
         \A s \in Runs \ {r} : inst'[s] = inst[s],
         \A n \in Names :
           \/ inst'[r][n] = inst[r][n]
           \/ inst[r][n] # "absent" /\ inst'[r][n] \in {"closing", "closed", "interrupted"},
         providers' \in Runs \cup {None}
  PROVE  /\ ServiceOK'
         /\ \A s \in Runs, n \in Names : inst[s][n] # "absent" => inst'[s][n] # "absent"
<1>1. RunOK(run'[r], inst'[r])
  BY DEF ServiceOK, RunOK, Allowed
<1>2. \A s \in Runs : RunOK(run'[s], inst'[s])
  BY <1>1 DEF ServiceOK
<1>3. (\A s \in Runs : RunOK(run[s], inst[s]))'
  BY <1>2 DEF RunOK, Allowed
<1>. QED BY <1>3 DEF ServiceOK

\* The first provider.close() of a close(), or its return when there is none.
LEMMA CloseServiceInv ==
  ASSUME IInv, NEW c \in Calls, CloseDirectly(c) \/ CloseJoined(c)
  PROVE  IInv'
<1>1. /\ CloseService(c) /\ slot' = None
      /\ run' = run /\ providers' = providers /\ initialized' = initialized /\ initError' = initError
  BY DEF CloseDirectly, CloseJoined
<1>2. ProvidersOK' /\ ErrorIsARunsOwn'
  BY <1>1 DEF IInv, ProvidersOK, ErrorIsARunsOwn
<1>3. CASE ~initialized
  <2>1. inst' = inst /\ call' = [call EXCEPT ![c] = Returned]
    BY <1>1, <1>3 DEF CloseService
  <2>2. CallOK(Returned) /\ Returned \in CallRecord
    BY DEF CallOK, Returned, CallRecord, CallPC
  <2>3. ClientOK' /\ CallsOK'
    BY <1>1, <2>1, <2>2 DEF IInv, ClientOK, CallsOK, CallOK
  <2>4. ServiceOK'
    BY <1>1, <2>1 DEF IInv, ServiceOK, RunOK, Allowed
  <2>. QED BY <1>2, <2>3, <2>4 DEF IInv
<1>4. CASE initialized
  <2>1. providers \in Runs /\ run[providers].pc = "ok"
    BY <1>4 DEF IInv, ProvidersOK, ServiceOK
  <2>2. PICK n \in StagedIn(inst, providers) :
           /\ call' = [call EXCEPT ![c] =
                         [pc |-> "closing", run |-> providers, cur |-> n,
                          left |-> StagedIn(inst, providers) \ {n}]]
           /\ CloseCalled(providers, n)
    BY <1>1, <1>4 DEF CloseService
  <2> DEFINE q == [pc |-> "closing", run |-> providers, cur |-> n,
                   left |-> StagedIn(inst, providers) \ {n}]
  <2>3. n \in Names /\ inst[providers][n] # "absent"
    BY DEF StagedIn
  <2>4. /\ inst' \in [Runs -> [Names -> InstanceStates]]
        /\ \A s \in Runs \ {providers} : inst'[s] = inst[s]
        /\ \A m \in Names : \/ inst'[providers][m] = inst[providers][m]
                            \/ m = n /\ inst'[providers][m] \in {"closing", "closed", "interrupted"}
    BY <2>1, <2>2, <2>3 DEF CloseCalled, IInv, ServiceOK, InstanceStates
  <2>5. /\ ServiceOK'
        /\ \A s \in Runs, m \in Names : inst[s][m] # "absent" => inst'[s][m] # "absent"
    BY <1>1, <2>1, <2>3, <2>4, CommittedInstanceStep DEF IInv, ServiceOK
  <2>6. q \in CallRecord /\ CallOK(q)
    BY <2>1, <2>3 DEF CallRecord, CallPC, CallOK, StagedIn
  <2>7. call' = [call EXCEPT ![c] = q]
    BY <2>2
  <2> HIDE DEF q
  <2>8. ClientOK'
    BY <1>1, <2>6, <2>7 DEF IInv, ClientOK
  <2>9. CallsOK'
    BY <1>1, <2>5, <2>6, <2>7 DEF IInv, ClientOK, CallsOK, CallOK, CallRecord
  <2>. QED BY <1>2, <2>5, <2>8, <2>9 DEF IInv
<1>. QED BY <1>3, <1>4

\* provider.close() ended or was cancelled: the next one, or the end of close().
LEMMA CloserInv ==
  ASSUME IInv, NEW c \in Calls, ProviderClosed(c) \/ CancelCloser(c)
  PROVE  IInv'
<1> DEFINE r == call[c].run
           m == call[c].cur
<1>0. /\ r \in Runs /\ m \in Names /\ run[r].pc = "ok" /\ inst[r][m] # "absent"
      /\ \A n \in call[c].left : n \in Names /\ inst[r][n] # "absent"
      /\ call[c] \in CallRecord /\ CallOK(call[c]) /\ call[c].pc = "closing"
  <2>1. call[c] \in CallRecord /\ CallOK(call[c]) /\ call[c].pc = "closing"
    BY DEF IInv, ClientOK, CallsOK, ProviderClosed, CancelCloser
  <2>. QED BY <2>1 DEF CallOK, CallRecord
<1>1. run' = run /\ initError' = initError /\ slot' = slot
  BY DEF ProviderClosed, CancelCloser
<1>2. ErrorIsARunsOwn'
  BY <1>1 DEF IInv, ErrorIsARunsOwn
<1>3. /\ inst' \in [Runs -> [Names -> InstanceStates]]
      /\ \A s \in Runs \ {r} : inst'[s] = inst[s]
      /\ \A n \in Names :
           \/ inst'[r][n] = inst[r][n]
           \/ inst[r][n] # "absent" /\ inst'[r][n] \in {"closing", "closed", "interrupted"}
  <2>1. CASE ProviderClosed(c)
    <3>1. CASE \E n \in call[c].left : CloseCalledAfter(r, m, n)
      BY <1>0, <3>1 DEF CloseCalledAfter, IInv, ServiceOK, InstanceStates
    <3>2. CASE inst' = [inst EXCEPT ![r][m] = "closed"]
      BY <1>0, <3>2 DEF IInv, ServiceOK, InstanceStates
    <3>. QED BY <2>1, <3>1, <3>2 DEF ProviderClosed
  <2>2. CASE CancelCloser(c)
    BY <1>0, <2>2 DEF CancelCloser, CloseCancelled, IInv, ServiceOK, InstanceStates
  <2>. QED BY <2>1, <2>2
<1>4. \/ /\ providers' = providers /\ initialized' = initialized
         /\ \E n \in call[c].left :
              call' = [call EXCEPT ![c] = [@ EXCEPT !.cur = n, !.left = call[c].left \ {n}]]
      \/ providers' = None /\ initialized' = FALSE /\ call' = [call EXCEPT ![c] = Returned]
  BY DEF ProviderClosed, CancelCloser, CloseEnds, ClearMaps
<1>5. /\ ServiceOK'
      /\ \A s \in Runs, n \in Names : inst[s][n] # "absent" => inst'[s][n] # "absent"
  <2>1. providers' \in Runs \cup {None}
    BY <1>4 DEF IInv, ServiceOK
  <2> HIDE DEF r, m
  <2>. QED BY <1>0, <1>1, <1>3, <2>1, CommittedInstanceStep DEF IInv
<1>6. ProvidersOK'
  <2>1. CASE providers' = providers /\ initialized' = initialized
    BY <1>1, <2>1 DEF IInv, ProvidersOK
  <2>2. CASE providers' = None /\ initialized' = FALSE
    BY <2>2 DEF ProvidersOK
  <2>. QED BY <1>4, <2>1, <2>2
<1>7. \E q \in CallRecord : CallOK(q) /\ call' = [call EXCEPT ![c] = q]
  <2>1. CallOK(Returned) /\ Returned \in CallRecord
    BY DEF CallOK, Returned, CallRecord, CallPC
  <2>2. ASSUME NEW n \in call[c].left
        PROVE  LET q == [call[c] EXCEPT !.cur = n, !.left = call[c].left \ {n}]
               IN  q \in CallRecord /\ CallOK(q)
    BY <1>0 DEF CallRecord, CallOK
  <2>. QED BY <1>4, <2>1, <2>2
<1>8. ClientOK'
  BY <1>1, <1>4, <1>7 DEF IInv, ClientOK
<1>9. CallsOK'
  <2>1. PICK q \in CallRecord : CallOK(q) /\ call' = [call EXCEPT ![c] = q]
    BY <1>7
  <2> HIDE DEF r, m
  <2>. QED BY <1>1, <1>5, <2>1 DEF IInv, ClientOK, CallsOK, CallOK, CallRecord
<1>. QED BY <1>2, <1>5, <1>6, <1>8, <1>9 DEF IInv

-----------------------------------------------------------------------------
(* The theorems *)

LEMMA NextInv == IInv /\ [Next]_vars => IInv'
<1> SUFFICES ASSUME IInv, [Next]_vars PROVE IInv'
  OBVIOUS
<1>1. CASE \E r \in Runs : RunInitialize(r)
  BY <1>1, RunStepInv
<1>2. ASSUME NEW c \in Calls, Initialize(c) PROVE IInv'
  BY <1>2, StartInv, WaiterInv DEF Initialize
<1>3. ASSUME NEW c \in Calls, Close(c) PROVE IInv'
  BY <1>3, CancelInv, CloseServiceInv DEF Close
<1>4. ASSUME NEW c \in Calls, Cancel(c) PROVE IInv'
  BY <1>4, WaiterInv, CancelInv, CloserInv DEF Cancel
<1>5. ASSUME NEW c \in Calls, Resume(c) PROVE IInv'
  BY <1>5, WaiterInv, CloseServiceInv, CloserInv DEF Resume
<1>6. ASSUME NEW c \in Calls, NEW n \in Names, Operate(c, n) PROVE IInv'
  BY <1>6, WaiterInv
<1>7. CASE UNCHANGED vars
  BY <1>7 DEF vars, IInv, ServiceOK, RunOK, Allowed, ClientOK, ProvidersOK, CallsOK, CallOK, ErrorIsARunsOwn
<1>. QED BY <1>1, <1>2, <1>3, <1>4, <1>5, <1>6, <1>7 DEF Next

\* Every instance is in a state its run allows, every suspended call on a run that exists.
THEOREM Inductive == Spec => []IInv
BY InitInv, NextInv, PTL DEF Spec

\* Every variable keeps its type, whatever overlaps or is cancelled.
THEOREM TypeCorrect == Spec => []TypeOK
<1>1. IInv => TypeOK
  BY DEF IInv, ServiceOK, ClientOK, TypeOK
<1>. QED BY <1>1, Inductive, PTL

\* _providers is always the whole set of one successful run, and the client is
\* initialized exactly while there is one.
THEOREM CommittedWholeHolds == Spec => []CommittedWhole
<1>1. IInv => CommittedWhole
  <2> SUFFICES ASSUME IInv, providers # None
      PROVE  /\ run[providers].pc = "ok"
             /\ inst[providers][Default] # "absent"
             /\ \A n \in Names : inst[providers][n] # "staged"
    BY DEF CommittedWhole, IInv, ProvidersOK
  <2>1. providers \in Runs /\ run[providers].pc = "ok"
    BY DEF IInv, ProvidersOK, ServiceOK
  <2>2. \A n \in Names : inst[providers][n] \in Allowed(run[providers], n)
    BY <2>1 DEF IInv, ServiceOK, RunOK
  <2>. QED BY <2>1, <2>2, NamesAssumption DEF Allowed
<1>. QED BY <1>1, Inductive, PTL

\* A run that ends without success has closed what it staged, or was cancelled
\* while it did so.
THEOREM TeardownCompleteHolds == Spec => []TeardownComplete
<1>1. IInv => TeardownComplete
  BY DEF IInv, ServiceOK, RunOK, Allowed, TeardownComplete
<1>. QED BY <1>1, Inductive, PTL

\* An operation or a close() in progress works on a provider that was committed.
THEOREM OperationsOnCommittedHolds == Spec => []OperationsOnCommitted
<1>1. IInv => OperationsOnCommitted
  <2> SUFFICES ASSUME IInv, NEW c \in Calls, call[c].pc \in {"using", "closing"}
      PROVE  /\ run[call[c].run].pc = "ok"
             /\ inst[call[c].run][call[c].cur] \notin {"absent", "staged"}
    BY DEF OperationsOnCommitted
  <2>1. /\ call[c].run \in Runs /\ call[c].cur \in Names
        /\ run[call[c].run].pc = "ok" /\ inst[call[c].run][call[c].cur] # "absent"
    BY DEF IInv, CallsOK, CallOK
  <2>2. inst[call[c].run][call[c].cur] \in Allowed(run[call[c].run], call[c].cur)
    BY <2>1 DEF IInv, ServiceOK, RunOK
  <2>. QED BY <2>1, <2>2 DEF Allowed
<1>. QED BY <1>1, Inductive, PTL

\* The sticky error is always that of a run that failed, never of a cancelled one.
THEOREM ErrorIsARunsOwnHolds == Spec => []ErrorIsARunsOwn
<1>1. IInv => ErrorIsARunsOwn
  BY DEF IInv
<1>. QED BY <1>1, Inductive, PTL

\* Nothing clears a recorded failure, and no run starts after it.
THEOREM StickyFailureHolds == Spec => StickyFailure
<1>1. ASSUME IInv, [Next]_vars, initError # None
      PROVE  initError' # None /\ \A r \in Runs : run[r].pc = "unused" => run'[r].pc = "unused"
  <2>1. CASE \E r \in Runs : RunInitialize(r)
    <3>1. PICK r \in Runs : RunInitialize(r)
      BY <2>1
    <3>2. Pending(r) /\ StepOf(r)
      BY <1>1, <3>1, ServiceStep DEF RunInitialize, IInv
    <3>3. initError' # None
      BY <1>1, <3>1, NoneAssumption DEF RunInitialize
    <3>4. ASSUME NEW s \in Runs, run[s].pc = "unused"
          PROVE  run'[s].pc = "unused"
      BY <3>2, <3>4 DEF StepOf, Pending
    <3>. QED BY <3>3, <3>4
  <2>2. CASE \E c \in Calls : CloseCancelsRun(c) \/ CancelJoiner(c)
    <3>1. PICK r \in Runs : Pending(r) /\ CancelRun(r) /\ providers' = providers /\ initError' = initError
      BY <1>1, <2>2 DEF CloseCancelsRun, CancelJoiner, IInv, ClientOK, CallsOK, CallOK
    <3>2. StepOf(r)
      BY <1>1, <3>1, CancelRunStep DEF IInv
    <3>. QED BY <1>1, <3>1, <3>2 DEF StepOf, Pending
  <2>3. CASE run' = run /\ initError' = initError
    BY <1>1, <2>3
  <2>. QED BY <1>1, <2>1, <2>2, <2>3
       DEF Next, Initialize, Close, Cancel, Resume, StartInitialize, JoinInitialize, CloseDirectly,
           CancelWaiter, CancelCloser, InitializeReturns, CloseJoined, ProviderClosed, OperateEnds,
           Operate, vars
<1>2. IInv /\ [Next]_vars =>
        [initError # None =>
           /\ initError' # None
           /\ \A r \in Runs : run[r].pc = "unused" => run'[r].pc = "unused"]_vars
  BY <1>1
<1>. QED BY <1>2, Inductive, PTL DEF Spec, StickyFailure

\* Only close() cancels a run.
THEOREM CancelIsolationHolds == Spec => CancelIsolation
<1>1. ASSUME IInv, [Next]_vars, NEW s \in Runs, ~run[s].cancel, run'[s].cancel
      PROVE  \E c \in Calls : call'[c].pc = "joining" /\ call'[c].run = s
  <2>1. ASSUME NEW r \in Runs, RunInitialize(r)
        PROVE  FALSE
    <3>1. s = r
      BY <1>1, <2>1, ServiceStep DEF RunInitialize, IInv, StepOf
    <3>. QED BY <1>1, <2>1, <3>1, NoStepCancels DEF RunInitialize, IInv
  <2>2. ASSUME NEW c \in Calls, CloseCancelsRun(c) \/ CancelJoiner(c)
        PROVE  call'[c].pc = "joining" /\ call'[c].run = s
    <3>1. CASE CloseCancelsRun(c)
      <4>1. slot \in Runs /\ CancelRun(slot) /\ call' = [call EXCEPT ![c] = Suspended("joining", slot)]
        BY <1>1, <3>1 DEF CloseCancelsRun, IInv, ClientOK
      <4>. QED BY <1>1, <4>1 DEF CancelRun, Suspended, IInv, ServiceOK, ClientOK
    <3>2. CASE CancelJoiner(c)
      BY <1>1, <3>2 DEF CancelJoiner, CancelRun, IInv, ServiceOK, CallsOK, CallOK
    <3>. QED BY <2>2, <3>1, <3>2
  <2>3. ASSUME NEW c \in Calls, NEW r \in Runs, NEW reg \in Registries, StartInitialize(c, r, reg)
        PROVE  FALSE
    BY <1>1, <2>3 DEF StartInitialize, StartRun, IInv, ServiceOK
  <2>4. CASE run' = run
    BY <1>1, <2>4
  <2>. QED BY <1>1, <2>1, <2>2, <2>3, <2>4
       DEF Next, Initialize, Close, Cancel, Resume, JoinInitialize, CloseDirectly,
           CancelWaiter, CancelCloser, InitializeReturns, CloseJoined, ProviderClosed, OperateEnds,
           Operate, vars
<1>2. IInv /\ [Next]_vars =>
        [\A r \in Runs : (~run[r].cancel /\ run'[r].cancel) =>
           \E c \in Calls : call'[c].pc = "joining" /\ call'[c].run = r]_vars
  BY <1>1
<1>. QED BY <1>2, Inductive, PTL DEF Spec, CancelIsolation
=============================================================================
