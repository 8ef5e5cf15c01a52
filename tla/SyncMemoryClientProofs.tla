---------------------- MODULE SyncMemoryClientProofs ----------------------
(***************************************************************************)
(* Safety of SyncMemoryClient, and that it implements LifecycleContract,   *)
(* for any set of threads, runs and providers.  The argument has two       *)
(* halves: the thread that holds _init_lock is alone in changing a run     *)
(* that is not over, and the threads without the lock hold on to runs that *)
(* are solid, which no later step undoes.                                  *)
(***************************************************************************)
EXTENDS SyncMemoryClient, TLAPS

Locked == Starting \cup Closing
Pending == {"wantInit"} \cup Starting
Loose == {"staged", "open"}

InstanceMap == [Runs -> [Names -> {"absent", "staged", "open", "closed", "interrupted"}]]

\* Exactly the holder of the lock is in initialize() or close().
LockOK == \A t \in Threads : thread[t].pc \in Locked <=> lock = t

PhaseOK ==
  /\ initialized => initError = None /\ served \in Runs
  /\ \A t \in Threads :
       /\ thread[t].pc \in Starting => ~initialized /\ initError = None
       /\ thread[t].pc \in Closing => initialized

\* A run that assigned self._providers: its default provider was opened, and no
\* provider of it is before its initialize() any more.
Committed(r) ==
  \/ outcome[r] # "unused"
  \/ \E t \in Threads : thread[t].pc \in {"setPipelines", "setFlag"} /\ thread[t].run = r

Whole(r) ==
  /\ inst[r][Default] # "absent"
  /\ \A n \in Names : inst[r][n] # "staged"

Solid(r) == r \in Runs /\ Committed(r) /\ Whole(r)

\* The instances ii of the run in the hands of a thread in record q.
StageOK(q, ii) ==
  /\ q.pc = "wantInit" => \A n \in Names : ii[n] = "absent"
  /\ q.pc \in {"factory", "setProviders", "setPipelines", "setFlag"} =>
       \A n \in Names : ii[n] \in {"absent", "open"}
  /\ q.pc = "opening" => \A n \in Names \ {q.cur} : ii[n] \in {"absent", "open"}
  /\ q.pc = "teardown" => \A n \in Names : ii[n] \in Loose => n = q.cur \/ n \in q.left
  /\ q.pc \in {"setProviders", "setPipelines", "setFlag"} => ii[Default] = "open"
  /\ q.pc \in {"factory", "opening", "teardown"} => q.cur \in Names

PendingOK(q) ==
  q.pc \in Pending =>
    /\ q.run \in Runs
    /\ outcome[q.run] = "unused"
    /\ StageOK(q, inst[q.run])
    /\ q.pc = "teardown" /\ q.why = "interrupted" => q.run \in hit
    /\ q.pc \in {"setPipelines", "setFlag"} => providers = q.run
    /\ q.pc = "setFlag" => pipelines = q.run

ClosingOK(q) ==
  q.pc \in Closing =>
    /\ providers \in {q.run, None}
    /\ served \notin hit => q.run = served
    /\ q.run # None => Solid(q.run)
    /\ q.pc = "closing" =>
         /\ q.run # None /\ q.cur \in Names
         /\ \A n \in Names : inst[q.run][n] \in Loose => n = q.cur \/ n \in q.left
         /\ \A n \in q.left \cup {q.cur} : inst[q.run][n] # "absent"
    /\ q.pc # "closing" /\ q.run \in Runs \ hit => \A n \in Names : inst[q.run][n] \notin Loose

UsingOK(q) ==
  q.pc \in {"found", "using"} =>
    Solid(q.run) /\ q.cur \in Names /\ inst[q.run][q.cur] # "absent"

ThreadsOK == \A t \in Threads : PendingOK(thread[t]) /\ ClosingOK(thread[t]) /\ UsingOK(thread[t])

\* Two calls of initialize() never are the same run.
Unshared ==
  \A s, t \in Threads :
    thread[s].pc \in Pending /\ thread[t].pc \in Pending /\ thread[s].run = thread[t].run => s = t

\* A run nobody has begun has built nothing.
Fresh ==
  \A r \in Runs :
    outcome[r] = "unused" =>
      \/ \A n \in Names : inst[r][n] = "absent"
      \/ \E t \in Threads : thread[t].pc \in Starting /\ thread[t].run = r

ProvidersOK == providers # None => Solid(providers)

\* Only a thread in initialize(), close() or an operation has a run in hand.
EmptyHanded == \A t \in Threads : thread[t].pc \in {"idle", "wantClose"} => thread[t].run = None

IInv == /\ TypeOK /\ LockOK /\ PhaseOK /\ ThreadsOK /\ EmptyHanded /\ Unshared /\ Fresh /\ ProvidersOK
        /\ CommittedWhole /\ NoProviderForgotten

-----------------------------------------------------------------------------
(* Facts the steps share *)

LEMMA LockedPCs ==
  /\ Locked = {"factory", "opening", "teardown", "setProviders", "setPipelines", "setFlag",
               "closing", "clearProviders", "clearPipelines", "clearFlag"}
  /\ Pending = {"wantInit", "factory", "opening", "teardown", "setProviders", "setPipelines", "setFlag"}
  /\ Locked \subseteq ThreadPC /\ Pending \subseteq ThreadPC
BY DEF Locked, Pending, Starting, Closing, ThreadPC

LEMMA ThreadTypes ==
  ASSUME TypeOK, NEW t \in Threads
  PROVE  thread[t] \in ThreadRecord /\ thread[t].pc \in ThreadPC
BY DEF TypeOK, ThreadRecord

LEMMA IdleRecord ==
  /\ Idle \in ThreadRecord
  /\ Idle.pc = "idle" /\ Idle.run = None /\ Idle.cur = None
BY DEF Idle, ThreadRecord, ThreadPC, Endings

\* The code of a thread outside the lock changes its own record only.
LEMMA OutsideStep ==
  ASSUME IInv, NEW t \in Threads, NEW q \in ThreadRecord,
         thread[t].pc \notin Locked, q.pc \notin Locked,
         thread' = [thread EXCEPT ![t] = q],
         UNCHANGED <<lock, attributes, inst, outcome, history>>,
         PendingOK(q), UsingOK(q),
         q.pc = "wantInit" => \A s \in Threads : thread[s].run # q.run,
         q.pc \in {"idle", "wantClose"} => q.run = None
  PROVE  IInv'
<1>1. /\ \A s \in Threads : thread'[s] = IF s = t THEN q ELSE thread[s]
      /\ thread' \in [Threads -> ThreadRecord]
  BY DEF IInv, TypeOK
<1>2. /\ lock' = lock /\ inst' = inst /\ outcome' = outcome /\ served' = served /\ hit' = hit
      /\ initialized' = initialized /\ initError' = initError
      /\ providers' = providers /\ pipelines' = pipelines
  BY DEF attributes, history
<1>3. TypeOK'
  BY <1>1, <1>2 DEF IInv, TypeOK
<1>4. LockOK'
  BY <1>1, <1>2 DEF IInv, LockOK
<1>5. PhaseOK'
  BY <1>1, <1>2 DEF IInv, PhaseOK, Locked
<1>6. \A r \in Runs : Solid(r)' <=> Solid(r)
  BY <1>1, <1>2, LockedPCs DEF Solid, Committed, Whole
<1>7. ThreadsOK'
  <2> SUFFICES ASSUME NEW s \in Threads
      PROVE  PendingOK(thread[s])' /\ ClosingOK(thread[s])' /\ UsingOK(thread[s])'
    BY DEF ThreadsOK
  <2>1. PendingOK(thread'[s]) /\ ClosingOK(thread'[s]) /\ UsingOK(thread'[s])
    <3>1. ClosingOK(q)
      BY DEF ClosingOK, Locked
    <3>. QED BY <1>1, <3>1 DEF IInv, ThreadsOK
  <2>2. PendingOK(thread[s])'
    BY <1>2, <2>1 DEF PendingOK, StageOK
  <2>3. ClosingOK(thread[s])'
    BY <1>2, <1>6, <2>1 DEF ClosingOK, Solid
  <2>4. UsingOK(thread[s])'
    BY <1>2, <1>6, <2>1 DEF UsingOK, Solid
  <2>. QED BY <2>2, <2>3, <2>4
<1>8. Unshared'
  BY <1>1, LockedPCs DEF IInv, Unshared
<1>9. Fresh'
  BY <1>1, <1>2, LockedPCs DEF IInv, Fresh, Locked
<1>10. ProvidersOK'
  BY <1>2, <1>6 DEF IInv, ProvidersOK, Solid
<1>11. CommittedWhole'
  BY <1>1, <1>2 DEF IInv, CommittedWhole, Locked
<1>12. NoProviderForgotten'
  BY <1>1, <1>2 DEF IInv, NoProviderForgotten, Locked
<1>13. EmptyHanded'
  BY <1>1 DEF IInv, EmptyHanded
<1>. QED BY <1>3, <1>4, <1>5, <1>7, <1>8, <1>9, <1>10, <1>11, <1>12, <1>13 DEF IInv

\* A thread that runs the initialization, or is about to, is alone with the lock.
LEMMA Alone ==
  ASSUME IInv, NEW t \in Threads, thread[t].pc \in Pending,
         thread[t].pc = "wantInit" => lock = None /\ ~initialized /\ initError = None
  PROVE  /\ \A s \in Threads \ {t} : thread[s].pc \notin Locked
         /\ ~initialized /\ initError = None
         /\ thread[t].run \in Runs /\ outcome[thread[t].run] = "unused"
<1>1. \A s \in Threads \ {t} : lock # s
  BY NoneAssumption DEF IInv, LockOK, Pending, Locked
<1>. QED BY <1>1, LockedPCs DEF IInv, LockOK, PhaseOK, ThreadsOK, PendingOK, Pending

\* A solid run stays solid under the step of a thread that works on run r and
\* leaves its instances alone once r has assigned self._providers.
LEMMA SolidStep ==
  ASSUME IInv, NEW t \in Threads, NEW r \in Runs, NEW q \in ThreadRecord,
         thread[t].pc \in Pending, thread[t].run = r,
         thread' = [thread EXCEPT ![t] = q],
         \A s \in Runs \ {r} : inst'[s] = inst[s] /\ outcome'[s] = outcome[s],
         \/ outcome'[r] # "unused"
         \/ q.run = r /\ q.pc \in {"setPipelines", "setFlag"}
         \/ thread[t].pc \notin {"setPipelines", "setFlag"},
         thread[t].pc \in {"setPipelines", "setFlag"} => inst' = inst
  PROVE  \A s \in Runs : Solid(s) => Solid(s)'
<1> SUFFICES ASSUME NEW s \in Runs, Solid(s) PROVE Solid(s)'
  OBVIOUS
<1>1. \A u \in Threads : thread'[u] = IF u = t THEN q ELSE thread[u]
  BY DEF IInv, TypeOK
<1>2. CASE s # r
  BY <1>1, <1>2 DEF Solid, Committed, Whole
<1>3. CASE s = r
  <2>1. thread[t].pc \in {"setPipelines", "setFlag"}
    <3>1. outcome[r] = "unused"
      BY DEF IInv, ThreadsOK, PendingOK
    <3>2. PICK u \in Threads : thread[u].pc \in {"setPipelines", "setFlag"} /\ thread[u].run = r
      BY <1>3, <3>1 DEF Solid, Committed
    <3>3. u = t
      BY <3>2, LockedPCs DEF IInv, Unshared
    <3>. QED BY <3>2, <3>3
  <2>2. Committed(r)'
    BY <1>1, <2>1 DEF Committed
  <2>. QED BY <1>3, <2>1, <2>2 DEF Solid, Whole
<1>. QED BY <1>2, <1>3

\* One more step of the run r that thread t is in, or begins.
LEMMA RunStep ==
  ASSUME IInv, NEW t \in Threads, NEW r \in Runs, NEW q \in ThreadRecord,
         thread[t].pc \in Pending, thread[t].run = r,
         thread[t].pc = "wantInit" => lock = None /\ ~initialized /\ initError = None,
         q.pc \in Starting, q.run = r,
         thread' = [thread EXCEPT ![t] = q], lock' = t,
         UNCHANGED <<initialized, initError, outcome, served>>,
         hit \subseteq hit', hit' \subseteq Runs,
         inst' \in InstanceMap, \A s \in Runs \ {r} : inst'[s] = inst[s],
         StageOK(q, inst'[r]),
         q.pc = "teardown" /\ q.why = "interrupted" => r \in hit',
         thread[t].pc \in {"setPipelines", "setFlag"} => inst' = inst /\ q.pc \in {"setPipelines", "setFlag"},
         providers' = providers \/ (providers' = r /\ q.pc = "setPipelines"),
         q.pc \in {"setPipelines", "setFlag"} => providers' = r,
         pipelines' = pipelines \/ pipelines' = r,
         q.pc = "setFlag" => pipelines' = r
  PROVE  IInv'
<1>1. /\ \A s \in Threads : thread'[s] = IF s = t THEN q ELSE thread[s]
      /\ thread' \in [Threads -> ThreadRecord]
  BY DEF IInv, TypeOK
<1>2. /\ \A s \in Threads \ {t} : thread[s].pc \notin Locked
      /\ ~initialized /\ initError = None /\ outcome[r] = "unused"
  BY Alone
<1>3. TypeOK'
  BY <1>1, <1>2 DEF IInv, TypeOK, InstanceMap
<1>4. LockOK'
  BY <1>1, <1>2 DEF LockOK, Locked
<1>5. PhaseOK'
  BY <1>1, <1>2 DEF PhaseOK, Locked, Starting, Closing
<1>6. \A s \in Runs : Solid(s) => Solid(s)'
  <2>1. \A s \in Runs \ {r} : inst'[s] = inst[s] /\ outcome'[s] = outcome[s]
    OBVIOUS
  <2>2. \/ q.run = r /\ q.pc \in {"setPipelines", "setFlag"}
        \/ thread[t].pc \notin {"setPipelines", "setFlag"}
    OBVIOUS
  <2>. QED BY <2>1, <2>2, SolidStep
<1>7. ThreadsOK'
  <2> SUFFICES ASSUME NEW s \in Threads
      PROVE  PendingOK(thread[s])' /\ ClosingOK(thread[s])' /\ UsingOK(thread[s])'
    BY DEF ThreadsOK
  <2>1. CASE s = t
    <3>1. thread'[s] = q
      BY <1>1, <2>1
    <3>2. PendingOK(thread[s])'
      BY <1>2, <3>1 DEF PendingOK, StageOK
    <3>3. q.pc \notin Closing \cup {"found", "using"}
      BY DEF Starting, Closing
    <3>. QED BY <3>1, <3>2, <3>3 DEF ClosingOK, UsingOK
  <2>2. CASE s # t
    <3>1. /\ thread'[s] = thread[s] /\ thread[s].pc \notin Locked
          /\ PendingOK(thread[s]) /\ UsingOK(thread[s])
      BY <1>1, <1>2, <2>2 DEF IInv, ThreadsOK
    <3>2. PendingOK(thread[s])'
      <4>1. SUFFICES ASSUME thread[s].pc = "wantInit"
                     PROVE  thread[s].run \in Runs \ {r}
        BY <3>1 DEF PendingOK, StageOK, Locked, Pending
      <4>. QED BY <2>2, <3>1, <4>1 DEF PendingOK, Pending, IInv, Unshared
    <3>3. ClosingOK(thread[s])'
      BY <3>1 DEF ClosingOK, Locked
    <3>4. UsingOK(thread[s])'
      <4>1. SUFFICES ASSUME thread[s].pc \in {"found", "using"}
                     PROVE  /\ Solid(thread[s].run)' /\ thread[s].cur \in Names
                            /\ inst'[thread[s].run][thread[s].cur] # "absent"
        BY <3>1 DEF UsingOK
      <4>2. Solid(thread[s].run) /\ thread[s].run \in Runs /\ thread[s].cur \in Names
            /\ inst[thread[s].run][thread[s].cur] # "absent"
        BY <3>1, <4>1 DEF UsingOK, Solid
      <4>3. inst'[thread[s].run] = inst[thread[s].run]
        <5>1. CASE thread[s].run # r
          BY <4>2, <5>1
        <5>2. CASE thread[s].run = r
          <6>1. PICK u \in Threads : thread[u].pc \in {"setPipelines", "setFlag"} /\ thread[u].run = r
            BY <1>2, <4>2, <5>2 DEF Solid, Committed
          <6>2. u = t
            BY <6>1, LockedPCs DEF IInv, Unshared
          <6>. QED BY <6>1, <6>2
        <5>. QED BY <5>1, <5>2
      <4>. QED BY <1>6, <4>2, <4>3
    <3>. QED BY <3>2, <3>3, <3>4
  <2>. QED BY <2>1, <2>2
<1>8. Unshared'
  <2>1. q.pc \in Pending
    BY DEF Pending
  <2>. QED BY <1>1, <2>1 DEF IInv, Unshared
<1>9. Fresh'
  <2> SUFFICES ASSUME NEW s \in Runs, outcome[s] = "unused"
      PROVE  \/ \A n \in Names : inst'[s][n] = "absent"
             \/ \E u \in Threads : thread'[u].pc \in Starting /\ thread'[u].run = s
    BY DEF Fresh
  <2>1. CASE s = r
    BY <1>1, <2>1
  <2>2. CASE s # r
    BY <1>1, <2>2 DEF IInv, Fresh
  <2>. QED BY <2>1, <2>2
<1>10. ProvidersOK'
  <2>1. CASE providers' = providers
    BY <1>6, <2>1 DEF IInv, ProvidersOK, Solid
  <2>2. CASE providers' = r /\ q.pc = "setPipelines"
    <3>1. Committed(r)'
      BY <1>1, <2>2 DEF Committed
    <3>2. Whole(r)'
      BY <2>2, NamesAssumption DEF Whole, StageOK
    <3>. QED BY <2>2, <3>1, <3>2 DEF ProvidersOK, Solid
  <2>. QED BY <2>1, <2>2
<1>11. CommittedWhole'
  BY <1>2 DEF CommittedWhole
<1>12. NoProviderForgotten'
  <2> SUFFICES ASSUME NEW s \in Runs, NEW n \in Names,
                      inst'[s][n] \in {"staged", "open"}, s \notin hit'
      PROVE  \E u \in Threads : thread'[u].run = s /\ thread'[u].pc \in Starting \cup Closing
    BY DEF NoProviderForgotten
  <2>1. CASE s = r
    BY <1>1, <2>1
  <2>2. CASE s # r
    <3>1. PICK u \in Threads : thread[u].run = s /\ thread[u].pc \in Starting \cup Closing
      BY <1>2, <2>2 DEF IInv, NoProviderForgotten
    <3>. QED BY <1>1, <2>2, <3>1
  <2>. QED BY <2>1, <2>2
<1>13. EmptyHanded'
  BY <1>1 DEF IInv, EmptyHanded, Starting
<1>. QED BY <1>3, <1>4, <1>5, <1>7, <1>8, <1>9, <1>10, <1>11, <1>12, <1>13 DEF IInv

\* service.initialize() leaves with an exception, its providers closed or the
\* run hit by an interrupt.
LEMMA RunFailsStep ==
  ASSUME IInv, NEW t \in Threads, NEW r \in Runs, NEW why \in Endings,
         thread[t].pc \in Pending, thread[t].run = r,
         thread[t].pc = "wantInit" => lock = None /\ ~initialized /\ initError = None,
         RunFails(t, why),
         hit \subseteq hit', hit' \subseteq Runs,
         inst' \in InstanceMap, \A s \in Runs \ {r} : inst'[s] = inst[s],
         thread[t].pc \in {"setPipelines", "setFlag"} => inst' = inst,
         r \in hit' \/ \A n \in Names : inst'[r][n] \notin Loose
  PROVE  IInv'
<1>1. /\ \A s \in Threads : thread'[s] = IF s = t THEN Idle ELSE thread[s]
      /\ thread' = [thread EXCEPT ![t] = Idle]
      /\ thread' \in [Threads -> ThreadRecord] /\ lock' = None
  BY IdleRecord DEF IInv, TypeOK, RunFails, Release
<1>2. /\ \A s \in Threads \ {t} : thread[s].pc \notin Locked
      /\ ~initialized /\ initError = None /\ outcome[r] = "unused"
  BY Alone
<1>3. /\ initialized' = initialized /\ providers' = providers /\ pipelines' = pipelines
      /\ served' = served /\ initError' \in Runs \cup {None}
      /\ \A s \in Runs \ {r} : outcome'[s] = outcome[s]
      /\ outcome' \in [Runs -> {"unused", "ok"} \cup Endings] /\ outcome'[r] # "unused"
  BY <1>2 DEF RunFails, IInv, TypeOK, Endings
<1>4. Idle.pc \notin Locked \cup Pending \cup {"found", "using"}
  BY IdleRecord, LockedPCs
<1>5. TypeOK'
  BY <1>1, <1>3 DEF IInv, TypeOK, InstanceMap
<1>6. LockOK'
  BY <1>1, <1>2, <1>4, NoneAssumption DEF LockOK
<1>7. PhaseOK'
  BY <1>1, <1>2, <1>3, <1>4 DEF PhaseOK, Locked
<1>8. \A s \in Runs : Solid(s) => Solid(s)'
  <2>1. \A s \in Runs \ {r} : inst'[s] = inst[s] /\ outcome'[s] = outcome[s]
    BY <1>3
  <2>. QED BY <1>1, <1>3, <2>1, SolidStep, IdleRecord
<1>9. ThreadsOK'
  <2> SUFFICES ASSUME NEW s \in Threads
      PROVE  PendingOK(thread[s])' /\ ClosingOK(thread[s])' /\ UsingOK(thread[s])'
    BY DEF ThreadsOK
  <2>1. CASE s = t
    BY <1>1, <1>4, <2>1 DEF PendingOK, ClosingOK, UsingOK, Locked
  <2>2. CASE s # t
    <3>1. /\ thread'[s] = thread[s] /\ thread[s].pc \notin Locked
          /\ PendingOK(thread[s]) /\ UsingOK(thread[s])
      BY <1>1, <1>2, <2>2 DEF IInv, ThreadsOK
    <3>2. PendingOK(thread[s])'
      <4>1. CASE thread[s].pc = "wantInit"
        <5>1. thread[s].run \in Runs \ {r}
          BY <2>2, <3>1, <4>1 DEF PendingOK, Pending, IInv, Unshared
        <5>. QED BY <1>3, <3>1, <4>1, <5>1 DEF PendingOK, StageOK
      <4>2. CASE thread[s].pc # "wantInit"
        BY <3>1, <4>2 DEF PendingOK, Locked, Pending
      <4>. QED BY <4>1, <4>2
    <3>3. ClosingOK(thread[s])'
      BY <3>1 DEF ClosingOK, Locked
    <3>4. UsingOK(thread[s])'
      <4>1. SUFFICES ASSUME thread[s].pc \in {"found", "using"}
                     PROVE  /\ Solid(thread[s].run)' /\ thread[s].cur \in Names
                            /\ inst'[thread[s].run][thread[s].cur] # "absent"
        BY <3>1 DEF UsingOK
      <4>2. Solid(thread[s].run) /\ thread[s].run \in Runs /\ thread[s].cur \in Names
            /\ inst[thread[s].run][thread[s].cur] # "absent"
        BY <3>1, <4>1 DEF UsingOK, Solid
      <4>3. inst'[thread[s].run] = inst[thread[s].run]
        <5>1. CASE thread[s].run # r
          BY <4>2, <5>1
        <5>2. CASE thread[s].run = r
          <6>1. PICK u \in Threads : thread[u].pc \in {"setPipelines", "setFlag"} /\ thread[u].run = r
            BY <1>2, <4>2, <5>2 DEF Solid, Committed
          <6>2. u = t
            BY <6>1, LockedPCs DEF IInv, Unshared
          <6>. QED BY <6>1, <6>2
        <5>. QED BY <5>1, <5>2
      <4>. QED BY <1>8, <3>1, <4>2, <4>3 DEF Solid, Whole, Committed
    <3>. QED BY <3>2, <3>3, <3>4
  <2>. QED BY <2>1, <2>2
<1>10. Unshared'
  BY <1>1, <1>4 DEF IInv, Unshared
<1>11. Fresh'
  BY <1>1, <1>2, <1>3 DEF IInv, Fresh
<1>12. ProvidersOK'
  BY <1>3, <1>8 DEF IInv, ProvidersOK, Solid
<1>13. CommittedWhole'
  BY <1>2, <1>3 DEF CommittedWhole
<1>14. NoProviderForgotten'
  <2> SUFFICES ASSUME NEW s \in Runs, NEW n \in Names,
                      inst'[s][n] \in {"staged", "open"}, s \notin hit'
      PROVE  \E u \in Threads : thread'[u].run = s /\ thread'[u].pc \in Starting \cup Closing
    BY DEF NoProviderForgotten
  <2>1. s # r
    BY DEF Loose
  <2>2. PICK u \in Threads : thread[u].run = s /\ thread[u].pc \in Starting \cup Closing
    BY <1>2, <2>1 DEF IInv, NoProviderForgotten
  <2>. QED BY <1>1, <2>1, <2>2
<1>15. EmptyHanded'
  BY <1>1, IdleRecord DEF IInv, EmptyHanded
<1>. QED BY <1>5, <1>6, <1>7, <1>9, <1>10, <1>11, <1>12, <1>13, <1>14, <1>15 DEF IInv

\* A thread in close(), or about to be, is alone with the lock too, and nobody
\* is in a run.
LEMMA AloneClosing ==
  ASSUME IInv, NEW t \in Threads,
         \/ thread[t].pc = "wantClose" /\ lock = None /\ initialized
         \/ thread[t].pc \in Closing
  PROVE  /\ \A s \in Threads \ {t} : thread[s].pc \notin Locked
         /\ \A s \in Threads : thread[s].pc \notin Starting
         /\ initialized /\ initError = None /\ served \in Runs
         /\ \A r \in Runs : Committed(r) <=> outcome[r] # "unused"
<1>1. \A s \in Threads \ {t} : thread[s].pc \notin Locked
  BY NoneAssumption DEF IInv, LockOK, Locked
<1>2. initialized /\ initError = None /\ served \in Runs
  BY DEF IInv, PhaseOK
<1>3. \A s \in Threads : thread[s].pc \notin Starting
  BY <1>2 DEF IInv, PhaseOK
<1>4. \A r \in Runs : Committed(r) <=> outcome[r] # "unused"
  BY <1>3 DEF Committed, Starting
<1>. QED BY <1>1, <1>2, <1>3, <1>4

\* What close() does to the instances of the run it closes, and to the rest.
ClosesOnly(r) ==
  /\ inst' \in InstanceMap
  /\ \A s \in Runs, n \in Names :
       \/ inst'[s][n] = inst[s][n]
       \/ s = r /\ inst[s][n] # "absent" /\ inst'[s][n] \in {"closed", "interrupted"}

\* The threads outside the lock keep what they had.
LEMMA OthersKeep ==
  ASSUME IInv, NEW t \in Threads, NEW q \in ThreadRecord, NEW r \in Runs \cup {None},
         \/ thread[t].pc = "wantClose" /\ lock = None /\ initialized
         \/ thread[t].pc \in Closing,
         q.pc \in Closing \cup {"idle"},
         thread' = [thread EXCEPT ![t] = q],
         outcome' = outcome, ClosesOnly(r),
         r # None => Solid(r)
  PROVE  /\ \A s \in Runs : Solid(s) => Solid(s)'
         /\ \A s \in Threads \ {t} :
              PendingOK(thread[s])' /\ ClosingOK(thread[s])' /\ UsingOK(thread[s])'
         /\ Unshared' /\ Fresh'
         /\ \A s \in Runs, n \in Names : inst'[s][n] \in Loose => inst[s][n] = inst'[s][n]
<1>1. /\ \A s \in Threads : thread'[s] = IF s = t THEN q ELSE thread[s]
      /\ thread' \in [Threads -> ThreadRecord]
  BY DEF IInv, TypeOK
<1>2. /\ \A s \in Threads \ {t} : thread[s].pc \notin Locked
      /\ \A s \in Threads : thread[s].pc \notin Starting
      /\ \A s \in Runs : Committed(s) <=> outcome[s] # "unused"
  BY AloneClosing
<1>3. q.pc \notin Pending \cup {"found", "using"}
  BY LockedPCs DEF Closing
<1>4. \A s \in Runs : Solid(s) => Solid(s)'
  BY <1>2, NamesAssumption DEF Solid, Committed, Whole, ClosesOnly
<1>5. ASSUME NEW s \in Threads \ {t}
      PROVE  PendingOK(thread[s])' /\ ClosingOK(thread[s])' /\ UsingOK(thread[s])'
  <2>1. /\ thread'[s] = thread[s] /\ thread[s].pc \notin Locked
        /\ PendingOK(thread[s]) /\ UsingOK(thread[s])
    BY <1>1, <1>2 DEF IInv, ThreadsOK
  <2>2. PendingOK(thread[s])'
    <3>1. CASE thread[s].pc = "wantInit"
      <4>1. thread[s].run \in Runs /\ outcome[thread[s].run] = "unused"
            /\ \A n \in Names : inst[thread[s].run][n] = "absent"
        BY <2>1, <3>1 DEF PendingOK, StageOK, Pending
      <4>2. \A n \in Names : inst'[thread[s].run][n] = "absent"
        BY <4>1 DEF ClosesOnly
      <4>. QED BY <2>1, <3>1, <4>1, <4>2 DEF PendingOK, StageOK
    <3>2. CASE thread[s].pc # "wantInit"
      BY <2>1, <3>2 DEF PendingOK, Locked, Pending
    <3>. QED BY <3>1, <3>2
  <2>3. ClosingOK(thread[s])'
    BY <2>1 DEF ClosingOK, Locked
  <2>4. UsingOK(thread[s])'
    <3>1. SUFFICES ASSUME thread[s].pc \in {"found", "using"}
                   PROVE  /\ Solid(thread[s].run)' /\ thread[s].cur \in Names
                          /\ inst'[thread[s].run][thread[s].cur] # "absent"
      BY <2>1 DEF UsingOK
    <3>2. Solid(thread[s].run) /\ thread[s].run \in Runs /\ thread[s].cur \in Names
          /\ inst[thread[s].run][thread[s].cur] # "absent"
      BY <2>1, <3>1 DEF UsingOK, Solid
    <3>3. inst'[thread[s].run][thread[s].cur] # "absent"
      BY <3>2 DEF ClosesOnly
    <3>. QED BY <1>4, <2>1, <3>2, <3>3 DEF Solid, Whole, Committed
  <2>. QED BY <2>2, <2>3, <2>4
<1>6. Unshared'
  BY <1>1, <1>3 DEF IInv, Unshared
<1>7. Fresh'
  BY <1>1, <1>2, <1>4 DEF IInv, Fresh, ClosesOnly, Solid
<1>8. \A s \in Runs, n \in Names : inst'[s][n] \in Loose => inst[s][n] = inst'[s][n]
  BY DEF ClosesOnly, Loose
<1>. QED BY <1>4, <1>5, <1>6, <1>7, <1>8

\* One more step of close(), which goes on.
LEMMA CloseStep ==
  ASSUME IInv, NEW t \in Threads, NEW q \in ThreadRecord,
         \/ thread[t].pc = "wantClose" /\ lock = None /\ initialized
         \/ thread[t].pc \in Closing /\ thread[t].run = q.run,
         q.pc \in Closing, q.run # None => Solid(q.run), providers \in {q.run, None},
         thread' = [thread EXCEPT ![t] = q], lock' = t,
         UNCHANGED <<initialized, initError, outcome, served>>,
         hit \subseteq hit', hit' \subseteq Runs,
         ClosesOnly(q.run),
         providers' \in {providers, None}, pipelines' \in {pipelines, None},
         served \notin hit' => q.run = served,
         q.pc = "closing" =>
           /\ q.run # None /\ q.cur \in Names
           /\ \A n \in Names : inst'[q.run][n] \in Loose => n = q.cur \/ n \in q.left
           /\ \A n \in q.left \cup {q.cur} : inst[q.run][n] # "absent",
         q.pc # "closing" /\ q.run \in Runs \ hit' => \A n \in Names : inst'[q.run][n] \notin Loose
  PROVE  IInv'
<1>0. q.run \in Runs \cup {None}
  BY DEF ThreadRecord
<1>1. /\ \A s \in Threads : thread'[s] = IF s = t THEN q ELSE thread[s]
      /\ thread' \in [Threads -> ThreadRecord]
  BY DEF IInv, TypeOK
<1>2. /\ \A s \in Threads \ {t} : thread[s].pc \notin Locked
      /\ \A s \in Threads : thread[s].pc \notin Starting
      /\ initialized /\ initError = None /\ served \in Runs
  BY AloneClosing
<1>3. /\ \A s \in Runs : Solid(s) => Solid(s)'
      /\ \A s \in Threads \ {t} :
           PendingOK(thread[s])' /\ ClosingOK(thread[s])' /\ UsingOK(thread[s])'
      /\ Unshared' /\ Fresh'
      /\ \A s \in Runs, n \in Names : inst'[s][n] \in Loose => inst[s][n] = inst'[s][n]
  BY <1>0, OthersKeep
<1>4. TypeOK'
  BY <1>1 DEF IInv, TypeOK, ClosesOnly, InstanceMap
<1>5. LockOK'
  BY <1>1, <1>2 DEF LockOK, Locked
<1>6. PhaseOK'
  BY <1>1, <1>2 DEF PhaseOK, Starting, Closing
<1>7. ThreadsOK'
  <2>1. q.pc \notin Pending \cup {"found", "using"}
    BY LockedPCs DEF Closing
  <2>2. PendingOK(thread[t])' /\ UsingOK(thread[t])'
    BY <1>1, <2>1 DEF PendingOK, UsingOK
  <2>3. ClosingOK(thread[t])'
    <3>1. thread'[t] = q /\ (q.run # None => Solid(q.run)')
      BY <1>1, <1>3 DEF Solid
    <3>2. q.pc = "closing" => \A n \in q.left \cup {q.cur} : inst'[q.run][n] # "absent"
      <4>1. q.left \subseteq Names
        BY DEF ThreadRecord
      <4>. QED BY <1>0, <4>1 DEF ClosesOnly
    <3>. QED BY <3>1, <3>2 DEF ClosingOK, Solid, Committed, Whole
  <2>. QED BY <1>3, <2>2, <2>3 DEF ThreadsOK
<1>8. ProvidersOK'
  BY <1>3 DEF IInv, ProvidersOK, Solid
<1>9. CommittedWhole'
  BY <1>1 DEF CommittedWhole
<1>10. NoProviderForgotten'
  <2> SUFFICES ASSUME NEW s \in Runs, NEW n \in Names,
                      inst'[s][n] \in {"staged", "open"}, s \notin hit'
      PROVE  \/ initialized' /\ providers' = s
             \/ \E u \in Threads : thread'[u].run = s /\ thread'[u].pc \in Starting \cup Closing
    BY DEF NoProviderForgotten
  <2>1. \/ providers = s
        \/ \E u \in Threads : thread[u].run = s /\ thread[u].pc \in Locked
    BY <1>3 DEF IInv, NoProviderForgotten, Locked, Loose
  <2>2. CASE s = q.run
    BY <1>1, <2>2
  <2>3. CASE s # q.run
    <3>1. \E u \in Threads : thread[u].run = s /\ thread[u].pc \in Locked
      BY <2>1, <2>3, NoneAssumption
    <3>2. thread[t].run = s /\ thread[t].pc \in Locked
      BY <1>2, <3>1
    <3>. QED BY <2>3, <3>2, LockedPCs
  <2>. QED BY <2>2, <2>3
<1>11. EmptyHanded'
  BY <1>1 DEF IInv, EmptyHanded, Closing
<1>. QED BY <1>3, <1>4, <1>5, <1>6, <1>7, <1>8, <1>9, <1>10, <1>11 DEF IInv

\* close() ends: the flag is cleared, or an interrupt came first.
LEMMA CloseEndStep ==
  ASSUME IInv, NEW t \in Threads, thread[t].pc = "clearFlag",
         Release(t), UNCHANGED <<initError, providers, pipelines, inst, outcome, served>>,
         \/ initialized' = FALSE /\ hit' = hit
         \/ initialized' = initialized /\ Hit(t)
  PROVE  IInv'
<1>1. /\ \A s \in Threads : thread'[s] = IF s = t THEN Idle ELSE thread[s]
      /\ thread' = [thread EXCEPT ![t] = Idle]
      /\ thread' \in [Threads -> ThreadRecord] /\ lock' = None
  BY IdleRecord DEF IInv, TypeOK, Release
<1>2. /\ \A s \in Threads \ {t} : thread[s].pc \notin Locked
      /\ \A s \in Threads : thread[s].pc \notin Starting
      /\ initialized /\ initError = None /\ served \in Runs
  BY AloneClosing DEF Closing
<1>3. ClosingOK(thread[t]) /\ thread[t].run \in Runs \cup {None} /\ thread[t].pc \in Closing
  BY DEF IInv, ThreadsOK, TypeOK, ThreadRecord, Closing
<1>4. Idle.pc \notin Locked \cup Pending \cup {"found", "using"}
  BY IdleRecord, LockedPCs
<1>5. /\ \A s \in Runs : Solid(s) => Solid(s)'
      /\ \A s \in Threads \ {t} :
           PendingOK(thread[s])' /\ ClosingOK(thread[s])' /\ UsingOK(thread[s])'
      /\ Unshared' /\ Fresh'
  <2>1. ClosesOnly(None)
    BY DEF ClosesOnly, IInv, TypeOK, InstanceMap
  <2>. QED BY <1>1, <1>3, <2>1, IdleRecord, OthersKeep
<1>6. TypeOK'
  BY <1>1 DEF IInv, TypeOK, Hit
<1>7. LockOK'
  BY <1>1, <1>2, <1>4, NoneAssumption DEF LockOK
<1>8. PhaseOK'
  BY <1>1, <1>2, <1>4 DEF PhaseOK, Locked
<1>9. ThreadsOK'
  <2>1. PendingOK(thread[t])' /\ ClosingOK(thread[t])' /\ UsingOK(thread[t])'
    BY <1>1, <1>4 DEF PendingOK, ClosingOK, UsingOK, Locked
  <2>. QED BY <1>5, <2>1 DEF ThreadsOK
<1>10. ProvidersOK'
  BY <1>5 DEF IInv, ProvidersOK, Solid
<1>11. CommittedWhole'
  <2>1. initialized' => served' \in hit'
    BY <1>2, <1>3 DEF ClosingOK, Hit
  <2>. QED BY <2>1 DEF CommittedWhole
<1>12. NoProviderForgotten'
  <2> SUFFICES ASSUME NEW s \in Runs, NEW n \in Names,
                      inst[s][n] \in {"staged", "open"}, s \notin hit'
      PROVE  initialized' /\ providers' = s
    BY DEF NoProviderForgotten
  <2>1. hit \subseteq hit'
    BY DEF Hit
  <2>2. providers = s \/ thread[t].run = s
    BY <1>2, <2>1 DEF IInv, NoProviderForgotten, Locked
  <2>3. providers \in {thread[t].run, None}
    BY <1>3 DEF ClosingOK
  <2>4. thread[t].run = s
    BY <2>2, <2>3, NoneAssumption
  <2>. QED BY <1>3, <2>1, <2>4 DEF ClosingOK, Loose
<1>13. EmptyHanded'
  BY <1>1, IdleRecord DEF IInv, EmptyHanded
<1>. QED BY <1>5, <1>6, <1>7, <1>8, <1>9, <1>10, <1>11, <1>12, <1>13 DEF IInv

-----------------------------------------------------------------------------
(* The actions *)

LEMMA InitInv == Init => IInv
<1> SUFFICES ASSUME Init PROVE IInv
  OBVIOUS
<1>1. \A t \in Threads : thread[t] = Idle
  BY DEF Init
<1>2. Idle.pc \notin Locked \cup Pending \cup {"found", "using"}
  BY IdleRecord, LockedPCs
<1>3. TypeOK
  BY IdleRecord DEF Init, TypeOK
<1>4. LockOK /\ PhaseOK /\ ThreadsOK /\ EmptyHanded /\ Unshared
  BY <1>1, <1>2, IdleRecord, NoneAssumption
     DEF Init, LockOK, PhaseOK, ThreadsOK, EmptyHanded, Unshared, PendingOK, ClosingOK, UsingOK, Locked
<1>5. Fresh /\ ProvidersOK /\ CommittedWhole /\ NoProviderForgotten
  BY DEF Init, Fresh, ProvidersOK, CommittedWhole, NoProviderForgotten
<1>. QED BY <1>3, <1>4, <1>5 DEF IInv

\* A call of initialize() or close() begins, or ends without anything to do, and
\* an operation takes its steps, without the lock.
LEMMA OutsideInv ==
  ASSUME IInv, NEW t \in Threads,
         \/ \E r \in Runs, reg \in Registries : CallInitialize(t, r, reg)
         \/ CallClose(t) \/ CheckInitialized(t) \/ InitializeAgain(t) \/ CloseAgain(t)
         \/ \E n \in Names : GetProvider(t, n)
         \/ GetPipeline(t) \/ OperationEnds(t) \/ InterruptOutside(t)
  PROVE  IInv'
<1>0. /\ thread[t] \in ThreadRecord /\ PendingOK(thread[t]) /\ UsingOK(thread[t])
      /\ providers \in Runs \cup {None} /\ pipelines \in Runs \cup {None}
  BY DEF IInv, TypeOK, ThreadsOK
<1> DEFINE Quiet(q) == q.pc \notin Pending \cup {"found", "using"}
<1>a. ASSUME NEW q \in ThreadRecord, Quiet(q) PROVE PendingOK(q) /\ UsingOK(q)
  BY <1>a DEF PendingOK, UsingOK
<1>b. UNCHANGED <<lock, attributes, inst, outcome, history>> /\ thread[t].pc \notin Locked
  BY LockedPCs DEF CallInitialize, CallClose, CheckInitialized, InitializeAgain, CloseAgain,
                   GetProvider, GetPipeline, OperationEnds, InterruptOutside, Operating
<1>1. ASSUME NEW r \in Runs, NEW reg \in Registries, CallInitialize(t, r, reg)
      PROVE  IInv'
  <2> DEFINE q == [Idle EXCEPT !.pc = "wantInit", !.run = r, !.left = reg]
  <2>1. q \in ThreadRecord /\ q.pc = "wantInit" /\ q.run = r
    BY IdleRecord, RegistriesAssumption DEF Idle, ThreadRecord, ThreadPC
  <2>2. /\ thread' = [thread EXCEPT ![t] = q] /\ outcome[r] = "unused"
        /\ \A s \in Threads : thread[s].run # r
    BY <1>1 DEF CallInitialize
  <2> HIDE DEF q
  <2>3. \A n \in Names : inst[r][n] = "absent"
    BY <2>2 DEF IInv, Fresh
  <2>4. PendingOK(q) /\ UsingOK(q)
    BY <2>1, <2>2, <2>3 DEF PendingOK, UsingOK, StageOK
  <2>. QED BY <1>b, <2>1, <2>2, <2>4, OutsideStep, LockedPCs
<1>2. ASSUME NEW pc \in {"wantClose", "checked"}, Goto(t, pc), thread[t].pc = "idle"
      PROVE  IInv'
  <2> DEFINE q == [thread[t] EXCEPT !.pc = pc]
  <2>1. q \in ThreadRecord /\ q.pc = pc /\ pc \notin Locked /\ Quiet(q) /\ pc # "wantInit"
        /\ q.run = None
    BY <1>0, <1>2, LockedPCs DEF IInv, EmptyHanded, ThreadRecord, ThreadPC, Operating
  <2>2. thread' = [thread EXCEPT ![t] = q]
    BY <1>2 DEF Goto
  <2>. QED BY <1>a, <1>b, <2>1, <2>2, OutsideStep
<1>3. CASE thread' = [thread EXCEPT ![t] = Idle]
  <2>1. Quiet(Idle) /\ Idle.pc \notin Locked /\ Idle.pc # "wantInit"
    BY IdleRecord, LockedPCs
  <2>. QED BY <1>3, <1>a, <1>b, <2>1, IdleRecord, OutsideStep
<1>4. ASSUME NEW n \in Names, providers # None, n \in Staged(inst, providers),
             thread' = [thread EXCEPT ![t].pc = "found", ![t].run = providers, ![t].cur = n]
      PROVE  IInv'
  <2> DEFINE q == [thread[t] EXCEPT !.pc = "found", !.run = providers, !.cur = n]
  <2>1. q \in ThreadRecord /\ q.pc = "found" /\ q.run = providers /\ q.cur = n
    BY <1>0 DEF ThreadRecord, ThreadPC, Operating
  <2>2. thread' = [thread EXCEPT ![t] = q]
    BY <1>4
  <2>3. Solid(providers) /\ inst[providers][n] # "absent"
    BY <1>4 DEF IInv, ProvidersOK, Staged
  <2> HIDE DEF q
  <2>4. UsingOK(q) /\ PendingOK(q)
    BY <2>1, <2>3, LockedPCs DEF UsingOK, PendingOK
  <2>. QED BY <1>b, <2>1, <2>2, <2>4, OutsideStep, LockedPCs
<1>5. CASE GetPipeline(t)
  <2> DEFINE q == [thread[t] EXCEPT !.pc = "using", !.pipe = pipelines]
  <2>1. q \in ThreadRecord /\ q.pc = "using" /\ q.run = thread[t].run /\ q.cur = thread[t].cur
    BY <1>0 DEF ThreadRecord, ThreadPC, Operating
  <2>2. thread' = [thread EXCEPT ![t] = q] /\ thread[t].pc = "found"
    BY <1>5 DEF GetPipeline
  <2> HIDE DEF q
  <2>3. UsingOK(q) /\ PendingOK(q)
    BY <1>0, <2>1, <2>2, LockedPCs DEF UsingOK, PendingOK
  <2>. QED BY <1>b, <2>1, <2>2, <2>3, OutsideStep, LockedPCs
<1>. QED BY <1>1, <1>2, <1>3, <1>4, <1>5
     DEF CallClose, CheckInitialized, InitializeAgain, CloseAgain, GetProvider, OperationEnds,
         InterruptOutside

\* What is known of a thread in service.initialize().
LEMMA InRun ==
  ASSUME IInv, NEW t \in Threads, thread[t].pc \in Pending
  PROVE  /\ thread[t] \in ThreadRecord /\ thread[t].run \in Runs
         /\ outcome[thread[t].run] = "unused"
         /\ StageOK(thread[t], inst[thread[t].run])
         /\ inst \in InstanceMap
         /\ thread[t].pc # "wantInit" => lock = t
         /\ hit \subseteq Runs
BY LockedPCs DEF IInv, TypeOK, InstanceMap, LockOK, ThreadsOK, PendingOK, Locked, Pending

\* The for loop goes on with instances that are all open or not built yet.
LEMMA ProceedInv ==
  ASSUME IInv, NEW t \in Threads, NEW r \in Runs, NEW ins \in InstanceMap,
         thread[t].pc \in {"wantInit", "opening"}, thread[t].run = r,
         thread[t].pc = "wantInit" => lock = None /\ ~initialized /\ initError = None,
         \A s \in Runs \ {r} : ins[s] = inst[s],
         \A n \in Names : ins[r][n] \in {"absent", "open"},
         Proceed(t, ins), lock' = t, hit' = hit
  PROVE  IInv'
<1>0. thread[t].pc \in Pending /\ thread[t].pc \notin {"setPipelines", "setFlag"}
  BY LockedPCs
<1>1. /\ inst' = ins
      /\ UNCHANGED <<initialized, initError, providers, pipelines, outcome, served>>
  BY DEF Proceed, attributes
<1>2. hit \subseteq Runs /\ thread[t] \in ThreadRecord /\ inst' \in InstanceMap
  BY <1>0, <1>1, InRun
<1>3. PICK q \in ThreadRecord :
        /\ thread' = [thread EXCEPT ![t] = q] /\ q.run = r
        /\ q.pc \in {"factory", "setProviders"} /\ StageOK(q, inst'[r])
  <2>1. ASSUME NEW n \in thread[t].left,
               thread' = [thread EXCEPT ![t].pc = "factory", ![t].cur = n,
                                        ![t].left = thread[t].left \ {n}]
        PROVE  \E q \in ThreadRecord :
                 /\ thread' = [thread EXCEPT ![t] = q] /\ q.run = r
                 /\ q.pc \in {"factory", "setProviders"} /\ StageOK(q, inst'[r])
    <3> DEFINE q == [thread[t] EXCEPT !.pc = "factory", !.cur = n, !.left = thread[t].left \ {n}]
    <3>1. n \in Names
      BY <1>2 DEF ThreadRecord
    <3>2. q \in ThreadRecord /\ q.pc = "factory" /\ q.cur = n /\ q.run = r
      BY <1>2, <3>1 DEF ThreadRecord, ThreadPC, Starting
    <3>3. thread' = [thread EXCEPT ![t] = q]
      BY <2>1
    <3> HIDE DEF q
    <3>4. StageOK(q, inst'[r])
      BY <1>1, <3>1, <3>2 DEF StageOK
    <3>. QED BY <3>2, <3>3, <3>4
  <2>2. ASSUME Default \in Staged(ins, r), Goto(t, "setProviders")
        PROVE  \E q \in ThreadRecord :
                 /\ thread' = [thread EXCEPT ![t] = q] /\ q.run = r
                 /\ q.pc \in {"factory", "setProviders"} /\ StageOK(q, inst'[r])
    <3> DEFINE q == [thread[t] EXCEPT !.pc = "setProviders"]
    <3>1. q \in ThreadRecord /\ q.pc = "setProviders" /\ q.run = r
      BY <1>2 DEF ThreadRecord, ThreadPC, Starting
    <3>2. thread' = [thread EXCEPT ![t] = q]
      BY <2>2 DEF Goto
    <3>3. ins[r][Default] = "open"
      BY <2>2, NamesAssumption DEF Staged
    <3> HIDE DEF q
    <3>4. StageOK(q, inst'[r])
      BY <1>1, <3>1, <3>3 DEF StageOK
    <3>. QED BY <3>1, <3>2, <3>4
  <2>. QED BY <2>1, <2>2 DEF Proceed
<1>4. /\ q.pc \in Starting
      /\ q.pc \notin {"teardown", "setPipelines", "setFlag"}
  BY <1>3 DEF Starting
<1>. QED BY <1>0, <1>1, <1>2, <1>3, <1>4, RunStep

\* The except BaseException branch: the first close() is called, or there is
\* nothing to close and the run fails.
LEMMA UnwindInv ==
  ASSUME IInv, NEW t \in Threads, NEW r \in Runs, NEW why \in Endings, NEW ins \in InstanceMap,
         thread[t].pc \in {"factory", "opening"}, thread[t].run = r,
         \A s \in Runs \ {r} : ins[s] = inst[s],
         Unwind(t, ins, why),
         hit \subseteq hit', hit' \subseteq Runs, why = "interrupted" => r \in hit'
  PROVE  IInv'
<1>0. /\ thread[t].pc \in Pending /\ thread[t].pc \notin {"wantInit", "setPipelines", "setFlag"}
  BY LockedPCs
<1>1. inst' = ins /\ thread[t] \in ThreadRecord /\ lock = t
  BY <1>0, InRun DEF Unwind
<1>2. CASE Staged(ins, r) = {} /\ RunFails(t, why)
  <2>1. \A n \in Names : inst'[r][n] \notin Loose
    BY <1>1, <1>2 DEF Staged, Loose
  <2>. QED BY <1>0, <1>1, <1>2, <2>1, RunFailsStep
<1>3. ASSUME NEW n \in Staged(ins, r),
             thread' = [thread EXCEPT ![t].pc = "teardown", ![t].cur = n,
                                      ![t].left = Staged(ins, r) \ {n}, ![t].why = why],
             UNCHANGED <<lock, attributes, outcome, served>>
      PROVE  IInv'
  <2> DEFINE q == [thread[t] EXCEPT !.pc = "teardown", !.cur = n,
                                    !.left = Staged(ins, r) \ {n}, !.why = why]
  <2>1. n \in Names /\ Staged(ins, r) \subseteq Names
    BY DEF Staged
  <2>2. q \in ThreadRecord /\ q.pc = "teardown" /\ q.run = r /\ q.cur = n
        /\ q.left = Staged(ins, r) \ {n} /\ q.why = why
    BY <1>1, <2>1 DEF ThreadRecord, ThreadPC, Starting
  <2>3. thread' = [thread EXCEPT ![t] = q]
    BY <1>3
  <2> HIDE DEF q
  <2>4. StageOK(q, inst'[r])
    BY <1>1, <2>1, <2>2 DEF StageOK, Staged, Loose
  <2>5. UNCHANGED <<initialized, initError, providers, pipelines, outcome, served>> /\ lock' = t
    BY <1>1, <1>3 DEF attributes
  <2>6. q.pc \in Starting /\ q.pc \notin {"setPipelines", "setFlag"}
    BY <2>2 DEF Starting
  <2>7. q.pc = "teardown" /\ q.why = "interrupted" => r \in hit'
    BY <2>2
  <2>. QED BY <1>0, <1>1, <2>2, <2>3, <2>4, <2>5, <2>6, <2>7, RunStep
<1>. QED BY <1>2, <1>3 DEF Unwind

\* The lock is acquired and the first factory called, or nothing is configured.
LEMMA StartInitializeInv ==
  ASSUME IInv, NEW t \in Threads, StartInitialize(t)
  PROVE  IInv'
<1> DEFINE r == thread[t].run
<1>1. /\ thread[t].pc = "wantInit" /\ lock = None /\ ~initialized /\ initError = None
      /\ hit' = hit /\ thread[t].pc \in Pending
  BY LockedPCs DEF StartInitialize, history
<1>2. r \in Runs /\ inst \in InstanceMap /\ hit \subseteq Runs /\ \A n \in Names : inst[r][n] = "absent"
  BY <1>1, InRun DEF StageOK
<1>3. CASE lock' = t /\ Proceed(t, inst)
  BY <1>1, <1>2, <1>3, ProceedInv
<1>4. CASE RunFails(t, "failed") /\ UNCHANGED inst
  <2>1. \A n \in Names : inst'[r][n] \notin Loose
    BY <1>2, <1>4 DEF Loose
  <2>2. "failed" \in Endings /\ thread[t].pc \notin {"setPipelines", "setFlag"}
    BY <1>1 DEF Endings
  <2>. QED BY <1>1, <1>2, <1>4, <2>1, <2>2, RunFailsStep
<1>. QED BY <1>3, <1>4 DEF StartInitialize

\* A factory or the initialize() of a provider returns or raises.
LEMMA OpeningInv ==
  ASSUME IInv, NEW t \in Threads,
         FactoryReturns(t) \/ FactoryRaises(t) \/ ProviderOpens(t) \/ ProviderOpenRaises(t)
           \/ InterruptOpening(t)
  PROVE  IInv'
<1> DEFINE r == thread[t].run
           m == thread[t].cur
<1>1. thread[t].pc \in {"factory", "opening"} /\ thread[t].pc \in Pending
  BY LockedPCs DEF FactoryReturns, FactoryRaises, ProviderOpens, ProviderOpenRaises, InterruptOpening
<1>2. /\ r \in Runs /\ inst \in InstanceMap /\ hit \subseteq Runs /\ lock = t
      /\ thread[t] \in ThreadRecord /\ StageOK(thread[t], inst[r]) /\ m \in Names
  BY <1>1, InRun DEF StageOK
<1>3. "failed" \in Endings /\ "interrupted" \in Endings
  BY DEF Endings
<1>4. CASE FactoryReturns(t)
  <2> DEFINE q == [thread[t] EXCEPT !.pc = "opening"]
  <2>1. q \in ThreadRecord /\ q.pc = "opening" /\ q.run = r /\ q.cur = m
    BY <1>2 DEF ThreadRecord, ThreadPC, Starting
  <2>2. /\ thread' = [thread EXCEPT ![t] = q] /\ thread[t].pc = "factory"
        /\ inst' = [inst EXCEPT ![r][m] = "staged"]
    BY <1>4 DEF FactoryReturns, Goto
  <2>3. UNCHANGED <<initialized, initError, providers, pipelines, outcome, served, hit>> /\ lock' = t
    BY <1>2, <1>4 DEF FactoryReturns, attributes, history
  <2>4. inst' \in InstanceMap /\ \A s \in Runs \ {r} : inst'[s] = inst[s]
    BY <1>2, <2>2 DEF InstanceMap
  <2>5. StageOK(q, inst'[r])
    BY <1>2, <2>1, <2>2 DEF StageOK, InstanceMap
  <2>6. q.pc \in Starting /\ q.pc \notin {"teardown", "setPipelines", "setFlag"}
    BY <2>1 DEF Starting
  <2> HIDE DEF q, r, m
  <2>. QED BY <1>1, <1>2, <2>1, <2>2, <2>3, <2>4, <2>5, <2>6, RunStep DEF r
<1>5. CASE FactoryRaises(t) \/ ProviderOpenRaises(t)
  <2>1. Unwind(t, inst, "failed") /\ hit' = hit
    BY <1>5 DEF FactoryRaises, ProviderOpenRaises, history
  <2>. QED BY <1>1, <1>2, <1>3, <2>1, UnwindInv
<1>6. CASE ProviderOpens(t)
  <2> DEFINE ins == [inst EXCEPT ![r][m] = "open"]
  <2>1. /\ thread[t].pc = "opening" /\ hit' = hit
        /\ \/ Proceed(t, ins) /\ UNCHANGED lock
           \/ Unwind(t, ins, "failed")
    BY <1>6 DEF ProviderOpens, history
  <2>2. /\ ins \in InstanceMap /\ \A s \in Runs \ {r} : ins[s] = inst[s]
        /\ \A n \in Names : ins[r][n] \in {"absent", "open"}
    BY <1>2, <2>1 DEF InstanceMap, StageOK
  <2> HIDE DEF ins
  <2>3. CASE Proceed(t, ins) /\ UNCHANGED lock
    BY <1>2, <2>1, <2>2, <2>3, ProceedInv
  <2>4. CASE Unwind(t, ins, "failed")
    BY <1>1, <1>2, <1>3, <2>1, <2>2, <2>4, UnwindInv
  <2>. QED BY <2>1, <2>3, <2>4
<1>7. CASE InterruptOpening(t)
  <2>1. Unwind(t, inst, "interrupted") /\ hit' = hit \cup {r}
    BY <1>2, <1>7 DEF InterruptOpening, Hit
  <2>. QED BY <1>1, <1>2, <1>3, <2>1, UnwindInv
<1>. QED BY <1>4, <1>5, <1>6, <1>7

\* One close() of the teardown ends: the next one, or the end of the run.
LEMMA TeardownInv ==
  ASSUME IInv, NEW t \in Threads, StagedCloses(t)
  PROVE  IInv'
<1> DEFINE r == thread[t].run
           m == thread[t].cur
<1>1. thread[t].pc = "teardown" /\ thread[t].pc \in Pending /\ hit' = hit
      /\ inst' = [inst EXCEPT ![r][m] = "closed"]
  BY LockedPCs DEF StagedCloses, history
<1>2. /\ r \in Runs /\ inst \in InstanceMap /\ hit \subseteq Runs /\ lock = t
      /\ thread[t] \in ThreadRecord /\ StageOK(thread[t], inst[r]) /\ m \in Names
      /\ thread[t].why = "interrupted" => r \in hit
  BY <1>1, InRun DEF StageOK, IInv, ThreadsOK, PendingOK
<1>3. /\ inst' \in InstanceMap /\ \A s \in Runs \ {r} : inst'[s] = inst[s]
      /\ \A n \in Names : inst'[r][n] = IF n = m THEN "closed" ELSE inst[r][n]
  BY <1>1, <1>2 DEF InstanceMap
<1>4. ASSUME NEW n \in thread[t].left,
             thread' = [thread EXCEPT ![t].cur = n, ![t].left = thread[t].left \ {n}],
             UNCHANGED <<lock, attributes, outcome, served>>
      PROVE  IInv'
  <2> DEFINE q == [thread[t] EXCEPT !.cur = n, !.left = thread[t].left \ {n}]
  <2>1. /\ q \in ThreadRecord /\ q.pc = "teardown" /\ q.run = r /\ q.cur = n
        /\ q.left = thread[t].left \ {n} /\ q.why = thread[t].why /\ n \in Names
    BY <1>1, <1>2 DEF ThreadRecord
  <2>2. thread' = [thread EXCEPT ![t] = q]
    BY <1>4
  <2>3. UNCHANGED <<initialized, initError, providers, pipelines, outcome, served>> /\ lock' = t
    BY <1>2, <1>4 DEF attributes
  <2> HIDE DEF q
  <2>4. StageOK(q, inst'[r])
    BY <1>1, <1>2, <1>3, <2>1 DEF StageOK, Loose
  <2>5. /\ q.pc \in Starting /\ q.pc \notin {"setPipelines", "setFlag"}
        /\ q.pc = "teardown" /\ q.why = "interrupted" => r \in hit'
    BY <1>1, <1>2, <2>1 DEF Starting
  <2>. QED BY <1>1, <1>2, <1>3, <2>1, <2>2, <2>3, <2>4, <2>5, RunStep
<1>5. CASE thread[t].left = {} /\ RunFails(t, thread[t].why)
  <2>1. \A n \in Names : inst'[r][n] \notin Loose
    BY <1>1, <1>2, <1>3, <1>5 DEF StageOK, Loose
  <2>2. thread[t].why \in Endings
    BY <1>2 DEF ThreadRecord
  <2>. QED BY <1>1, <1>2, <1>3, <1>5, <2>1, <2>2, RunFailsStep
<1>. QED BY <1>4, <1>5 DEF StagedCloses

\* The two dicts are assigned, one after the other.
LEMMA AssignInv ==
  ASSUME IInv, NEW t \in Threads, SetProviders(t) \/ SetPipelines(t)
  PROVE  IInv'
<1> DEFINE r == thread[t].run
           pc == IF thread[t].pc = "setProviders" THEN "setPipelines" ELSE "setFlag"
           q == [thread[t] EXCEPT !.pc = pc]
<1>1. /\ thread[t].pc \in {"setProviders", "setPipelines"} /\ thread[t].pc \in Pending
      /\ UNCHANGED <<lock, initialized, initError, inst, outcome, served, hit>>
      /\ thread' = [thread EXCEPT ![t] = q]
  BY LockedPCs DEF SetProviders, SetPipelines, Goto, history
<1>2. /\ r \in Runs /\ inst \in InstanceMap /\ hit \subseteq Runs /\ lock = t
      /\ thread[t] \in ThreadRecord /\ StageOK(thread[t], inst[r])
      /\ thread[t].pc = "setPipelines" => providers = r
  BY <1>1, InRun DEF IInv, ThreadsOK, PendingOK
<1>3. /\ q \in ThreadRecord /\ q.run = r /\ q.pc = pc
      /\ pc \in {"setPipelines", "setFlag"} /\ pc \in Starting
  BY <1>2 DEF ThreadRecord, ThreadPC, Starting
<1> HIDE DEF q
<1>4. StageOK(q, inst'[r])
  BY <1>1, <1>2, <1>3 DEF StageOK
<1>5. /\ providers' = r /\ (providers' = providers \/ pc = "setPipelines")
      /\ pipelines' = pipelines \/ pipelines' = r
      /\ pc = "setFlag" => pipelines' = r
  BY <1>1, <1>2 DEF SetProviders, SetPipelines
<1> HIDE DEF pc
<1>6. /\ hit \subseteq hit' /\ hit' \subseteq Runs /\ lock' = t
      /\ inst' \in InstanceMap /\ \A s \in Runs \ {r} : inst'[s] = inst[s]
      /\ thread[t].pc \in {"setPipelines", "setFlag"} => inst' = inst /\ q.pc \in {"setPipelines", "setFlag"}
      /\ q.pc = "teardown" /\ q.why = "interrupted" => r \in hit'
      /\ thread[t].pc # "wantInit"
  BY <1>1, <1>2, <1>3
<1>. QED BY <1>1, <1>2, <1>3, <1>4, <1>5, <1>6, RunStep

\* The flag: the run serves.
LEMMA SetFlagInv ==
  ASSUME IInv, NEW t \in Threads, SetFlag(t)
  PROVE  IInv'
<1> DEFINE r == thread[t].run
<1>1. /\ thread[t].pc = "setFlag" /\ thread[t].pc \in Pending
      /\ initialized' = TRUE /\ served' = r /\ outcome' = [outcome EXCEPT ![r] = "ok"]
      /\ UNCHANGED <<initError, providers, pipelines, inst, hit>>
      /\ lock' = None /\ thread' = [thread EXCEPT ![t] = Idle]
  BY LockedPCs DEF SetFlag, Release
<1>2. /\ r \in Runs /\ inst \in InstanceMap /\ hit \subseteq Runs
      /\ StageOK(thread[t], inst[r]) /\ providers = r /\ pipelines = r
  BY <1>1, InRun DEF IInv, ThreadsOK, PendingOK
<1>3. /\ \A s \in Threads \ {t} : thread[s].pc \notin Locked
      /\ ~initialized /\ initError = None
  BY <1>1, Alone
<1>4. /\ \A s \in Threads : thread'[s] = IF s = t THEN Idle ELSE thread[s]
      /\ thread' \in [Threads -> ThreadRecord]
      /\ Idle.pc \notin Locked \cup Pending \cup {"found", "using"}
  BY <1>1, IdleRecord, LockedPCs DEF IInv, TypeOK
<1>5. /\ \A s \in Runs \ {r} : outcome'[s] = outcome[s]
      /\ outcome' \in [Runs -> {"unused", "ok"} \cup Endings] /\ outcome'[r] # "unused"
  BY <1>1, <1>2 DEF IInv, TypeOK
<1>6. TypeOK'
  BY <1>1, <1>2, <1>4, <1>5 DEF IInv, TypeOK
<1>7. LockOK'
  BY <1>1, <1>3, <1>4, NoneAssumption DEF LockOK
<1>8. PhaseOK'
  BY <1>1, <1>2, <1>3, <1>4 DEF PhaseOK, Locked
<1>9. \A s \in Runs : Solid(s) => Solid(s)'
  <2>1. \A s \in Runs \ {r} : inst'[s] = inst[s] /\ outcome'[s] = outcome[s]
    BY <1>1, <1>5
  <2>. QED BY <1>1, <1>2, <1>5, <2>1, SolidStep, IdleRecord
<1>10. ThreadsOK'
  <2> SUFFICES ASSUME NEW s \in Threads
      PROVE  PendingOK(thread[s])' /\ ClosingOK(thread[s])' /\ UsingOK(thread[s])'
    BY DEF ThreadsOK
  <2>1. CASE s = t
    BY <1>4, <2>1 DEF PendingOK, ClosingOK, UsingOK, Locked
  <2>2. CASE s # t
    <3>1. /\ thread'[s] = thread[s] /\ thread[s].pc \notin Locked
          /\ PendingOK(thread[s]) /\ UsingOK(thread[s])
      BY <1>3, <1>4, <2>2 DEF IInv, ThreadsOK
    <3>2. PendingOK(thread[s])'
      <4>1. CASE thread[s].pc = "wantInit"
        <5>1. thread[s].run \in Runs \ {r}
          BY <1>1, <2>2, <3>1, <4>1 DEF PendingOK, Pending, IInv, Unshared
        <5>. QED BY <1>1, <1>5, <3>1, <4>1, <5>1 DEF PendingOK, StageOK
      <4>2. CASE thread[s].pc # "wantInit"
        BY <3>1, <4>2 DEF PendingOK, Locked, Pending
      <4>. QED BY <4>1, <4>2
    <3>3. ClosingOK(thread[s])'
      BY <3>1 DEF ClosingOK, Locked
    <3>4. UsingOK(thread[s])'
      BY <1>1, <1>9, <3>1 DEF UsingOK, Solid, Whole, Committed
    <3>. QED BY <3>2, <3>3, <3>4
  <2>. QED BY <2>1, <2>2
<1>11. Unshared'
  BY <1>4 DEF IInv, Unshared
<1>12. Fresh'
  BY <1>1, <1>4, <1>5 DEF IInv, Fresh
<1>13. ProvidersOK'
  BY <1>1, <1>9 DEF IInv, ProvidersOK, Solid
<1>14. CommittedWhole'
  BY <1>1, <1>2 DEF CommittedWhole, StageOK
<1>15. NoProviderForgotten'
  <2> SUFFICES ASSUME NEW s \in Runs, NEW n \in Names,
                      inst[s][n] \in {"staged", "open"}, s \notin hit
      PROVE  s = r
    BY <1>1, <1>2 DEF NoProviderForgotten
  <2>1. PICK u \in Threads : thread[u].run = s /\ thread[u].pc \in Starting \cup Closing
    BY <1>3 DEF IInv, NoProviderForgotten
  <2>. QED BY <1>3, <2>1 DEF Locked
<1>16. EmptyHanded'
  BY <1>4, IdleRecord DEF IInv, EmptyHanded
<1>. QED BY <1>6, <1>7, <1>8, <1>10, <1>11, <1>12, <1>13, <1>14, <1>15, <1>16 DEF IInv

\* An interrupt past the try, or in the teardown.
LEMMA InterruptRunInv ==
  ASSUME IInv, NEW t \in Threads, InterruptRun(t)
  PROVE  IInv'
<1> DEFINE r == thread[t].run
           m == thread[t].cur
<1>1. /\ thread[t].pc \in {"teardown", "setProviders", "setPipelines", "setFlag"}
      /\ thread[t].pc \in Pending
      /\ RunFails(t, "interrupted") /\ "interrupted" \in Endings
      /\ inst' = IF thread[t].pc = "teardown" THEN [inst EXCEPT ![r][m] = "interrupted"] ELSE inst
  BY LockedPCs DEF InterruptRun, Endings
<1>2. r \in Runs /\ inst \in InstanceMap /\ hit \subseteq Runs
  BY <1>1, InRun
<1>3. hit' = hit \cup {r}
  BY <1>2 DEF InterruptRun, Hit
<1>4. inst' \in InstanceMap /\ \A s \in Runs \ {r} : inst'[s] = inst[s]
  BY <1>1, <1>2 DEF InstanceMap
<1>. QED BY <1>1, <1>2, <1>3, <1>4, RunFailsStep

\* What is known of a thread in close().
LEMMA InClose ==
  ASSUME IInv, NEW t \in Threads, thread[t].pc \in Closing
  PROVE  /\ thread[t] \in ThreadRecord /\ ClosingOK(thread[t])
         /\ thread[t].run \in Runs \cup {None}
         /\ inst \in InstanceMap /\ lock = t /\ hit \subseteq Runs
BY DEF IInv, TypeOK, ThreadRecord, InstanceMap, LockOK, ThreadsOK, Locked

\* close() takes the lock and captures the dict it will close.
LEMMA StartCloseInv ==
  ASSUME IInv, NEW t \in Threads, StartClose(t)
  PROVE  IInv'
<1>1. /\ thread[t].pc = "wantClose" /\ lock = None /\ initialized /\ lock' = t
      /\ UNCHANGED <<initialized, initError, providers, pipelines, inst, outcome, served, hit>>
  BY DEF StartClose, attributes, history
<1>2. /\ thread[t] \in ThreadRecord /\ thread[t].run = None /\ hit \subseteq Runs
      /\ providers \in Runs \cup {None} /\ inst \in InstanceMap
  BY <1>1 DEF IInv, TypeOK, EmptyHanded, InstanceMap
<1>3. served \notin hit => providers = served
  <2>1. \A s \in Threads : thread[s].pc \notin Closing
    BY <1>1, NoneAssumption DEF IInv, LockOK, Locked
  <2>. QED BY <1>1, <2>1 DEF IInv, CommittedWhole
<1>4. \A r \in Runs \cup {None} : ClosesOnly(r)
  BY <1>1, <1>2 DEF ClosesOnly
<1>5. ASSUME NEW n \in Staged(inst, providers), providers # None,
             thread' = [thread EXCEPT ![t] =
                          [Idle EXCEPT !.pc = "closing", !.run = providers, !.cur = n,
                                       !.left = Staged(inst, providers) \ {n}]]
      PROVE  IInv'
  <2> DEFINE q == [Idle EXCEPT !.pc = "closing", !.run = providers, !.cur = n,
                               !.left = Staged(inst, providers) \ {n}]
  <2>1. n \in Names /\ Staged(inst, providers) \subseteq Names
    BY DEF Staged
  <2>2. /\ q \in ThreadRecord /\ q.pc = "closing" /\ q.run = providers /\ q.cur = n
        /\ q.left = Staged(inst, providers) \ {n}
    BY <1>2, <2>1, IdleRecord DEF Idle, ThreadRecord, ThreadPC, Closing
  <2>3. thread' = [thread EXCEPT ![t] = q]
    BY <1>5
  <2> HIDE DEF q
  <2>4. q.pc \in Closing /\ (q.run # None => Solid(q.run)) /\ ClosesOnly(q.run)
    BY <1>2, <1>4, <2>2 DEF Closing, IInv, ProvidersOK
  <2>5. \A m \in Names : inst'[q.run][m] \in Loose => m = q.cur \/ m \in q.left
    BY <1>1, <2>2 DEF Staged, Loose
  <2>6. \A m \in q.left \cup {q.cur} : inst[q.run][m] # "absent"
    BY <2>2 DEF Staged
  <2>. QED BY <1>1, <1>2, <1>3, <1>5, <2>1, <2>2, <2>3, <2>4, <2>5, <2>6, CloseStep
<1>6. CASE providers = None /\ Goto(t, "clearProviders")
  <2> DEFINE q == [thread[t] EXCEPT !.pc = "clearProviders"]
  <2>1. q \in ThreadRecord /\ q.pc = "clearProviders" /\ q.run = None
    BY <1>2 DEF ThreadRecord, ThreadPC, Closing
  <2>2. thread' = [thread EXCEPT ![t] = q]
    BY <1>6 DEF Goto
  <2>3. served \in hit
    BY <1>1, <1>3, <1>6, NoneAssumption DEF IInv, PhaseOK
  <2> HIDE DEF q
  <2>4. q.pc \in Closing /\ ClosesOnly(q.run) /\ q.pc # "closing" /\ q.run \notin Runs
    BY <1>4, <2>1, NoneAssumption DEF Closing
  <2>. QED BY <1>1, <1>2, <1>6, <2>1, <2>2, <2>3, <2>4, CloseStep
<1>. QED BY <1>1, <1>5, <1>6 DEF StartClose

\* One close() of service.close() ends, or is hit by an interrupt.
LEMMA ProviderClosedInv ==
  ASSUME IInv, NEW t \in Threads, thread[t].pc = "closing",
         ProviderClosed(t) \/ InterruptClose(t)
  PROVE  IInv'
<1> DEFINE r == thread[t].run
           m == thread[t].cur
<1>1. /\ thread[t].pc \in Closing /\ r \in Runs /\ m \in Names /\ Solid(r)
      /\ thread[t] \in ThreadRecord /\ inst \in InstanceMap /\ lock = t /\ hit \subseteq Runs
      /\ providers \in {r, None} /\ (served \notin hit => r = served)
      /\ \A n \in Names : inst[r][n] \in Loose => n = m \/ n \in thread[t].left
      /\ \A n \in thread[t].left \cup {m} : inst[r][n] # "absent"
  <2>1. thread[t].pc \in Closing
    BY DEF Closing
  <2>. QED BY <2>1, InClose DEF ClosingOK
<1>2. /\ UNCHANGED <<initialized, initError, providers, pipelines, outcome, served, lock>>
      /\ \/ inst' = [inst EXCEPT ![r][m] = "closed"] /\ hit' = hit
         \/ inst' = [inst EXCEPT ![r][m] = "interrupted"] /\ hit' = hit \cup {r}
      /\ \/ hit' = hit /\ \E n \in thread[t].left :
              thread' = [thread EXCEPT ![t].cur = n, ![t].left = thread[t].left \ {n}]
         \/ (thread[t].left = {} \/ r \in hit') /\ Goto(t, "clearProviders")
  BY <1>1 DEF ProviderClosed, InterruptClose, Hit, attributes, history
<1>3. hit \subseteq hit' /\ hit' \subseteq Runs
  BY <1>1, <1>2
<1>4. \E v \in {"closed", "interrupted"} : inst' = [inst EXCEPT ![r][m] = v]
  BY <1>2
<1>5. /\ inst' \in InstanceMap
      /\ \A s \in Runs \ {r} : inst'[s] = inst[s]
      /\ \A n \in Names \ {m} : inst'[r][n] = inst[r][n]
      /\ inst'[r][m] \in {"closed", "interrupted"}
  BY <1>1, <1>4 DEF InstanceMap
<1>6. ClosesOnly(r)
  BY <1>1, <1>5 DEF ClosesOnly
<1>7. ASSUME NEW n \in thread[t].left,
             thread' = [thread EXCEPT ![t].cur = n, ![t].left = thread[t].left \ {n}]
      PROVE  IInv'
  <2> DEFINE q == [thread[t] EXCEPT !.cur = n, !.left = thread[t].left \ {n}]
  <2>1. /\ q \in ThreadRecord /\ q.pc = "closing" /\ q.run = r /\ q.cur = n
        /\ q.left = thread[t].left \ {n} /\ n \in Names
    BY <1>1 DEF ThreadRecord
  <2>2. thread' = [thread EXCEPT ![t] = q]
    BY <1>7
  <2> HIDE DEF q
  <2>3. \A k \in Names : inst'[r][k] \in Loose => k = n \/ k \in q.left
    BY <1>1, <1>5, <2>1 DEF Loose
  <2>4. q.pc \in Closing /\ r # None
    BY <1>1, <2>1, NoneAssumption DEF Closing
  <2>5. \A k \in q.left \cup {n} : inst[r][k] # "absent"
    BY <1>1, <2>1
  <2>. QED BY <1>1, <1>2, <1>3, <1>6, <2>1, <2>2, <2>3, <2>4, <2>5, CloseStep
<1>8. CASE (thread[t].left = {} \/ r \in hit') /\ Goto(t, "clearProviders")
  <2> DEFINE q == [thread[t] EXCEPT !.pc = "clearProviders"]
  <2>1. q \in ThreadRecord /\ q.pc = "clearProviders" /\ q.run = r
    BY <1>1 DEF ThreadRecord, ThreadPC, Closing
  <2>2. thread' = [thread EXCEPT ![t] = q]
    BY <1>8 DEF Goto
  <2> HIDE DEF q
  <2>3. q.run \in Runs \ hit' => \A k \in Names : inst'[r][k] \notin Loose
    BY <1>1, <1>5, <1>8, <2>1 DEF Loose
  <2>4. q.pc \in Closing /\ q.pc # "closing" /\ r # None
    BY <1>1, <2>1, NoneAssumption DEF Closing
  <2>. QED BY <1>1, <1>2, <1>3, <1>6, <2>1, <2>2, <2>3, <2>4, CloseStep
<1>. QED BY <1>2, <1>7, <1>8

\* The finally clauses: the two dicts, with the flag still to come.
LEMMA ClearInv ==
  ASSUME IInv, NEW t \in Threads,
         \/ ClearProviders(t) \/ ClearPipelines(t)
         \/ thread[t].pc \in {"clearProviders", "clearPipelines"} /\ InterruptClose(t)
  PROVE  IInv'
<1> DEFINE r == thread[t].run
<1>1. thread[t].pc \in {"clearProviders", "clearPipelines"} /\ thread[t].pc \in Closing
  BY DEF ClearProviders, ClearPipelines, Closing
<1>2. /\ thread[t] \in ThreadRecord /\ r \in Runs \cup {None} /\ inst \in InstanceMap
      /\ lock = t /\ hit \subseteq Runs
      /\ providers \in {r, None} /\ (served \notin hit => r = served)
      /\ r # None => Solid(r)
      /\ r \in Runs \ hit => \A n \in Names : inst[r][n] \notin Loose
  BY <1>1, InClose DEF ClosingOK
<1>3. /\ UNCHANGED <<initialized, initError, inst, outcome, served, lock>>
      /\ providers' \in {providers, None} /\ pipelines' \in {pipelines, None}
      /\ hit' \in {hit, hit \cup ({r} \cap Runs)}
      /\ \E pc \in {"clearPipelines", "clearFlag"} : Goto(t, pc)
  BY <1>1 DEF ClearProviders, ClearPipelines, InterruptClose, Hit, attributes, history
<1>4. PICK pc \in {"clearPipelines", "clearFlag"} : Goto(t, pc)
  BY <1>3
<1> DEFINE q == [thread[t] EXCEPT !.pc = pc]
<1>5. q \in ThreadRecord /\ q.pc = pc /\ q.run = r
  BY <1>2 DEF ThreadRecord, ThreadPC, Closing
<1>6. thread' = [thread EXCEPT ![t] = q]
  BY <1>4 DEF Goto
<1> HIDE DEF q
<1>7. ClosesOnly(r) /\ hit \subseteq hit' /\ hit' \subseteq Runs
  BY <1>2, <1>3 DEF ClosesOnly
<1>8. q.pc \in Closing /\ q.pc # "closing"
  BY <1>5 DEF Closing
<1>. QED BY <1>1, <1>2, <1>3, <1>5, <1>6, <1>7, <1>8, CloseStep

\* The flag is cleared, or Ctrl-C comes first.
LEMMA ClearFlagInv ==
  ASSUME IInv, NEW t \in Threads,
         ClearFlag(t) \/ (thread[t].pc = "clearFlag" /\ InterruptClose(t))
  PROVE  IInv'
BY CloseEndStep DEF ClearFlag, InterruptClose, history, attributes

-----------------------------------------------------------------------------
(* The theorems *)

LEMMA NextInv == IInv /\ [Next]_vars => IInv'
<1> SUFFICES ASSUME IInv, [Next]_vars PROVE IInv'
  OBVIOUS
<1>1. ASSUME NEW t \in Threads, Call(t) PROVE IInv'
  BY <1>1, OutsideInv DEF Call
<1>2. ASSUME NEW t \in Threads, Step(t) PROVE IInv'
  <2>1. CASE ProviderClosed(t)
    <3>1. thread[t].pc = "closing"
      BY <2>1 DEF ProviderClosed
    <3>. QED BY <2>1, <3>1, ProviderClosedInv
  <2>. QED BY <1>2, <2>1, OutsideInv, StartInitializeInv, OpeningInv, TeardownInv, AssignInv, SetFlagInv,
              StartCloseInv, ClearInv, ClearFlagInv DEF Step
<1>3. ASSUME NEW t \in Threads, Interrupt(t) PROVE IInv'
  <2>1. CASE InterruptClose(t)
    <3>1. thread[t].pc \in {"closing", "clearProviders", "clearPipelines", "clearFlag"}
      BY <2>1 DEF InterruptClose
    <3>. QED BY <2>1, <3>1, ProviderClosedInv, ClearInv, ClearFlagInv
  <2>. QED BY <1>3, <2>1, OutsideInv, OpeningInv, InterruptRunInv DEF Interrupt
<1>4. CASE UNCHANGED vars
  BY <1>4 DEF vars, attributes, history, IInv, TypeOK, LockOK, PhaseOK, ThreadsOK, EmptyHanded, Unshared,
              Fresh, ProvidersOK, CommittedWhole, NoProviderForgotten, PendingOK, StageOK, ClosingOK,
              UsingOK, Solid, Committed, Whole
<1>. QED BY <1>1, <1>2, <1>3, <1>4 DEF Next

\* The holder of the lock is alone, and everybody else holds on to solid runs.
THEOREM Inductive == Spec => []IInv
BY InitInv, NextInv, PTL DEF Spec

\* Every variable keeps its type, whatever overlaps and wherever Ctrl-C strikes.
THEOREM TypeCorrect == Spec => []TypeOK
<1>1. IInv => TypeOK
  BY DEF IInv
<1>. QED BY <1>1, Inductive, PTL

\* Unless Ctrl-C struck its close(), a client that serves has the providers and
\* the pipelines of one run, all opened, the default among them.
THEOREM CommittedWholeHolds == Spec => []CommittedWhole
<1>1. IInv => CommittedWhole
  BY DEF IInv
<1>. QED BY <1>1, Inductive, PTL

\* What an operation finds without the lock has been through its initialize(),
\* in a run that opened the default provider too.
THEOREM OperationsOnOpenedHolds == Spec => []OperationsOnOpened
<1>1. IInv => OperationsOnOpened
  <2> SUFFICES ASSUME IInv, NEW t \in Threads, thread[t].pc \in {"found", "using"}
      PROVE  /\ inst[thread[t].run][thread[t].cur] \notin {"absent", "staged"}
             /\ inst[thread[t].run][Default] \notin {"absent", "staged"}
    BY DEF OperationsOnOpened
  <2>1. UsingOK(thread[t])
    BY DEF IInv, ThreadsOK
  <2>. QED BY <2>1, NamesAssumption DEF UsingOK, Solid, Whole
<1>. QED BY <1>1, Inductive, PTL

\* A provider is open only while it serves or a thread has it in hand, except
\* for the runs Ctrl-C struck.
THEOREM NoProviderForgottenHolds == Spec => []NoProviderForgotten
<1>1. IInv => NoProviderForgotten
  BY DEF IInv
<1>. QED BY <1>1, Inductive, PTL

\* Only the end of a run and the end of a close() change what the lifecycle
\* contract can see.
LEMMA Visible ==
  ASSUME IInv, [Next]_vars
  PROVE  \/ UNCHANGED <<initialized, initError, served>>
         \/ \E t \in Threads : SetFlag(t) \/ ClearFlag(t)
         \/ \E t \in Threads :
              /\ thread[t].pc \in Pending
              /\ thread[t].pc = "wantInit" => lock = None /\ ~initialized /\ initError = None
              /\ RunFails(t, "failed")
<1> DEFINE Same == UNCHANGED <<initialized, initError, served>>
           Ends(t) == SetFlag(t) \/ ClearFlag(t)
           Fails(t) == /\ thread[t].pc \in Pending
                       /\ thread[t].pc = "wantInit" => lock = None /\ ~initialized /\ initError = None
                       /\ RunFails(t, "failed")
<1>a. ASSUME NEW t \in Threads, thread[t].pc \in Starting, NEW why \in Endings, RunFails(t, why)
      PROVE  Same \/ Fails(t)
  <2>1. CASE why = "failed"
    BY <1>a, <2>1 DEF Starting, Pending
  <2>2. CASE why = "interrupted"
    BY <1>a, <2>2 DEF RunFails
  <2>. QED BY <1>a, <2>1, <2>2 DEF Endings
<1>b. ASSUME NEW t \in Threads, thread[t].pc \in Starting, NEW why \in Endings, NEW ins, Unwind(t, ins, why)
      PROVE  Same \/ Fails(t)
  BY <1>a, <1>b DEF Unwind, attributes
<1>c. ASSUME NEW t \in Threads, NEW ins, Proceed(t, ins) PROVE Same
  BY <1>c DEF Proceed, attributes
<1>1. ASSUME NEW t \in Threads, Call(t) PROVE Same
  BY <1>1 DEF Call, CallInitialize, CallClose, CheckInitialized, attributes, history
<1>2. ASSUME NEW t \in Threads, Step(t) PROVE Same \/ Ends(t) \/ Fails(t)
  <2>1. CASE StartInitialize(t)
    <3>1. CASE Proceed(t, inst)
      BY <1>c, <3>1
    <3>2. CASE RunFails(t, "failed")
      BY <2>1, <3>2 DEF StartInitialize, Pending
    <3>. QED BY <2>1, <3>1, <3>2 DEF StartInitialize
  <2>2. CASE FactoryRaises(t) \/ ProviderOpens(t) \/ ProviderOpenRaises(t)
    <3>1. thread[t].pc \in Starting /\ "failed" \in Endings
      BY <2>2 DEF FactoryRaises, ProviderOpens, ProviderOpenRaises, Starting, Endings
    <3>2. \E ins : Unwind(t, ins, "failed") \/ Proceed(t, ins)
      BY <2>2 DEF FactoryRaises, ProviderOpens, ProviderOpenRaises
    <3>. QED BY <1>b, <1>c, <3>1, <3>2
  <2>3. CASE StagedCloses(t)
    <3>1. thread[t].pc \in Starting /\ thread[t].why \in Endings
      BY <2>3 DEF StagedCloses, Starting, IInv, TypeOK, ThreadRecord
    <3>. QED BY <1>a, <2>3, <3>1 DEF StagedCloses, attributes
  <2>4. CASE SetFlag(t) \/ ClearFlag(t)
    BY <2>4
  <2>5. CASE InitializeAgain(t) \/ FactoryReturns(t) \/ SetProviders(t) \/ SetPipelines(t)
    BY <2>5 DEF InitializeAgain, FactoryReturns, SetProviders, SetPipelines, attributes, history
  <2>6. CASE CloseAgain(t) \/ StartClose(t) \/ ProviderClosed(t) \/ ClearProviders(t) \/ ClearPipelines(t)
    BY <2>6 DEF CloseAgain, StartClose, ProviderClosed, ClearProviders, ClearPipelines, attributes, history
  <2>7. CASE (\E n \in Names : GetProvider(t, n)) \/ GetPipeline(t) \/ OperationEnds(t)
    BY <2>7 DEF GetProvider, GetPipeline, OperationEnds, attributes, history
  <2> HIDE DEF Same, Ends, Fails
  <2>. QED BY <1>2, <2>1, <2>2, <2>3, <2>4, <2>5, <2>6, <2>7 DEF Step, Ends
<1>3. ASSUME NEW t \in Threads, Interrupt(t) PROVE Same \/ Fails(t)
  <2>1. "interrupted" \in Endings
    BY DEF Endings
  <2>2. CASE InterruptOpening(t)
    BY <1>b, <2>1, <2>2 DEF InterruptOpening, Starting
  <2>3. CASE InterruptRun(t)
    BY <1>a, <2>1, <2>3 DEF InterruptRun, Starting
  <2>4. CASE InterruptOutside(t) \/ InterruptClose(t)
    BY <2>4 DEF InterruptOutside, InterruptClose, attributes, history
  <2>. QED BY <1>3, <2>2, <2>3, <2>4 DEF Interrupt
<1>4. UNCHANGED vars => Same
  BY DEF vars, attributes, history
<1>. QED BY <1>1, <1>2, <1>3, <1>4 DEF Next

\* Every step of the client is a step of the lifecycle contract, or none.
LEMMA StepImplements ==
  ASSUME IInv, [Next]_vars
  PROVE  [Contract!Next]_(Contract!vars)
<1>1. CASE UNCHANGED <<initialized, initError, served>>
  BY <1>1 DEF Contract!vars, Phase, By
<1>2. ASSUME NEW t \in Threads, SetFlag(t)
      PROVE  Contract!Next
  <2>1. thread[t].pc = "setFlag" /\ thread[t].pc \in Pending
    BY <1>2, LockedPCs DEF SetFlag
  <2>2. ~initialized /\ initError = None /\ thread[t].run \in Runs
    BY <2>1, Alone
  <2>3. initialized' /\ served' = thread[t].run
    BY <1>2 DEF SetFlag
  <2>4. Contract!Succeed(thread[t].run)
    BY <2>2, <2>3 DEF Contract!Succeed, Phase, By
  <2>. QED BY <2>2, <2>4 DEF Contract!Next
<1>3. ASSUME NEW t \in Threads, ClearFlag(t)
      PROVE  Contract!Next
  <2>1. initialized /\ initError = None
    BY <1>3 DEF ClearFlag, IInv, PhaseOK, Closing
  <2>2. ~initialized' /\ initError' = None
    BY <1>3, <2>1 DEF ClearFlag
  <2>3. Contract!CloseReady
    BY <2>1, <2>2 DEF Contract!CloseReady, Phase, By
  <2>. QED BY <2>3 DEF Contract!Next
<1>4. ASSUME NEW t \in Threads, thread[t].pc \in Pending,
             thread[t].pc = "wantInit" => lock = None /\ ~initialized /\ initError = None,
             RunFails(t, "failed")
      PROVE  Contract!Next
  <2>1. ~initialized /\ initError = None /\ thread[t].run \in Runs
    BY <1>4, Alone
  <2>2. ~initialized' /\ initError' = thread[t].run
    BY <1>4, <2>1 DEF RunFails
  <2>3. Contract!Fail(thread[t].run)
    BY <2>1, <2>2, NoneAssumption DEF Contract!Fail, Phase, By
  <2>. QED BY <2>1, <2>3 DEF Contract!Next
<1>. QED BY <1>1, <1>2, <1>3, <1>4, Visible

\* For any threads, runs and providers the client implements the lifecycle
\* contract: one run decides, failure is final, success can be closed and
\* opened again.
THEOREM ImplementsContractHolds == Spec => ImplementsContract
<1>1. Init => Contract!Init
  BY DEF Init, Contract!Init, Phase, By
<1>2. IInv /\ [Next]_vars => [Contract!Next]_(Contract!vars)
  BY StepImplements
<1>. QED BY <1>1, <1>2, Inductive, PTL DEF Spec, ImplementsContract, Contract!Spec
=============================================================================
