------------------------ MODULE AsyncMemoryService ------------------------
(***************************************************************************)
(* AsyncMemoryService.initialize and .close (memory/service.py), the       *)
(* provider router behind AsyncMemoryClient.  A call of initialize() runs  *)
(* inside an asyncio Task, named here by a member of Runs.  A coroutine    *)
(* runs without interruption up to its next await, so one action is the    *)
(* code between two awaits.  Every await on a factory or on a provider may *)
(* suspend, and any suspended coroutine may be the next to run.            *)
(*                                                                         *)
(* The n-th entry of provider_configs is named n; the provider instance    *)
(* that run r builds for it is <<r, n>>.                                   *)
(***************************************************************************)
EXTENDS Naturals

CONSTANTS Names,    \* positions of the configured providers
          Default,  \* position of the default provider
          Runs,     \* identities of initialization runs (bounds their number)
          None

ASSUME NamesAssumption == Names \subseteq Nat /\ Default \in Names
ASSUME NoneAssumption == None \notin Names /\ None \notin Runs

VARIABLES run,        \* the initialization tasks
          inst,       \* what became of each provider instance
          providers   \* the run whose staged dict is self._providers, or None

serviceVars == <<run, inst, providers>>

Outcomes == {"ok", "failed", "cancelled"}

\* "new": task created, body not begun.  "factory"/"opening": awaiting the
\* factory / provider.initialize() of name cur.  "teardown": awaiting the
\* gathered close() calls of the except branch.
RunPC == {"unused", "new", "factory", "opening", "teardown"} \cup Outcomes

\* "closed": close() ran to its end, raising or not.  "interrupted": close()
\* was cancelled before its end.
InstanceStates == {"absent", "staged", "open", "closing", "closed", "interrupted"}

RunRecord == [pc: RunPC, todo: SUBSET Names, cur: Names \cup {None},
              cancel: BOOLEAN, why: Outcomes]

Idle == [pc |-> "unused", todo |-> {}, cur |-> None, cancel |-> FALSE, why |-> "ok"]

ServiceInit ==
  /\ run = [r \in Runs |-> Idle]
  /\ inst = [r \in Runs |-> [n \in Names |-> "absent"]]
  /\ providers = None

Ended(r) == run[r].pc \in Outcomes
Pending(r) == run[r].pc \in {"new", "factory", "opening", "teardown"}
StagedIn(ins, r) == {n \in Names : ins[r][n] # "absent"}

\* n is the first of the names in S in the order of provider_configs.
First(n, S) == n \in S /\ \A m \in S : n <= m

-----------------------------------------------------------------------------
(* initialize() *)

\* asyncio.ensure_future: reg is the set of names the registry has a factory for.
StartRun(r, reg) ==
  run' = [run EXCEPT ![r] = [pc |-> "new", todo |-> reg, cur |-> None,
                             cancel |-> FALSE, why |-> "ok"]]

\* Mutant of Unwind: a provider whose initialize() raised is not closed.
UnwindOpenedOnly(r, ins, why) ==
  LET opened == {n \in Names : ins[r][n] = "open"}
  IN /\ run' = [run EXCEPT ![r].pc = IF opened = {} THEN why ELSE "teardown",
                           ![r].cancel = FALSE, ![r].why = why]
     /\ inst' = [ins EXCEPT ![r] = [n \in Names |-> IF n \in opened THEN "closing" ELSE ins[r][n]]]
     /\ UNCHANGED providers

\* except BaseException: gather the close() of everything staged.  With nothing
\* staged the gather is complete at once and the exception leaves in this step.
Unwind(r, ins, why) ==
  /\ IF StagedIn(ins, r) = {}
       THEN /\ run' = [run EXCEPT ![r] = [@ EXCEPT !.pc = why, !.cancel = FALSE]]
            /\ inst' = ins
       ELSE /\ run' = [run EXCEPT ![r] = [@ EXCEPT !.pc = "teardown", !.cancel = FALSE, !.why = why]]
            /\ inst' = [ins EXCEPT ![r] =
                          [n \in Names |-> IF ins[r][n] = "absent" THEN "absent" ELSE "closing"]]
  /\ UNCHANGED providers

\* Mutant of Proceed: every provider is registered as soon as it is open.
ProceedUnstaged(r, ins) ==
  \/ \E n \in run[r].todo :
       /\ First(n, run[r].todo)
       /\ run' = [run EXCEPT ![r].pc = "factory", ![r].cur = n, ![r].todo = run[r].todo \ {n}]
       /\ inst' = ins
       /\ providers' = IF StagedIn(ins, r) = {} THEN providers ELSE r
  \/ /\ run[r].todo = {}
     /\ run' = [run EXCEPT ![r].pc = "ok"]
     /\ inst' = ins
     /\ providers' = r

\* The rest of the for loop: call the next factory, or commit, or find that the
\* default provider was never staged.
Proceed(r, ins) ==
  \/ \E n \in run[r].todo :
       /\ First(n, run[r].todo)
       /\ run' = [run EXCEPT ![r] = [@ EXCEPT !.pc = "factory", !.cur = n, !.todo = run[r].todo \ {n}]]
       /\ inst' = ins
       /\ UNCHANGED providers
  \/ /\ run[r].todo = {}
     /\ Default \in StagedIn(ins, r)
     /\ run' = [run EXCEPT ![r].pc = "ok"]
     /\ inst' = ins
     /\ providers' = r
  \/ /\ run[r].todo = {}
     /\ Default \notin StagedIn(ins, r)
     /\ Unwind(r, ins, "failed")

Begin(r) ==
  /\ run[r].pc = "new" /\ ~run[r].cancel
  /\ Proceed(r, inst)

FactoryReturns(r) ==
  /\ run[r].pc = "factory" /\ ~run[r].cancel
  /\ run' = [run EXCEPT ![r].pc = "opening"]
  /\ inst' = [inst EXCEPT ![r][run[r].cur] = "staged"]
  /\ UNCHANGED providers

FactoryRaises(r) ==
  /\ run[r].pc = "factory" /\ ~run[r].cancel
  /\ Unwind(r, inst, "failed")

ProviderOpens(r) ==
  /\ run[r].pc = "opening" /\ ~run[r].cancel
  /\ Proceed(r, [inst EXCEPT ![r][run[r].cur] = "open"])

ProviderOpenRaises(r) ==
  /\ run[r].pc = "opening" /\ ~run[r].cancel
  /\ Unwind(r, inst, "failed")

\* A requested cancellation is thrown at the await the run is suspended in.  A
\* task cancelled before its first step never enters its body.
CancelDelivered(r) ==
  /\ run[r].pc \in {"new", "factory", "opening"} /\ run[r].cancel
  /\ Unwind(r, inst, "cancelled")

\* One of the gathered close() calls ends; return_exceptions hides a failure.
StagedCloses(r, n) ==
  /\ run[r].pc = "teardown" /\ inst[r][n] = "closing"
  /\ inst' = [inst EXCEPT ![r][n] = "closed"]
  /\ UNCHANGED <<run, providers>>

\* Mutant of TeardownEnds: a close() that was cancelled is waited for.
TeardownHangs(r) ==
  /\ run[r].pc = "teardown"
  /\ \A n \in Names : inst[r][n] \in {"absent", "closed"}
  /\ run' = [run EXCEPT ![r].pc = run[r].why, ![r].cancel = FALSE]
  /\ UNCHANGED <<inst, providers>>

\* The gather is over: the original exception is raised again, unless the gather
\* itself was cancelled, which replaces it by CancelledError.
TeardownEnds(r) ==
  /\ run[r].pc = "teardown"
  /\ \A n \in Names : inst[r][n] # "closing"
  /\ run' = [run EXCEPT ![r] =
                [@ EXCEPT !.pc = IF run[r].cancel THEN "cancelled" ELSE run[r].why, !.cancel = FALSE]]
  /\ UNCHANGED <<inst, providers>>

ServiceInitialize(r) ==
  \/ Begin(r) \/ FactoryReturns(r) \/ FactoryRaises(r)
  \/ ProviderOpens(r) \/ ProviderOpenRaises(r) \/ CancelDelivered(r)
  \/ \E n \in Names : StagedCloses(r, n)
  \/ TeardownEnds(r)

\* Task.cancel() on a pending run.  During the teardown it reaches the gather,
\* which cancels every close() that has not ended.
CancelRun(r) ==
  /\ run' = [run EXCEPT ![r].cancel = TRUE]
  /\ inst' = IF run[r].pc # "teardown" THEN inst
             ELSE [inst EXCEPT ![r] =
                     [n \in Names |-> IF inst[r][n] = "closing" THEN "interrupted" ELSE inst[r][n]]]

-----------------------------------------------------------------------------
(* close(): the providers of the dict captured when the loop began, in order *)

\* Calling close() on an instance another closer has finished leaves it closed.
CloseCalled(r, n) ==
  inst' = [inst EXCEPT ![r][n] = IF @ = "closed" THEN "closed" ELSE "closing"]

CloseCalledAfter(r, done, n) ==
  inst' = [inst EXCEPT ![r][done] = "closed",
                       ![r][n] = IF @ = "closed" THEN "closed" ELSE "closing"]

CloseCancelled(r, n) ==
  inst' = [inst EXCEPT ![r][n] = IF @ = "closed" THEN "closed" ELSE "interrupted"]

\* finally: drop the maps, whatever they hold by now.
ClearMaps == providers' = None
=============================================================================
