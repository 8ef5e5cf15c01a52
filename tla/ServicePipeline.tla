-------------------------- MODULE ServicePipeline --------------------------
(***************************************************************************)
(* The operations of both memory services (memory/service.py): look the    *)
(* provider and its pipeline up, run the hooks around the provider call,   *)
(* split an ingest into items and merge their results.  Each provider call *)
(* goes through _run_operation of the provider base class                  *)
(* (memory/provider.py).  Every hook and provider call may suspend, raise  *)
(* or be cancelled; meanwhile the service may be closed and opened again   *)
(* with other providers and hooks.                                         *)
(*                                                                         *)
(* One configured provider; the instance of the g-th lifecycle is g.  The  *)
(* request a caller passes is 0, the n requests its preprocess hook makes  *)
(* of it are 1..n.                                                         *)
(***************************************************************************)
EXTENDS Naturals, SequencesExt

CONSTANTS Calls,
          Gens,      \* lifecycles of the service (bounds their number)
          MaxItems,  \* bound on the items a preprocess hook splits an ingest into
          Pipelines, \* the hook bundles registrations may carry
          Answers,   \* the lists of an IngestResult an item may appear in
          None

Kinds == {"created", "updated", "unchanged"}
Ops == {"ingest", "search", "get", "list", "delete"}

ASSUME BoundAssumption == MaxItems \in Nat \ {0} /\ Gens \subseteq Nat /\ Answers \subseteq SUBSET Kinds
ASSUME NoneAssumption == None \notin Nat \cup Pipelines

\* The hooks a bundle has: no preprocess for list, none at all for delete.
ASSUME PipelinesAssumption ==
  Pipelines \subseteq [pre: SUBSET {"ingest", "search", "get"},
                       post: SUBSET {"ingest", "search", "get", "list"}]

VARIABLES serving, \* the instance in _providers, or None
          ready,   \* the instances whose _initialized is true
          hooks,   \* the pipeline registered with each instance
          call,    \* the operations
          wire,    \* the request of each call that is on its way to the backend
          stored   \* what the backend has carried out for each call, in order

serviceVars == <<serving, ready, hooks>>
vars == <<serviceVars, call, wire, stored>>

Errors == {"hook error", "ProviderError", "InvalidScopeError", "NotInitializedError", "cancelled"}
Suspended == {"pre", "provider", "post"}

Requests == 0..MaxItems

NoCall == [pc |-> "idle", op |-> None, gen |-> None, items |-> <<>>, at |-> 0,
           results |-> <<>>, trace |-> <<>>, answer |-> None]

Init ==
  /\ serving = None
  /\ ready = {}
  /\ hooks = [g \in Gens |-> None]
  /\ call = [c \in Calls |-> NoCall]
  /\ wire = [c \in Calls |-> None]
  /\ stored = [c \in Calls |-> <<>>]

HasPre(k) == k.op \in hooks[k.gen].pre
HasPost(k) == k.op \in hooks[k.gen].post

-----------------------------------------------------------------------------
(* The service's own lifecycle, as far as an operation can tell. *)

\* initialize() commits a new provider with its pipeline.
Open(g, p) ==
  /\ serving = None /\ hooks[g] = None
  /\ \A h \in Gens : h < g => hooks[h] # None
  /\ serving' = g
  /\ ready' = ready \cup {g}
  /\ hooks' = [hooks EXCEPT ![g] = p]
  /\ UNCHANGED <<call, wire, stored>>

\* close() reaches the provider, which is found until the maps are cleared.
CloseProvider ==
  /\ serving \in ready
  /\ ready' = ready \ {serving}
  /\ UNCHANGED <<serving, hooks, call, wire, stored>>

\* The maps are cleared also when closing the provider raised and left it ready.
ClearMaps ==
  /\ serving # None
  /\ serving' = None
  /\ UNCHANGED <<ready, hooks, call, wire, stored>>

-----------------------------------------------------------------------------
(* Operations *)

\* _merge_ingest_results: concatenated list by list, in the order of the items.
Merge(results) ==
  [kind \in Kinds |->
     LET listed[n \in 0..Len(results)] ==
           IF n = 0 THEN <<>>
           ELSE IF kind \in results[n].kinds THEN Append(listed[n - 1], results[n].item)
           ELSE listed[n - 1]
     IN listed[Len(results)]]

\* Mutant of Answer: only the last result is returned.
AnswerLast(k) ==
  IF k.op = "ingest" THEN Merge(IF k.results = <<>> THEN <<>> ELSE <<Last(k.results)>>)
  ELSE IF HasPost(k) THEN "page of the hook" ELSE "page of the provider"

\* What the operation returns.  The postprocess hook of an ingest returns nothing;
\* that of a read replaces the page.
Answer(k) ==
  IF k.op = "ingest" THEN Merge(k.results)
  ELSE IF HasPost(k) THEN "page of the hook" ELSE "page of the provider"

\* Mutant of Continue: the scope is checked after the request was sent.
ContinueSendsFirst(c, k) ==
  IF k.at = Len(k.items)
    THEN /\ call' = [call EXCEPT ![c] = [k EXCEPT !.pc = "returned", !.answer = Answer(k)]]
         /\ UNCHANGED wire
    ELSE LET item == k.items[k.at + 1]
             begun == [k EXCEPT !.at = @ + 1, !.trace = Append(@, <<"provider", item>>)]
         IN /\ wire' = [wire EXCEPT ![c] = item]
            /\ \E pc \in {"provider", "InvalidScopeError"} :
                 call' = [call EXCEPT ![c] = [begun EXCEPT !.pc = pc]]

\* The call goes on with its next item, or returns.  _run_operation checks that
\* the provider is ready and the scope complete before anything is sent.
Continue(c, k) ==
  IF k.at = Len(k.items)
    THEN /\ call' = [call EXCEPT ![c] = [k EXCEPT !.pc = "returned", !.answer = Answer(k)]]
         /\ UNCHANGED wire
    ELSE LET item == k.items[k.at + 1]
             begun == [k EXCEPT !.at = @ + 1, !.trace = Append(@, <<"provider", item>>)]
         IN \/ /\ k.gen \notin ready
               /\ call' = [call EXCEPT ![c] = [begun EXCEPT !.pc = "NotInitializedError"]]
               /\ UNCHANGED wire
            \/ /\ k.gen \in ready
               /\ call' = [call EXCEPT ![c] = [begun EXCEPT !.pc = "InvalidScopeError"]]
               /\ UNCHANGED wire
            \/ /\ k.gen \in ready
               /\ call' = [call EXCEPT ![c] = [begun EXCEPT !.pc = "provider"]]
               /\ wire' = [wire EXCEPT ![c] = item]

\* Without a provider in the map get_provider raises at once, which is no step.
Start(c, op) ==
  /\ call[c].pc = "idle"
  /\ serving # None
  /\ LET k == [NoCall EXCEPT !.op = op, !.gen = serving, !.items = <<0>>]
     IN IF HasPre(k)
          THEN /\ call' = [call EXCEPT ![c] = [k EXCEPT !.pc = "pre", !.trace = <<<<"pre", 0>>>>]]
               /\ UNCHANGED wire
          ELSE Continue(c, k)
  /\ UNCHANGED <<serviceVars, stored>>

\* Mutant of PreReturns: the original request follows the processed ones.
PreReturnsKeeping(c) ==
  /\ call[c].pc = "pre"
  /\ \E n \in IF call[c].op = "ingest" THEN Requests ELSE {1} :
       Continue(c, [call[c] EXCEPT !.items = Append([i \in 1..n |-> i], 0)])
  /\ UNCHANGED <<serviceVars, stored>>

\* preprocess_ingest may return any number of items, the other hooks return one.
PreReturns(c) ==
  /\ call[c].pc = "pre"
  /\ \E n \in IF call[c].op = "ingest" THEN Requests ELSE {1} :
       Continue(c, [call[c] EXCEPT !.items = [i \in 1..n |-> i]])
  /\ UNCHANGED <<serviceVars, stored>>

\* Mutant of AfterProvider: items are sent first and postprocessed at the end.
AfterProviderLate(c, k) ==
  IF HasPost(k) /\ k.at = Len(k.items)
    THEN /\ call' = [call EXCEPT ![c] = [k EXCEPT !.pc = "post",
                                         !.trace = Append(@, <<"post", k.items[k.at]>>)]]
         /\ UNCHANGED wire
    ELSE Continue(c, k)

\* The item's postprocess hook sees the item that was sent, then the loop goes on.
AfterProvider(c, k) ==
  IF HasPost(k)
    THEN /\ call' = [call EXCEPT ![c] = [k EXCEPT !.pc = "post",
                                         !.trace = Append(@, <<"post", k.items[k.at]>>)]]
         /\ UNCHANGED wire
    ELSE Continue(c, k)

\* The provider answers with what the backend did.
ProviderAnswers(c) ==
  /\ call[c].pc = "provider" /\ wire[c] = None
  /\ stored[c] # <<>> /\ Last(stored[c]).item = call[c].items[call[c].at]
  /\ AfterProvider(c, [call[c] EXCEPT !.results = Append(@, Last(stored[c]))])
  /\ UNCHANGED <<serviceVars, stored>>

PostReturns(c) ==
  /\ call[c].pc = "post"
  /\ Continue(c, call[c])
  /\ UNCHANGED <<serviceVars, stored>>

\* Mutant of Raise: the loop skips an item the provider failed on.
RaiseSkips(c, why) ==
  /\ IF why = "ProviderError" /\ call[c].at < Len(call[c].items)
       THEN Continue(c, call[c])
       ELSE call' = [call EXCEPT ![c].pc = why] /\ UNCHANGED wire
  /\ UNCHANGED <<serviceVars, stored>>

\* Nothing in the service catches: the exception of the first hook or provider
\* call that raises leaves the operation.
Raise(c, why) ==
  /\ call' = [call EXCEPT ![c].pc = why]
  /\ UNCHANGED <<serviceVars, wire, stored>>

HookRaises(c) == call[c].pc \in {"pre", "post"} /\ Raise(c, "hook error")

\* _run_operation wraps what the transport raises, whether or not the request
\* arrived.
ProviderRaises(c) == call[c].pc = "provider" /\ Raise(c, "ProviderError")

\* The task is cancelled (async), or Ctrl-C is pressed (sync).
Cancel(c) == call[c].pc \in Suspended /\ Raise(c, "cancelled")

-----------------------------------------------------------------------------
(* The backend: external *)

\* A request arrives, also after its caller has given up waiting.
Arrives(c) ==
  /\ wire[c] # None
  /\ \E kinds \in Answers :
       stored' = [stored EXCEPT ![c] = Append(@, [item |-> wire[c], kinds |-> kinds, gen |-> call[c].gen])]
  /\ wire' = [wire EXCEPT ![c] = None]
  /\ UNCHANGED <<serviceVars, call>>

-----------------------------------------------------------------------------
Step(c) ==
  \/ \E op \in Ops : Start(c, op)
  \/ PreReturns(c) \/ ProviderAnswers(c) \/ PostReturns(c)
  \/ HookRaises(c) \/ ProviderRaises(c) \/ Cancel(c)
  \/ Arrives(c)

Next ==
  \/ \E g \in Gens, p \in Pipelines : Open(g, p)
  \/ CloseProvider \/ ClearMaps
  \/ \E c \in Calls : Step(c)

Spec == Init /\ [][Next]_vars

-----------------------------------------------------------------------------
(* Properties *)

\* Every variable keeps its type.
TypeOK ==
  /\ serving \in Gens \cup {None}
  /\ ready \subseteq Gens
  /\ hooks \in [Gens -> Pipelines \cup {None}]
  /\ \A c \in Calls :
       /\ call[c].pc \in {"idle", "returned"} \cup Suspended \cup Errors
       /\ call[c].op \in Ops \cup {None} /\ call[c].gen \in Gens \cup {None}
       /\ call[c].items \in Seq(Requests) /\ call[c].at \in 0..Len(call[c].items)
       /\ stored[c] \in Seq([item: Requests, kinds: Answers, gen: Gens])
       /\ call[c].results \in Seq([item: Requests, kinds: Answers, gen: Gens])
       /\ wire[c] \in Requests \cup {None}

StoredItems(c) == [i \in DOMAIN stored[c] |-> stored[c][i].item]

\* A call that fails in the middle of a split leaves the items before the failure
\* at the backend and none after it: each item of the split arrives at most once, in the
\* order of the split, without gaps, and all of them when the call returns
\* (MemoryService.ingest, "earlier items remain persisted").
PersistedPrefix ==
  \A c \in Calls :
    /\ IsPrefix(StoredItems(c), call[c].items)
    /\ Len(call[c].results) <= Len(stored[c]) /\ Len(stored[c]) <= Len(call[c].results) + 1
    /\ call[c].pc = "returned" => Len(stored[c]) = Len(call[c].items)

\* Of a call's steps those before its first item, and those of one item.
Before(k) == IF HasPre(k) THEN 1 ELSE 0
PerItem(k) == IF HasPost(k) THEN 2 ELSE 1

\* The n-th step of a call: its preprocess hook, or what the item whose turn it is gets.
StepOf(k, n) ==
  IF n <= Before(k) THEN <<"pre", 0>>
  ELSE LET m == n - Before(k)
       IN <<IF HasPost(k) /\ m % 2 = 0 THEN "post" ELSE "provider",
            k.items[(m - 1) \div PerItem(k) + 1]>>

Prescribed(k) == [n \in 1..(Before(k) + PerItem(k) * Len(k.items)) |-> StepOf(k, n)]

\* Hooks and provider calls happen in the prescribed order, item by item, each item
\* postprocessed before the next is sent, and only processed requests reach the
\* provider and the postprocess hook; of a list the original does (service.py docstrings).
HooksEnclose ==
  \A c \in Calls : LET k == call[c] IN
    /\ k.at = 0 \/ IsPrefix(k.trace, Prescribed(k))
    /\ k.pc = "returned" => k.trace = Prescribed(k)
    /\ \A i \in DOMAIN k.trace : k.trace[i][1] # "pre" => (k.trace[i][2] = 0 <=> ~HasPre(k))

\* A caller can tell from the error of an ingest what the backend has: after a readiness
\* or scope error everything before the refused item, after a hook error everything that
\* was begun; only a ProviderError or a cancellation leaves the last item in doubt.
ErrorTellsWhatIsStored ==
  \A c \in Calls :
    /\ call[c].pc \in {"NotInitializedError", "InvalidScopeError"} =>
         Len(stored[c]) = call[c].at - 1 /\ wire[c] = None
    /\ call[c].pc = "hook error" => Len(stored[c]) = call[c].at /\ wire[c] = None

\* A successful call reports what the backend did: each item it created, updated or left
\* unchanged, in the order of the split; a read returns the page its hook made.
AnswerMatchesBackend ==
  \A c \in Calls : LET k == call[c] IN k.pc = "returned" =>
    IF k.op = "ingest"
      THEN \A kind \in Kinds :
             /\ Range(k.answer[kind]) = {stored[c][i].item : i \in {j \in DOMAIN stored[c] : kind \in stored[c][j].kinds}}
             /\ \A i, j \in DOMAIN k.answer[kind] : i < j => k.answer[kind][i] < k.answer[kind][j]
      ELSE k.answer = "page of the hook" <=> \E i \in DOMAIN k.trace : k.trace[i][1] = "post"
=============================================================================
