----------------------- MODULE ServicePipelineProofs -----------------------
(***************************************************************************)
(* What a caller of ServicePipeline may conclude about the backend, for    *)
(* any number of calls, lifecycles, items and hook bundles.  The invariant *)
(* says for each place a call may be in how many of its items the backend  *)
(* has, how many of their results the call has, and whether one more is on *)
(* its way.                                                                *)
(***************************************************************************)
EXTENDS ServicePipeline, SequenceTheorems, WellFoundedInduction, TLAPS

Fields == {"pc", "op", "gen", "items", "at", "results", "trace", "answer"}
Stored == [item: Requests, kinds: Answers, gen: Gens]

\* A call record; what is in its trace and its answer is of no interest here.
IsCall(k) ==
  /\ k = [f \in Fields |-> k[f]]
  /\ k.pc \in {"idle", "returned"} \cup Suspended \cup Errors
  /\ k.op \in Ops \cup {None}
  /\ k.gen \in Gens \cup {None} /\ (k.pc # "idle" => k.gen \in Gens)
  /\ k.items \in Seq(Requests) /\ k.at \in Nat /\ k.at <= Len(k.items)
  /\ k.results \in Seq(Stored)

\* The backend has the first at items of the call, or all but the last of them.
Sent(k, st) ==
  /\ st \in Seq(Stored)
  /\ Len(st) \in {k.at, k.at - 1}
  /\ \A i \in 1..Len(st) : st[i].item = k.items[i]

\* Every item that was begun was stored and answered.
Settled(k, st, w) == w = None /\ Len(st) = k.at /\ Len(k.results) = k.at

\* One more was begun: it is on its way, or stored, and not answered.
Begun(k, st, w) ==
  /\ k.at >= 1 /\ Len(k.results) = k.at - 1
  /\ \/ w = None /\ Len(st) = k.at
     \/ w = k.items[k.at] /\ Len(st) = k.at - 1

\* What the place of a call says of its request on the wire and of the backend.
CallOK(k, st, w) ==
  /\ IsCall(k) /\ Sent(k, st)
  /\ k.pc \in {"idle", "pre"} => k.at = 0
  /\ k.pc = "returned" => k.at = Len(k.items)
  /\ k.pc \in {"idle", "pre", "post", "returned", "hook error"} => Settled(k, st, w)
  /\ k.pc \in {"provider", "ProviderError"} => Begun(k, st, w)
  /\ k.pc = "cancelled" => Settled(k, st, w) \/ Begun(k, st, w)
  /\ k.pc \in {"NotInitializedError", "InvalidScopeError"} =>
       /\ w = None /\ k.at >= 1
       /\ Len(st) = k.at - 1 /\ Len(k.results) = k.at - 1

ServiceOK ==
  /\ serving \in Gens \cup {None}
  /\ ready \subseteq Gens
  /\ hooks \in [Gens -> Pipelines \cup {None}]

CallsOK ==
  /\ call = [c \in Calls |-> call[c]]
  /\ stored = [c \in Calls |-> stored[c]]
  /\ wire \in [Calls -> Requests \cup {None}]
  /\ \A c \in Calls : CallOK(call[c], stored[c], wire[c])

IInv == ServiceOK /\ CallsOK

-----------------------------------------------------------------------------
LEMMA ItemTypes ==
  /\ Requests \subseteq Nat /\ 0 \in Requests /\ None \notin Requests
  /\ \A n \in Requests : [i \in 1..n |-> i] \in Seq(Requests) /\ Len([i \in 1..n |-> i]) = n
  /\ 1 \in Requests
<1>1. Requests \subseteq Nat /\ 0 \in Requests /\ None \notin Requests /\ 1 \in Requests
  BY BoundAssumption, NoneAssumption DEF Requests
<1>2. ASSUME NEW n \in Requests
      PROVE  [i \in 1..n |-> i] \in Seq(Requests) /\ Len([i \in 1..n |-> i]) = n
  <2>1. \A i \in 1..n : i \in Requests
    BY BoundAssumption DEF Requests
  <2>. QED BY <1>1, <2>1
<1>. QED BY <1>1, <1>2

LEMMA NoCallOK == CallOK(NoCall, <<>>, None)
<1>1. IsCall(NoCall)
  BY DEF NoCall, IsCall, Fields, Suspended, Errors
<1>. QED BY <1>1 DEF NoCall, CallOK, Sent, Settled

\* A step of one call that leaves it in a consistent place leaves all so.
LEMMA OneCallStep ==
  ASSUME IInv, NEW c \in Calls, NEW k, NEW st, NEW w \in Requests \cup {None},
         call' = [call EXCEPT ![c] = k], stored' = [stored EXCEPT ![c] = st],
         wire' = [wire EXCEPT ![c] = w], CallOK(k, st, w)
  PROVE  CallsOK'
BY DEF IInv, CallsOK

\* The call goes on: with everything begun so far settled, what Continue does
\* leaves it with one more item begun, or refused, or at its end.
LEMMA ContinueStep ==
  ASSUME IInv, NEW c \in Calls, NEW k, IsCall(k), k.gen \in Gens,
         Sent(k, stored[c]), Settled(k, stored[c], wire[c]),
         Continue(c, k), stored' = stored
  PROVE  CallsOK'
<1>0. stored' = [stored EXCEPT ![c] = stored[c]] /\ wire[c] = None
      /\ wire = [wire EXCEPT ![c] = None]
  BY DEF IInv, CallsOK, Settled
<1>1. CASE k.at = Len(k.items)
  <2> DEFINE q == [k EXCEPT !.pc = "returned", !.answer = Answer(k)]
  <2>1. call' = [call EXCEPT ![c] = q] /\ wire' = [wire EXCEPT ![c] = None]
    BY <1>0, <1>1 DEF Continue
  <2>2. q = [f \in Fields |-> q[f]] /\ q.pc = "returned"
        /\ q.op = k.op /\ q.gen = k.gen /\ q.items = k.items /\ q.at = k.at /\ q.results = k.results
    BY DEF IsCall, Fields
  <2> HIDE DEF q
  <2>3. CallOK(q, stored[c], None)
    BY <1>0, <1>1, <2>2 DEF CallOK, IsCall, Sent, Settled
  <2>. QED BY <1>0, <2>1, <2>3, OneCallStep
<1>2. CASE k.at # Len(k.items)
  <2> DEFINE item == k.items[k.at + 1]
             begun == [k EXCEPT !.at = @ + 1, !.trace = Append(@, <<"provider", item>>)]
  <2>1. PICK pc \in {"NotInitializedError", "InvalidScopeError", "provider"} :
          /\ call' = [call EXCEPT ![c] = [begun EXCEPT !.pc = pc]]
          /\ wire' = [wire EXCEPT ![c] = IF pc = "provider" THEN item ELSE None]
    BY <1>0, <1>2 DEF Continue
  <2> DEFINE q == [begun EXCEPT !.pc = pc]
  <2>2. q = [f \in Fields |-> q[f]] /\ q.pc = pc
        /\ q.op = k.op /\ q.gen = k.gen /\ q.items = k.items /\ q.at = k.at + 1 /\ q.results = k.results
    BY DEF IsCall, Fields
  <2>3. k.at + 1 \in 1..Len(k.items) /\ item \in Requests
    BY <1>2 DEF IsCall
  <2>4. call' = [call EXCEPT ![c] = q]
    BY <2>1
  <2> DEFINE w == IF pc = "provider" THEN item ELSE None
  <2>5. /\ wire' = [wire EXCEPT ![c] = w] /\ w \in Requests \cup {None}
        /\ pc = "provider" => w = q.items[q.at]
        /\ pc # "provider" => w = None
    BY <2>1, <2>2, <2>3
  <2> HIDE DEF q, begun, item, w
  <2>6. IsCall(q)
    <3>1. q.pc \in Suspended \cup Errors
      BY <2>2 DEF Suspended, Errors
    <3>2. q.at \in Nat /\ q.at <= Len(q.items)
      BY <2>2, <2>3 DEF IsCall
    <3>. QED BY <2>2, <3>1, <3>2 DEF IsCall
  <2>7. Sent(q, stored[c])
    <3>1. Len(stored[c]) = q.at - 1 /\ Len(q.results) = q.at - 1 /\ q.at >= 1
      BY <2>2 DEF Settled, IsCall
    <3>. QED BY <2>2, <3>1 DEF Sent
  <2>8. CallOK(q, stored[c], w)
    <3>1. Len(stored[c]) = q.at - 1 /\ Len(q.results) = q.at - 1 /\ q.at >= 1
      BY <2>2 DEF Settled, IsCall
    <3>. QED BY <2>2, <2>5, <2>6, <2>7, <3>1 DEF CallOK, Begun
  <2>. QED BY <1>0, <2>4, <2>5, <2>8, OneCallStep
<1>. QED BY <1>1, <1>2

LEMMA InitInv == Init => IInv
<1> SUFFICES ASSUME Init PROVE IInv
  OBVIOUS
<1>1. ServiceOK
  BY DEF Init, ServiceOK
<1>2. CallsOK
  BY NoCallOK DEF Init, CallsOK
<1>. QED BY <1>1, <1>2 DEF IInv

\* Every operation begins with nothing sent.
LEMMA StartInv ==
  ASSUME IInv, NEW c \in Calls, NEW op \in Ops, Start(c, op)
  PROVE  CallsOK'
<1> DEFINE k == [NoCall EXCEPT !.op = op, !.gen = serving, !.items = <<0>>]
<1>1. /\ k.pc = "idle" /\ k.at = 0 /\ k.items = <<0>> /\ k.results = <<>>
      /\ k.gen = serving /\ k.op = op /\ k.trace = <<>>
      /\ k = [f \in Fields |-> k[f]]
  BY DEF NoCall, Fields
<1>2. serving \in Gens /\ stored' = stored /\ call[c].pc = "idle"
  BY DEF Start, IInv, ServiceOK
<1>3. \/ Continue(c, k)
      \/ /\ call' = [call EXCEPT ![c] = [k EXCEPT !.pc = "pre", !.trace = <<<<"pre", 0>>>>]]
         /\ UNCHANGED wire
  BY DEF Start
<1> HIDE DEF k
<1>4. CallOK(call[c], stored[c], wire[c]) /\ stored = [stored EXCEPT ![c] = stored[c]]
      /\ wire = [wire EXCEPT ![c] = wire[c]] /\ wire[c] \in Requests \cup {None}
  BY DEF IInv, CallsOK
<1>5. stored[c] \in Seq(Stored) /\ Len(stored[c]) = 0 /\ wire[c] = None
  BY <1>2, <1>4 DEF CallOK, Sent, Settled
<1>6. IsCall(k)
  BY <1>1, <1>2, ItemTypes DEF IsCall
<1>7. Sent(k, stored[c]) /\ Settled(k, stored[c], wire[c])
  BY <1>1, <1>5 DEF Sent, Settled
<1>8. CASE Continue(c, k)
  BY <1>1, <1>2, <1>6, <1>7, <1>8, ContinueStep
<1>9. CASE /\ call' = [call EXCEPT ![c] = [k EXCEPT !.pc = "pre", !.trace = <<<<"pre", 0>>>>]]
           /\ UNCHANGED wire
  <2> DEFINE q == [k EXCEPT !.pc = "pre", !.trace = <<<<"pre", 0>>>>]
  <2>1. q = [f \in Fields |-> q[f]] /\ q.pc = "pre"
        /\ q.op = k.op /\ q.gen = k.gen /\ q.items = k.items /\ q.at = k.at /\ q.results = k.results
    BY <1>1 DEF Fields
  <2>4. call' = [call EXCEPT ![c] = q]
    BY <1>9
  <2> HIDE DEF q
  <2>2. IsCall(q)
    BY <1>1, <1>2, <1>6, <2>1 DEF IsCall, Suspended
  <2>3. CallOK(q, stored[c], wire[c])
    BY <1>1, <1>7, <2>1, <2>2 DEF CallOK, Sent, Settled
  <2>5. stored' = [stored EXCEPT ![c] = stored[c]] /\ wire' = [wire EXCEPT ![c] = wire[c]]
    BY <1>2, <1>4, <1>9
  <2>. QED BY <1>4, <2>3, <2>4, <2>5, OneCallStep
<1>. QED BY <1>3, <1>8, <1>9

\* The preprocess hook returns before anything was sent.
LEMMA PreReturnsInv ==
  ASSUME IInv, NEW c \in Calls, PreReturns(c)
  PROVE  CallsOK'
<1>0. CallOK(call[c], stored[c], wire[c]) /\ call[c].pc = "pre" /\ stored' = stored
  BY DEF PreReturns, IInv, CallsOK
<1>1. PICK n \in IF call[c].op = "ingest" THEN Requests ELSE {1} :
        Continue(c, [call[c] EXCEPT !.items = [i \in 1..n |-> i]])
  BY DEF PreReturns
<1>2. n \in Nat /\ [i \in 1..n |-> i] \in Seq(Requests) /\ Len([i \in 1..n |-> i]) = n
  <2>1. n \in Requests
    BY ItemTypes
  <2>2. \A j \in Requests : [i \in 1..j |-> i] \in Seq(Requests) /\ Len([i \in 1..j |-> i]) = j
    BY ItemTypes
  <2>3. n \in Nat
    BY <2>1, ItemTypes
  <2>. QED BY <2>1, <2>2, <2>3
<1> DEFINE k == [call[c] EXCEPT !.items = [i \in 1..n |-> i]]
<1>3. /\ k = [f \in Fields |-> k[f]] /\ k.items = [i \in 1..n |-> i]
      /\ k.pc = "pre" /\ k.op = call[c].op /\ k.gen = call[c].gen
      /\ k.at = call[c].at /\ k.results = call[c].results
  BY <1>0 DEF CallOK, IsCall, Fields
<1> HIDE DEF k
<1>4. k.at = 0 /\ Settled(k, stored[c], wire[c]) /\ k.gen \in Gens
  BY <1>0, <1>3 DEF CallOK, Settled, IsCall
<1>5. IsCall(k)
  <2>1. k.items \in Seq(Requests) /\ Len(k.items) \in Nat
    BY <1>2, <1>3
  <2>2. IsCall(call[c])
    BY <1>0 DEF CallOK
  <2>3. /\ k = [f \in Fields |-> k[f]] /\ k.op = call[c].op /\ k.gen = call[c].gen
        /\ k.pc = call[c].pc /\ k.results = call[c].results
    BY <1>0, <1>3
  <2>. QED BY <1>4, <2>1, <2>2, <2>3 DEF IsCall
<1>6. Sent(k, stored[c])
  BY <1>0, <1>3, <1>4 DEF CallOK, Sent, Settled
<1>. QED BY <1>0, <1>1, <1>4, <1>5, <1>6, ContinueStep DEF k

\* The provider returns the result of the item that was sent last.
LEMMA ProviderAnswersInv ==
  ASSUME IInv, NEW c \in Calls, ProviderAnswers(c)
  PROVE  CallsOK'
<1>0. /\ CallOK(call[c], stored[c], wire[c]) /\ call[c].pc = "provider" /\ stored' = stored
      /\ stored = [stored EXCEPT ![c] = stored[c]] /\ wire[c] = None /\ stored[c] # <<>>
      /\ wire = [wire EXCEPT ![c] = None]
  BY DEF ProviderAnswers, IInv, CallsOK
<1>1. Last(stored[c]) \in Stored
  BY <1>0 DEF CallOK, Sent, Last
<1> DEFINE k == [call[c] EXCEPT !.results = Append(@, Last(stored[c]))]
<1>2. /\ k = [f \in Fields |-> k[f]] /\ k.results = Append(call[c].results, Last(stored[c]))
      /\ k.pc = "provider" /\ k.op = call[c].op /\ k.gen = call[c].gen
      /\ k.at = call[c].at /\ k.items = call[c].items
  BY <1>0 DEF CallOK, IsCall, Fields
<1>3. AfterProvider(c, k)
  BY DEF ProviderAnswers
<1> HIDE DEF k
<1>4. k.results \in Seq(Stored) /\ Len(k.results) = k.at /\ Len(stored[c]) = k.at
  <2>1. Begun(call[c], stored[c], None) /\ IsCall(call[c])
    BY <1>0 DEF CallOK
  <2>2. call[c].results \in Seq(Stored) /\ Len(call[c].results) = call[c].at - 1 /\ call[c].at \in Nat
    BY <2>1 DEF Begun, IsCall
  <2>3. call[c].items[call[c].at] # None
    BY <2>1, ItemTypes DEF Begun, IsCall
  <2>4. Len(stored[c]) = call[c].at
    BY <2>1, <2>3 DEF Begun
  <2>5. k.results \in Seq(Stored) /\ Len(k.results) = Len(call[c].results) + 1
    <3> DEFINE last == Last(stored[c])
               rs == call[c].results
    <3>1. last \in Stored /\ rs \in Seq(Stored)
      BY <1>1, <2>2
    <3> HIDE DEF last, rs
    <3>2. Append(rs, last) \in Seq(Stored) /\ Len(Append(rs, last)) = Len(rs) + 1
      BY <3>1
    <3>. QED BY <1>2, <3>2 DEF last, rs
  <2>. QED BY <1>2, <2>2, <2>4, <2>5
<1>5. IsCall(k) /\ k.gen \in Gens
  BY <1>0, <1>2, <1>4 DEF CallOK, IsCall
<1>6. Sent(k, stored[c]) /\ Settled(k, stored[c], wire[c])
  BY <1>0, <1>2, <1>4 DEF CallOK, Sent, Settled
<1>7. CASE Continue(c, k)
  BY <1>0, <1>5, <1>6, <1>7, ContinueStep
<1>8. CASE /\ call' = [call EXCEPT ![c] = [k EXCEPT !.pc = "post",
                                           !.trace = Append(@, <<"post", k.items[k.at]>>)]]
           /\ UNCHANGED wire
  <2> DEFINE q == [k EXCEPT !.pc = "post", !.trace = Append(@, <<"post", k.items[k.at]>>)]
  <2>1. q = [f \in Fields |-> q[f]] /\ q.pc = "post"
        /\ q.op = k.op /\ q.gen = k.gen /\ q.items = k.items /\ q.at = k.at /\ q.results = k.results
    BY <1>2 DEF Fields
  <2>2. call' = [call EXCEPT ![c] = q] /\ wire' = [wire EXCEPT ![c] = None]
    BY <1>0, <1>8
  <2> HIDE DEF q
  <2>3. IsCall(q)
    BY <1>5, <2>1 DEF IsCall, Suspended
  <2>4. CallOK(q, stored[c], None)
    BY <1>0, <1>6, <2>1, <2>3 DEF CallOK, Sent, Settled
  <2>. QED BY <1>0, <2>2, <2>4, OneCallStep
<1>. QED BY <1>3, <1>7, <1>8 DEF AfterProvider

LEMMA PostReturnsInv ==
  ASSUME IInv, NEW c \in Calls, PostReturns(c)
  PROVE  CallsOK'
<1>1. /\ CallOK(call[c], stored[c], wire[c]) /\ call[c].pc = "post"
      /\ Continue(c, call[c]) /\ stored' = stored
  BY DEF PostReturns, IInv, CallsOK
<1>2. IsCall(call[c]) /\ call[c].gen \in Gens /\ Sent(call[c], stored[c])
      /\ Settled(call[c], stored[c], wire[c])
  BY <1>1 DEF CallOK, IsCall
<1>. QED BY <1>1, <1>2, ContinueStep

\* An exception or a cancellation ends the call where it is.
LEMMA RaiseInv ==
  ASSUME IInv, NEW c \in Calls, HookRaises(c) \/ ProviderRaises(c) \/ Cancel(c)
  PROVE  CallsOK'
<1>1. PICK why \in {"hook error", "ProviderError", "cancelled"} :
        /\ Raise(c, why)
        /\ call[c].pc \in {"pre", "provider", "post"}
        /\ why = "hook error" => call[c].pc # "provider"
        /\ why = "ProviderError" => call[c].pc = "provider"
  BY DEF HookRaises, ProviderRaises, Cancel, Suspended
<1>2. /\ CallOK(call[c], stored[c], wire[c]) /\ stored' = [stored EXCEPT ![c] = stored[c]]
      /\ wire' = [wire EXCEPT ![c] = wire[c]] /\ wire[c] \in Requests \cup {None}
  BY <1>1 DEF Raise, IInv, CallsOK
<1> DEFINE q == [call[c] EXCEPT !.pc = why]
<1>3. call' = [call EXCEPT ![c] = q]
  BY <1>1 DEF Raise
<1>4. q = [f \in Fields |-> q[f]] /\ q.pc = why /\ q.op = call[c].op /\ q.gen = call[c].gen
      /\ q.items = call[c].items /\ q.at = call[c].at /\ q.results = call[c].results
  BY <1>2 DEF CallOK, IsCall, Fields
<1> HIDE DEF q
<1>5. IsCall(q)
  BY <1>1, <1>2, <1>4 DEF CallOK, IsCall, Errors
<1>6. CallOK(q, stored[c], wire[c])
  BY <1>1, <1>2, <1>4, <1>5 DEF CallOK, Sent, Settled, Begun
<1>. QED BY <1>2, <1>3, <1>6, OneCallStep

\* A request arrives: only one that was begun and not answered can be on its way.
LEMMA ArrivesInv ==
  ASSUME IInv, NEW c \in Calls, Arrives(c)
  PROVE  CallsOK'
<1>1. PICK kinds \in Answers :
        stored' = [stored EXCEPT ![c] = Append(@, [item |-> wire[c], kinds |-> kinds, gen |-> call[c].gen])]
  BY DEF Arrives
<1> DEFINE k == call[c]
           row == [item |-> wire[c], kinds |-> kinds, gen |-> k.gen]
           st == Append(stored[c], row)
<1>2. /\ CallOK(k, stored[c], wire[c]) /\ wire[c] # None /\ wire[c] \in Requests
      /\ call' = [call EXCEPT ![c] = k] /\ wire' = [wire EXCEPT ![c] = None]
      /\ stored' = [stored EXCEPT ![c] = st]
  BY <1>1 DEF Arrives, IInv, CallsOK
<1>3. /\ k.pc \in {"provider", "ProviderError", "cancelled"}
      /\ Begun(k, stored[c], wire[c]) /\ IsCall(k) /\ Sent(k, stored[c])
  BY <1>2 DEF CallOK, Settled, Begun, IsCall, Suspended, Errors
<1>4. /\ k.at >= 1 /\ Len(k.results) = k.at - 1 /\ wire[c] = k.items[k.at]
      /\ Len(stored[c]) = k.at - 1 /\ k.at \in Nat
  BY <1>2, <1>3 DEF Begun, IsCall
<1>5. row \in Stored /\ row.item = k.items[k.at]
  BY <1>2, <1>3, <1>4 DEF Stored, IsCall
<1> HIDE DEF row
<1>6. st \in Seq(Stored) /\ Len(st) = k.at
      /\ \A i \in 1..k.at : st[i].item = k.items[i]
  BY <1>3, <1>4, <1>5 DEF Sent
<1> HIDE DEF st, k
<1>7. CallOK(k, st, None)
  BY <1>3, <1>4, <1>6 DEF CallOK, Sent, Begun
<1>. QED BY <1>2, <1>7, OneCallStep

LEMMA NextInv == IInv /\ [Next]_vars => IInv'
<1> SUFFICES ASSUME IInv, [Next]_vars PROVE IInv'
  OBVIOUS
<1>1. ASSUME NEW c \in Calls, Step(c) PROVE IInv'
  <2>1. CallsOK'
    BY <1>1, StartInv, PreReturnsInv, ProviderAnswersInv, PostReturnsInv, RaiseInv, ArrivesInv DEF Step
  <2>2. UNCHANGED serviceVars
    BY <1>1 DEF Step, Start, PreReturns, ProviderAnswers, PostReturns, HookRaises, ProviderRaises,
                Cancel, Raise, Arrives
  <2>. QED BY <2>1, <2>2 DEF IInv, ServiceOK, serviceVars
<1>2. ASSUME UNCHANGED <<call, wire, stored>> PROVE CallsOK'
  BY <1>2 DEF IInv, CallsOK
<1>3. ASSUME NEW g \in Gens, NEW p \in Pipelines, Open(g, p) PROVE IInv'
  <2>1. ServiceOK'
    BY <1>3 DEF Open, IInv, ServiceOK
  <2>. QED BY <1>2, <1>3, <2>1 DEF Open, IInv
<1>4. CASE CloseProvider \/ ClearMaps
  <2>1. ServiceOK'
    BY <1>4 DEF CloseProvider, ClearMaps, IInv, ServiceOK
  <2>. QED BY <1>2, <1>4, <2>1 DEF CloseProvider, ClearMaps, IInv
<1>5. CASE UNCHANGED vars
  BY <1>2, <1>5 DEF vars, serviceVars, IInv, ServiceOK
<1>. QED BY <1>1, <1>3, <1>4, <1>5 DEF Next

\* The place of a call tells what the backend has of it.
THEOREM Inductive == Spec => []IInv
BY InitInv, NextInv, PTL DEF Spec

\* Every variable keeps its type, for any number of calls, lifecycles and items.
THEOREM TypeCorrect == Spec => []TypeOK
<1>1. IInv => TypeOK
  <2> SUFFICES ASSUME IInv PROVE TypeOK
    OBVIOUS
  <2>1. ASSUME NEW c \in Calls
        PROVE  /\ call[c].pc \in {"idle", "returned"} \cup Suspended \cup Errors
               /\ call[c].op \in Ops \cup {None} /\ call[c].gen \in Gens \cup {None}
               /\ call[c].items \in Seq(Requests) /\ call[c].at \in 0..Len(call[c].items)
               /\ stored[c] \in Seq(Stored) /\ call[c].results \in Seq(Stored)
               /\ wire[c] \in Requests \cup {None}
    <3>1. /\ IsCall(call[c]) /\ Sent(call[c], stored[c])
          /\ wire[c] \in Requests \cup {None}
      BY <2>1 DEF IInv, CallsOK, CallOK
    <3>2. call[c].items \in Seq(Requests) /\ call[c].at \in Nat /\ call[c].at <= Len(call[c].items)
      BY <3>1 DEF IsCall
    <3>3. call[c].at \in 0..Len(call[c].items)
      BY <3>2
    <3>. QED BY <3>1, <3>2, <3>3 DEF IsCall, Sent
  <2>. QED BY <2>1 DEF IInv, ServiceOK, TypeOK, Stored
<1>. QED BY <1>1, Inductive, PTL

\* Whatever fails, is cancelled or answers late, the backend has the first items
\* of a split in their order, all of them when the call returns.
THEOREM PersistedPrefixHolds == Spec => []PersistedPrefix
<1>1. IInv => PersistedPrefix
  <2> SUFFICES ASSUME IInv, NEW c \in Calls
      PROVE  /\ IsPrefix(StoredItems(c), call[c].items)
             /\ Len(call[c].results) <= Len(stored[c]) /\ Len(stored[c]) <= Len(call[c].results) + 1
             /\ call[c].pc = "returned" => Len(stored[c]) = Len(call[c].items)
    BY DEF PersistedPrefix
  <2> DEFINE k == call[c]
             st == stored[c]
             s == StoredItems(c)
  <2>1. CallOK(k, st, wire[c])
    BY DEF IInv, CallsOK
  <2>2. /\ IsCall(k) /\ st \in Seq(Stored) /\ Len(st) \in Nat /\ Len(st) <= k.at
        /\ \A i \in 1..Len(st) : st[i].item = k.items[i]
    <3> HIDE DEF k, st
    <3>1. IsCall(k) /\ Sent(k, st)
      BY <2>1 DEF CallOK
    <3>2. k.at \in Nat
      BY <3>1 DEF IsCall
    <3>. QED BY <3>1, <3>2 DEF Sent
  <2>3. s = [i \in 1..Len(st) |-> k.items[i]]
    BY <2>2 DEF StoredItems
  <2>4. Len(st) <= Len(k.items) /\ k.items \in Seq(Requests)
    BY <2>2 DEF IsCall
  <2>5. s \in Seq(Requests) /\ Len(s) = Len(st)
    <3>1. \A i \in 1..Len(st) : k.items[i] \in Requests
      BY <2>2, <2>4
    <3> HIDE DEF k, st, s
    <3>. QED BY <2>2, <2>3, <3>1
  <2>6. SubSeq(s, 1, Len(s)) = SubSeq(k.items, 1, Len(s))
    <3> HIDE DEF k, st, s
    <3>1. \A i \in 1..Len(s) : s[i] = k.items[i]
      BY <2>3, <2>5
    <3>. QED BY <2>2, <2>4, <2>5, <3>1
  <2>7. IsPrefix(s, k.items)
    BY <2>4, <2>5, <2>6 DEF IsPrefix
  <2>8. Len(k.results) <= Len(st) /\ Len(st) <= Len(k.results) + 1
    <3> HIDE DEF k, st
    <3>1. k.pc \in {"idle", "returned"} \cup Suspended \cup Errors /\ k.at \in Nat
      BY <2>2 DEF IsCall
    <3>2. \/ Settled(k, st, wire[c]) \/ Begun(k, st, wire[c])
          \/ Len(st) = k.at - 1 /\ Len(k.results) = k.at - 1
      BY <2>1, <3>1 DEF CallOK, Suspended, Errors
    <3>. QED BY <3>1, <3>2 DEF Settled, Begun
  <2>9. k.pc = "returned" => Len(st) = Len(k.items)
    BY <2>1 DEF CallOK, Settled
  <2>. QED BY <2>7, <2>8, <2>9
<1>. QED BY <1>1, Inductive, PTL

\* The error of a call tells what the backend has of it.
THEOREM ErrorTellsWhatIsStoredHolds == Spec => []ErrorTellsWhatIsStored
<1>1. IInv => ErrorTellsWhatIsStored
  BY DEF IInv, CallsOK, CallOK, Settled, ErrorTellsWhatIsStored
<1>. QED BY <1>1, Inductive, PTL

-----------------------------------------------------------------------------
(* The steps a call takes.  They depend on the lifecycle the call began in  *)
(* only through the bundle p registered for it, which is registered once.  *)

FirstSteps(k, p) == IF k.op \in p.pre THEN 1 ELSE 0
ItemSteps(k, p) == IF k.op \in p.post THEN 2 ELSE 1

Turn(k, p, n) ==
  IF n <= FirstSteps(k, p) THEN <<"pre", 0>>
  ELSE LET m == n - FirstSteps(k, p)
       IN <<IF k.op \in p.post /\ m % 2 = 0 THEN "post" ELSE "provider",
            k.items[(m - 1) \div ItemSteps(k, p) + 1]>>

\* How many steps a call has taken when everything begun is finished, and when its
\* last item was only begun.
FinishedSteps(k, p) == FirstSteps(k, p) + ItemSteps(k, p) * k.at
BegunSteps(k, p) == FirstSteps(k, p) + ItemSteps(k, p) * (k.at - 1) + 1

\* The call has taken that many steps, and they are the prescribed ones.
Took(k, p, len) ==
  /\ len \in Nat /\ Len(k.trace) = len
  /\ k.trace = [n \in 1..len |-> Turn(k, p, n)]

\* Each request of a split has its number; without a preprocess hook there is the original.
ItemsOK(k, p) ==
  /\ k.items = IF k.op \in p.pre THEN [i \in 1..Len(k.items) |-> i] ELSE <<0>>
  /\ k.op # "ingest" => Len(k.items) = 1

Reply(k, p) ==
  IF k.op = "ingest" THEN Merge(k.results)
  ELSE IF k.op \in p.post THEN "page of the hook" ELSE "page of the provider"

\* What the place of a call says of the steps it has taken.
Traced(k, p) ==
  /\ p # None
  /\ k.pc = "pre" => k.op \in p.pre
  /\ k.pc = "post" => k.op \in p.post /\ k.at >= 1
  /\ k.pc \in {"pre", "post", "returned", "hook error"} => Took(k, p, FinishedSteps(k, p))
  /\ k.pc \in {"provider", "ProviderError", "NotInitializedError", "InvalidScopeError"} =>
       Took(k, p, BegunSteps(k, p))
  /\ k.pc = "cancelled" => Took(k, p, FinishedSteps(k, p)) \/ (k.at >= 1 /\ Took(k, p, BegunSteps(k, p)))
  /\ k.at >= 1 \/ k.pc = "returned" => ItemsOK(k, p)
  /\ k.pc = "returned" => k.answer = Reply(k, p)

\* The results a call has are those the backend made of its first items.
Reported(k, st) == \A i \in 1..Len(k.results) : k.results[i] = st[i]

TracesOK ==
  /\ serving # None => hooks[serving] # None
  /\ \A c \in Calls :
       /\ IF call[c].pc = "idle" THEN call[c].trace = <<>> ELSE Traced(call[c], hooks[call[c].gen])
       /\ Reported(call[c], stored[c])

StepsInv == IInv /\ TracesOK

LEMMA StepsOfItem ==
  ASSUME NEW k, NEW p, NEW i \in Nat, i > 0
  PROVE  /\ Turn(k, p, FirstSteps(k, p) + ItemSteps(k, p) * (i - 1) + 1) = <<"provider", k.items[i]>>
         /\ k.op \in p.post => Turn(k, p, FirstSteps(k, p) + ItemSteps(k, p) * i) = <<"post", k.items[i]>>
         /\ FirstSteps(k, p) + ItemSteps(k, p) * (i - 1) \in Nat
         /\ k.op \in p.post => FirstSteps(k, p) + ItemSteps(k, p) * (i - 1) + 1 + 1
                                 = FirstSteps(k, p) + ItemSteps(k, p) * i
         /\ k.op \notin p.post => FirstSteps(k, p) + ItemSteps(k, p) * (i - 1) + 1
                                    = FirstSteps(k, p) + ItemSteps(k, p) * i
<1>1. FirstSteps(k, p) \in {0, 1}
  BY DEF FirstSteps
<1>2. CASE k.op \in p.post
  <2>1. ItemSteps(k, p) = 2
    BY <1>2 DEF ItemSteps
  <2>. QED BY <1>1, <1>2, <2>1 DEF Turn
<1>3. CASE k.op \notin p.post
  <2>1. ItemSteps(k, p) = 1
    BY <1>3 DEF ItemSteps
  <2>. QED BY <1>1, <1>3, <2>1 DEF Turn
<1>. QED BY <1>2, <1>3

\* A prescribed step after prescribed steps.
LEMMA OneMoreStep ==
  ASSUME NEW k, NEW q, NEW p, NEW len, Took(k, p, len),
         q.items = k.items, q.op = k.op, q.trace = Append(k.trace, Turn(k, p, len + 1))
  PROVE  Took(q, p, len + 1)
<1> DEFINE S == {Turn(k, p, n) : n \in Nat}
           e == Turn(k, p, len + 1)
<1>1. \A n \in Nat : Turn(q, p, n) = Turn(k, p, n)
  BY DEF Turn, FirstSteps, ItemSteps
<1>2. k.trace \in Seq(S) /\ Len(k.trace) = len /\ len \in Nat /\ e \in S
      /\ \A n \in 1..len : k.trace[n] = Turn(k, p, n)
  <2>1. len \in Nat /\ Len(k.trace) = len /\ k.trace = [n \in 1..len |-> Turn(k, p, n)]
    BY DEF Took
  <2>2. \A n \in 1..len : Turn(k, p, n) \in S
    OBVIOUS
  <2>3. e \in S
    BY <2>1
  <2> HIDE DEF S, e
  <2>4. k.trace \in Seq(S)
    BY <2>1, <2>2
  <2>. QED BY <2>1, <2>3, <2>4
<1> HIDE DEF S, e
<1>3. /\ q.trace \in Seq(S) /\ Len(q.trace) = len + 1 /\ q.trace[len + 1] = e
      /\ \A n \in 1..len : q.trace[n] = k.trace[n]
  BY <1>2, AppendProperties DEF e
<1>4. \A n \in 1..(len + 1) : q.trace[n] = Turn(q, p, n)
  BY <1>1, <1>2, <1>3 DEF e
<1>. QED BY <1>2, <1>3, <1>4 DEF Took

\* The same steps under another place or answer.
LEMMA SameSteps ==
  ASSUME NEW k, NEW q, NEW p, NEW len, Took(k, p, len),
         \/ q.items = k.items
         \/ k.op \in p.pre /\ len = 1,
         q.op = k.op, q.trace = k.trace
  PROVE  Took(q, p, len)
<1>1. \A n \in 1..len : Turn(q, p, n) = Turn(k, p, n)
  BY DEF Turn, FirstSteps, ItemSteps, Took
<1>. QED BY <1>1 DEF Took

\* The spec's own words for them.
LEMMA SpecSteps ==
  ASSUME NEW k
  PROVE  LET p == hooks[k.gen]
         IN /\ HasPre(k) <=> k.op \in p.pre
            /\ HasPost(k) <=> k.op \in p.post
            /\ Before(k) = FirstSteps(k, p) /\ PerItem(k) = ItemSteps(k, p)
            /\ Answer(k) = Reply(k, p)
            /\ \A n \in Nat : StepOf(k, n) = Turn(k, p, n)
<1>1. Answer(k) = Reply(k, hooks[k.gen])
  BY DEF HasPost, Answer, Reply
<1>. QED BY <1>1 DEF HasPre, HasPost, Before, PerItem, StepOf, FirstSteps, ItemSteps, Turn

\* A step of one call.
LEMMA OneCallTraced ==
  ASSUME IInv, TracesOK, UNCHANGED serviceVars, NEW c \in Calls, NEW k,
         call' = [call EXCEPT ![c] = k], stored' = stored, Reported(k, stored[c]),
         k.pc # "idle", Traced(k, hooks[k.gen])
  PROVE  TracesOK'
<1>1. hooks' = hooks /\ serving' = serving
  BY DEF serviceVars
<1>2. call = [x \in Calls |-> call[x]]
  BY DEF IInv, CallsOK
<1>3. \A x \in Calls : call'[x] = IF x = c THEN k ELSE call[x]
  BY <1>2
<1>. QED BY <1>1, <1>3 DEF TracesOK

\* Everything begun is finished, and the call goes on as Continue has it.
LEMMA ContinueTraced ==
  ASSUME IInv, TracesOK, UNCHANGED serviceVars, stored' = stored, NEW c \in Calls, NEW k,
         IsCall(k), k.gen \in Gens, Reported(k, stored[c]), Continue(c, k),
         hooks[k.gen] # None, ItemsOK(k, hooks[k.gen]),
         Took(k, hooks[k.gen], FinishedSteps(k, hooks[k.gen]))
  PROVE  TracesOK'
<1> DEFINE p == hooks[k.gen]
<1>0. k.at \in Nat /\ k.at <= Len(k.items)
  BY DEF IsCall
<1>1. CASE k.at = Len(k.items)
  <2> DEFINE q == [k EXCEPT !.pc = "returned", !.answer = Answer(k)]
  <2>1. call' = [call EXCEPT ![c] = q]
    BY <1>1 DEF Continue
  <2>2. q.pc = "returned" /\ q.op = k.op /\ q.gen = k.gen /\ q.items = k.items /\ q.at = k.at
        /\ q.results = k.results /\ q.trace = k.trace /\ q.answer = Answer(k)
    BY DEF IsCall, Fields
  <2> HIDE DEF q
  <2>3. q.answer = Reply(q, p)
    BY <2>2, SpecSteps DEF Reply
  <2>4. FinishedSteps(q, p) = FinishedSteps(k, p) /\ (ItemsOK(q, p) <=> ItemsOK(k, p))
    BY <2>2 DEF FinishedSteps, FirstSteps, ItemSteps, ItemsOK
  <2> HIDE DEF p
  <2>5. Took(q, p, FinishedSteps(q, p))
    BY <2>2, <2>4, SameSteps DEF p
  <2>6. Traced(q, p) /\ Reported(q, stored[c])
    BY <2>2, <2>3, <2>4, <2>5 DEF Traced, Reported, p
  <2>. QED BY <2>1, <2>2, <2>6, OneCallTraced DEF p
<1>2. CASE k.at # Len(k.items)
  <2> DEFINE item == k.items[k.at + 1]
             begun == [k EXCEPT !.at = @ + 1, !.trace = Append(@, <<"provider", item>>)]
  <2>1. PICK pc \in {"NotInitializedError", "InvalidScopeError", "provider"} :
          call' = [call EXCEPT ![c] = [begun EXCEPT !.pc = pc]]
    BY <1>2 DEF Continue
  <2> DEFINE q == [begun EXCEPT !.pc = pc]
  <2>2. q.pc = pc /\ q.op = k.op /\ q.gen = k.gen /\ q.items = k.items /\ q.at = k.at + 1
        /\ q.results = k.results /\ q.trace = Append(k.trace, <<"provider", item>>)
    BY DEF IsCall, Fields
  <2>3. call' = [call EXCEPT ![c] = q]
    BY <2>1
  <2>4. /\ Turn(k, p, FinishedSteps(k, p) + 1) = <<"provider", item>>
        /\ BegunSteps(q, p) = FinishedSteps(k, p) + 1
    <3>1. q.at - 1 = k.at /\ k.at + 1 > 0 /\ k.at + 1 \in Nat /\ (k.at + 1) - 1 = k.at
      BY <1>0, <2>2
    <3>2. FirstSteps(q, p) = FirstSteps(k, p) /\ ItemSteps(q, p) = ItemSteps(k, p)
      BY <2>2 DEF FirstSteps, ItemSteps
    <3> HIDE DEF q, p, begun
    <3>3. Turn(k, p, FirstSteps(k, p) + ItemSteps(k, p) * k.at + 1) = <<"provider", item>>
      BY <3>1, StepsOfItem
    <3>. QED BY <3>1, <3>2, <3>3 DEF FinishedSteps, BegunSteps
  <2> HIDE DEF q, begun, item, p
  <2>5. Took(q, p, BegunSteps(q, p))
    BY <2>2, <2>4, OneMoreStep DEF p
  <2>6. ItemsOK(q, p)
    BY <2>2 DEF ItemsOK, p
  <2>7. Traced(q, p) /\ Reported(q, stored[c]) /\ q.pc # "idle"
    BY <2>2, <2>5, <2>6 DEF Traced, Reported, p
  <2>. QED BY <2>2, <2>3, <2>7, OneCallTraced DEF p
<1>. QED BY <1>1, <1>2

\* An operation begins with no step, or with its preprocess hook.
LEMMA StartTraced ==
  ASSUME IInv, TracesOK, NEW c \in Calls, NEW op \in Ops, Start(c, op)
  PROVE  TracesOK'
<1> DEFINE k == [NoCall EXCEPT !.op = op, !.gen = serving, !.items = <<0>>]
           p == hooks[serving]
<1>1. /\ k.pc = "idle" /\ k.at = 0 /\ k.items = <<0>> /\ k.results = <<>>
      /\ k.gen = serving /\ k.op = op /\ k.trace = <<>>
      /\ k = [f \in Fields |-> k[f]]
  BY DEF NoCall, Fields
<1>2. serving \in Gens /\ p # None /\ stored' = stored /\ UNCHANGED serviceVars
  BY DEF Start, IInv, ServiceOK, TracesOK
<1>3. IF op \in p.pre
        THEN call' = [call EXCEPT ![c] = [k EXCEPT !.pc = "pre", !.trace = <<<<"pre", 0>>>>]]
        ELSE Continue(c, k)
  BY <1>1 DEF Start, HasPre
<1> HIDE DEF k
<1>4. Reported(k, stored[c])
  BY <1>1 DEF Reported
<1>5. CASE op \notin p.pre
  <2>1. IsCall(k)
    BY <1>1, <1>2, ItemTypes DEF IsCall
  <2>2. ItemsOK(k, p)
    BY <1>1, <1>5 DEF ItemsOK
  <2>3. FinishedSteps(k, p) = 0
    BY <1>1, <1>5 DEF FinishedSteps, FirstSteps, ItemSteps
  <2>4. Took(k, p, 0)
    BY <1>1 DEF Took
  <2>. QED BY <1>1, <1>2, <1>3, <1>4, <1>5, <2>1, <2>2, <2>3, <2>4, ContinueTraced
<1>6. CASE op \in p.pre
  <2> DEFINE q == [k EXCEPT !.pc = "pre", !.trace = <<<<"pre", 0>>>>]
  <2>1. q.pc = "pre" /\ q.op = op /\ q.gen = serving /\ q.at = 0 /\ q.results = <<>>
        /\ q.trace = <<<<"pre", 0>>>>
    BY <1>1 DEF Fields
  <2>2. call' = [call EXCEPT ![c] = q]
    BY <1>3, <1>6
  <2> HIDE DEF q, p
  <2>3. FinishedSteps(q, p) = 1 /\ Turn(q, p, 1) = <<"pre", 0>>
    BY <1>6, <2>1 DEF FinishedSteps, FirstSteps, ItemSteps, Turn
  <2>4. Took(q, p, 1)
    BY <2>1, <2>3 DEF Took
  <2>5. Traced(q, p) /\ Reported(q, stored[c])
    BY <1>2, <1>6, <2>1, <2>3, <2>4 DEF Traced, Reported
  <2>. QED BY <1>2, <2>1, <2>2, <2>5, OneCallTraced DEF p
<1>. QED BY <1>5, <1>6

\* What the invariant says of a call that is under way.
LEMMA UnderWay ==
  ASSUME IInv, TracesOK, NEW c \in Calls, call[c].pc # "idle"
  PROVE  /\ CallOK(call[c], stored[c], wire[c]) /\ IsCall(call[c]) /\ call[c].gen \in Gens
         /\ Traced(call[c], hooks[call[c].gen]) /\ Reported(call[c], stored[c])
BY DEF IInv, CallsOK, CallOK, IsCall, TracesOK

\* The processed requests take the place of the original.
LEMMA PreReturnsTraced ==
  ASSUME IInv, TracesOK, NEW c \in Calls, PreReturns(c)
  PROVE  TracesOK'
<1> DEFINE old == call[c]
           p == hooks[old.gen]
<1>0. /\ CallOK(old, stored[c], wire[c]) /\ IsCall(old) /\ old.gen \in Gens /\ Traced(old, p)
      /\ Reported(old, stored[c]) /\ old.pc = "pre" /\ stored' = stored /\ UNCHANGED serviceVars
  BY UnderWay DEF PreReturns
<1>1. PICK n \in IF old.op = "ingest" THEN Requests ELSE {1} :
        Continue(c, [old EXCEPT !.items = [i \in 1..n |-> i]])
  BY DEF PreReturns
<1>2. /\ n \in Nat /\ [i \in 1..n |-> i] \in Seq(Requests) /\ Len([i \in 1..n |-> i]) = n
      /\ old.op # "ingest" => n = 1
  <2>1. n \in Requests /\ (old.op # "ingest" => n = 1)
    BY ItemTypes
  <2>2. \A j \in Requests : [i \in 1..j |-> i] \in Seq(Requests) /\ Len([i \in 1..j |-> i]) = j
    BY ItemTypes
  <2>3. n \in Nat
    BY <2>1, ItemTypes
  <2>. QED BY <2>1, <2>2, <2>3
<1> DEFINE k == [old EXCEPT !.items = [i \in 1..n |-> i]]
<1>3. /\ k = [f \in Fields |-> k[f]] /\ k.items = [i \in 1..n |-> i]
      /\ k.pc = "pre" /\ k.op = old.op /\ k.gen = old.gen
      /\ k.at = old.at /\ k.results = old.results /\ k.trace = old.trace
  BY <1>0 DEF IsCall, Fields
<1> HIDE DEF k, old, p
<1>4. k.at = 0
  BY <1>0, <1>3 DEF CallOK
<1>5. IsCall(k)
  <2>1. k.items \in Seq(Requests) /\ Len(k.items) \in Nat
    BY <1>2, <1>3
  <2>. QED BY <1>0, <1>3, <1>4, <2>1 DEF IsCall
<1>6. ItemsOK(k, p)
  <2>1. k.op \in p.pre /\ Len(k.items) = n
    BY <1>0, <1>2, <1>3 DEF Traced
  <2>. QED BY <1>2, <1>3, <2>1 DEF ItemsOK
<1>7. Took(k, p, FinishedSteps(k, p))
  <2>1. old.op \in p.pre /\ Took(old, p, FinishedSteps(old, p))
    BY <1>0 DEF Traced
  <2>2. FinishedSteps(old, p) = 1 /\ FinishedSteps(k, p) = 1
    BY <1>3, <1>4, <2>1 DEF FinishedSteps, FirstSteps, ItemSteps
  <2>. QED BY <1>3, <2>1, <2>2, SameSteps
<1>8. Reported(k, stored[c]) /\ p # None
  BY <1>0, <1>3 DEF Reported, Traced
<1>. QED BY <1>0, <1>1, <1>3, <1>5, <1>6, <1>7, <1>8, ContinueTraced DEF k, p, old

\* The provider answers: the item is finished, or goes to its postprocess hook.
LEMMA ProviderAnswersTraced ==
  ASSUME IInv, TracesOK, NEW c \in Calls, ProviderAnswers(c)
  PROVE  TracesOK'
<1> DEFINE old == call[c]
           st == stored[c]
           p == hooks[old.gen]
           k == [old EXCEPT !.results = Append(@, Last(st))]
<1>0. /\ CallOK(old, st, wire[c]) /\ IsCall(old) /\ old.gen \in Gens /\ Traced(old, p)
      /\ Reported(old, st) /\ old.pc = "provider" /\ stored' = stored /\ UNCHANGED serviceVars
      /\ wire[c] = None /\ AfterProvider(c, k)
  BY UnderWay DEF ProviderAnswers
<1>1. /\ k = [f \in Fields |-> k[f]] /\ k.results = Append(old.results, Last(st))
      /\ k.pc = "provider" /\ k.op = old.op /\ k.gen = old.gen
      /\ k.at = old.at /\ k.items = old.items /\ k.trace = old.trace
  BY <1>0 DEF IsCall, Fields
<1> HIDE DEF k, old, st, p
<1>2. /\ old.at \in Nat /\ old.at > 0 /\ old.at >= 1 /\ Len(st) = old.at /\ Len(old.results) = old.at - 1
      /\ st \in Seq(Stored) /\ old.results \in Seq(Stored)
  <2>1. Begun(old, st, None) /\ st \in Seq(Stored)
    BY <1>0 DEF CallOK, Sent
  <2>2. old.at \in Nat /\ old.at >= 1 /\ old.results \in Seq(Stored) /\ old.items \in Seq(Requests)
        /\ old.at <= Len(old.items)
    BY <1>0, <2>1 DEF Begun, IsCall
  <2>3. old.items[old.at] # None
    BY <2>2, ItemTypes
  <2>. QED BY <2>1, <2>2, <2>3 DEF Begun
<1>3. Last(st) = st[old.at] /\ st[old.at] \in Stored
  BY <1>2 DEF Last
<1>4. /\ k.results \in Seq(Stored) /\ Len(k.results) = old.at
      /\ \A i \in 1..Len(old.results) : k.results[i] = old.results[i]
      /\ k.results[old.at] = st[old.at]
  <2> DEFINE rs == old.results
             last == Last(st)
  <2>1. rs \in Seq(Stored) /\ last \in Stored /\ Len(rs) + 1 = old.at
    BY <1>2, <1>3
  <2> HIDE DEF rs, last
  <2>2. /\ Append(rs, last) \in Seq(Stored) /\ Len(Append(rs, last)) = old.at
        /\ \A i \in 1..Len(rs) : Append(rs, last)[i] = rs[i]
        /\ Append(rs, last)[old.at] = last
    BY <2>1, AppendProperties
  <2>. QED BY <1>1, <1>3, <2>2 DEF rs, last
<1>5. Reported(k, st)
  <2>1. /\ \A i \in 1..Len(old.results) : old.results[i] = st[i]
        /\ 1..old.at = 1..Len(old.results) \cup {old.at}
    BY <1>0, <1>2 DEF Reported
  <2>. QED BY <1>4, <2>1 DEF Reported
<1>6. ItemsOK(k, p) /\ p # None
  BY <1>0, <1>1, <1>2 DEF Traced, ItemsOK
<1>7. Took(k, p, BegunSteps(k, p))
  <2>1. Took(old, p, BegunSteps(old, p)) /\ BegunSteps(k, p) = BegunSteps(old, p)
    BY <1>0, <1>1 DEF Traced, BegunSteps, FirstSteps, ItemSteps
  <2>. QED BY <1>1, <2>1, SameSteps
<1>8. /\ k.op \in p.post => /\ FinishedSteps(k, p) = BegunSteps(k, p) + 1
                            /\ Turn(k, p, BegunSteps(k, p) + 1) = <<"post", k.items[k.at]>>
      /\ k.op \notin p.post => FinishedSteps(k, p) = BegunSteps(k, p)
  <2>1. k.at \in Nat /\ k.at > 0
    BY <1>1, <1>2
  <2>. QED BY <2>1, StepsOfItem DEF FinishedSteps, BegunSteps
<1>9. HasPost(k) <=> k.op \in p.post
  BY <1>1 DEF HasPost, p
<1>10. CASE k.op \in p.post
  <2> DEFINE q == [k EXCEPT !.pc = "post", !.trace = Append(@, <<"post", k.items[k.at]>>)]
  <2>1. q.pc = "post" /\ q.op = k.op /\ q.gen = k.gen /\ q.items = k.items /\ q.at = k.at
        /\ q.results = k.results /\ q.trace = Append(k.trace, <<"post", k.items[k.at]>>)
    BY <1>1 DEF Fields
  <2>2. call' = [call EXCEPT ![c] = q]
    BY <1>0, <1>9, <1>10 DEF AfterProvider
  <2> HIDE DEF q
  <2>3. FinishedSteps(q, p) = FinishedSteps(k, p) /\ ItemsOK(q, p)
    BY <1>6, <2>1 DEF FinishedSteps, FirstSteps, ItemSteps, ItemsOK
  <2>4. Took(q, p, FinishedSteps(q, p))
    BY <1>7, <1>8, <1>10, <2>1, <2>3, OneMoreStep
  <2>5. Traced(q, p) /\ Reported(q, st)
    BY <1>1, <1>2, <1>5, <1>6, <1>10, <2>1, <2>3, <2>4 DEF Traced, Reported
  <2>. QED BY <1>0, <1>1, <2>1, <2>2, <2>5, OneCallTraced DEF p, st
<1>11. CASE k.op \notin p.post
  <2>1. Continue(c, k)
    BY <1>0, <1>9, <1>11 DEF AfterProvider
  <2>2. IsCall(k) /\ k.gen \in Gens
    BY <1>0, <1>1, <1>4 DEF IsCall
  <2>3. Took(k, p, FinishedSteps(k, p))
    BY <1>7, <1>8, <1>11
  <2>. QED BY <1>0, <1>1, <1>5, <1>6, <2>1, <2>2, <2>3, ContinueTraced DEF p, st
<1>. QED BY <1>10, <1>11

LEMMA PostReturnsTraced ==
  ASSUME IInv, TracesOK, NEW c \in Calls, PostReturns(c)
  PROVE  TracesOK'
<1> DEFINE k == call[c]
           p == hooks[k.gen]
<1>1. /\ CallOK(k, stored[c], wire[c]) /\ IsCall(k) /\ k.gen \in Gens /\ Traced(k, p)
      /\ Reported(k, stored[c]) /\ k.pc = "post" /\ stored' = stored /\ UNCHANGED serviceVars
      /\ Continue(c, k)
  BY UnderWay DEF PostReturns
<1> HIDE DEF k, p
<1>2. k.at >= 1 /\ Took(k, p, FinishedSteps(k, p))
  BY <1>1 DEF Traced
<1>3. ItemsOK(k, p) /\ p # None
  BY <1>1, <1>2 DEF Traced
<1>. QED BY <1>1, <1>2, <1>3, ContinueTraced DEF p

\* What is raised ends the call after the steps it has taken.
LEMMA RaiseTraced ==
  ASSUME IInv, TracesOK, NEW c \in Calls, HookRaises(c) \/ ProviderRaises(c) \/ Cancel(c)
  PROVE  TracesOK'
<1> DEFINE old == call[c]
           p == hooks[old.gen]
<1>1. PICK why \in {"hook error", "ProviderError", "cancelled"} :
        /\ Raise(c, why)
        /\ old.pc \in {"pre", "provider", "post"}
        /\ why = "hook error" => old.pc # "provider"
        /\ why = "ProviderError" => old.pc = "provider"
  BY DEF HookRaises, ProviderRaises, Cancel, Suspended
<1>2. /\ CallOK(old, stored[c], wire[c]) /\ IsCall(old) /\ Traced(old, p)
      /\ Reported(old, stored[c]) /\ stored' = stored /\ UNCHANGED serviceVars
  BY <1>1, UnderWay DEF Raise
<1> DEFINE q == [old EXCEPT !.pc = why]
<1>3. call' = [call EXCEPT ![c] = q]
  BY <1>1 DEF Raise
<1>4. q.pc = why /\ q.op = old.op /\ q.gen = old.gen /\ q.items = old.items /\ q.at = old.at
      /\ q.results = old.results /\ q.trace = old.trace
  BY <1>2 DEF IsCall, Fields
<1> HIDE DEF q, old, p
<1>5. FinishedSteps(q, p) = FinishedSteps(old, p) /\ BegunSteps(q, p) = BegunSteps(old, p)
  BY <1>4 DEF FinishedSteps, BegunSteps, FirstSteps, ItemSteps
<1>6. \A len : Took(old, p, len) => Took(q, p, len)
  BY <1>4, SameSteps
<1>7. CASE old.pc = "provider"
  <2>1. Took(q, p, BegunSteps(q, p)) /\ q.at >= 1
    <3>1. Took(old, p, BegunSteps(old, p))
      BY <1>2, <1>7 DEF Traced
    <3>2. Took(q, p, BegunSteps(q, p))
      BY <1>5, <1>6, <3>1
    <3>3. old.at >= 1
      BY <1>2, <1>7 DEF CallOK, Begun
    <3>4. q.at = old.at
      BY <1>4
    <3>. QED BY <3>2, <3>3, <3>4
  <2>2. ItemsOK(q, p) /\ p # None
    <3>1. old.at >= 1 /\ ItemsOK(old, p) /\ p # None
      BY <1>2, <1>4, <2>1 DEF Traced
    <3>. QED BY <1>4, <3>1 DEF ItemsOK
  <2>. QED BY <1>1, <1>2, <1>3, <1>4, <1>7, <2>1, <2>2, OneCallTraced DEF Traced, Reported, old, p
<1>8. CASE old.pc # "provider"
  <2>1. Took(q, p, FinishedSteps(q, p)) /\ p # None
    BY <1>1, <1>2, <1>5, <1>6, <1>8 DEF Traced
  <2>2. q.at >= 1 => ItemsOK(q, p)
    BY <1>2, <1>4 DEF Traced, ItemsOK
  <2>. QED BY <1>1, <1>2, <1>3, <1>4, <1>8, <2>1, <2>2, OneCallTraced DEF Traced, Reported, old, p
<1>. QED BY <1>7, <1>8

\* What the backend adds comes after the results the call has.
LEMMA ArrivesTraced ==
  ASSUME IInv, TracesOK, NEW c \in Calls, Arrives(c)
  PROVE  TracesOK'
<1> DEFINE k == call[c]
           st == stored[c]
<1>1. PICK kinds \in Answers :
        stored' = [stored EXCEPT ![c] = Append(@, [item |-> wire[c], kinds |-> kinds, gen |-> call[c].gen])]
  BY DEF Arrives
<1> DEFINE row == [item |-> wire[c], kinds |-> kinds, gen |-> k.gen]
<1>2. /\ CallOK(k, st, wire[c]) /\ wire[c] # None /\ wire[c] \in Requests
      /\ call' = call /\ hooks' = hooks /\ serving' = serving
      /\ \A x \in Calls : stored'[x] = IF x = c THEN Append(st, row) ELSE stored[x]
  BY <1>1 DEF Arrives, serviceVars, IInv, CallsOK
<1>3. Reported(k, st) /\ \A x \in Calls : Reported(call[x], stored[x])
  BY DEF TracesOK
<1>4. /\ Begun(k, st, wire[c]) /\ IsCall(k) /\ Sent(k, st)
  BY <1>2 DEF CallOK, Settled, Begun, IsCall, Suspended, Errors
<1>5. Len(k.results) = Len(st) /\ st \in Seq(Stored) /\ row \in Stored
  <2>1. Len(k.results) = k.at - 1 /\ Len(st) = k.at - 1 /\ st \in Seq(Stored)
    BY <1>2, <1>4 DEF Begun, Sent
  <2>2. row \in Stored
    BY <1>2, <1>4 DEF IsCall, Stored, Suspended, Errors, CallOK, Settled, Begun
  <2>. QED BY <2>1, <2>2
<1> HIDE DEF k, st, row
<1>6. \A i \in 1..Len(st) : Append(st, row)[i] = st[i]
  BY <1>5, AppendProperties
<1>7. Reported(k, Append(st, row))
  BY <1>3, <1>5, <1>6 DEF Reported
<1>. QED BY <1>2, <1>3, <1>7 DEF TracesOK, k

LEMMA TracesInv == IInv /\ TracesOK /\ [Next]_vars => TracesOK'
<1> SUFFICES ASSUME IInv, TracesOK, [Next]_vars PROVE TracesOK'
  OBVIOUS
<1>1. ASSUME NEW c \in Calls, Step(c) PROVE TracesOK'
  BY <1>1, StartTraced, PreReturnsTraced, ProviderAnswersTraced, PostReturnsTraced, RaiseTraced,
     ArrivesTraced DEF Step
<1>2. ASSUME NEW g \in Gens, NEW p \in Pipelines, Open(g, p) PROVE TracesOK'
  <2>1. /\ hooks[g] = None /\ serving' = g /\ call' = call /\ stored' = stored
        /\ \A h \in Gens : hooks'[h] = IF h = g THEN p ELSE hooks[h]
    BY <1>2 DEF Open, IInv, ServiceOK
  <2>2. p # None
    BY NoneAssumption
  <2>3. ASSUME NEW c \in Calls, call[c].pc # "idle" PROVE Traced(call[c], hooks'[call[c].gen])
    <3>1. call[c].gen \in Gens /\ hooks[call[c].gen] # None /\ Traced(call[c], hooks[call[c].gen])
      BY <2>3, UnderWay DEF Traced
    <3>. QED BY <2>1, <3>1
  <2>. QED BY <2>1, <2>2, <2>3 DEF TracesOK
<1>3. CASE CloseProvider \/ ClearMaps
  BY <1>3 DEF CloseProvider, ClearMaps, TracesOK
<1>4. CASE UNCHANGED vars
  BY <1>4 DEF vars, serviceVars, TracesOK
<1>. QED BY <1>1, <1>2, <1>3, <1>4 DEF Next

\* The place of a call tells which hook and provider calls it has behind it and what they
\* returned.
THEOREM StepsInductive == Spec => []StepsInv
<1>1. Init => StepsInv
  <2>1. Init => TracesOK
    BY DEF Init, TracesOK, NoCall, Reported
  <2>. QED BY <2>1, InitInv DEF StepsInv
<1>2. StepsInv /\ [Next]_vars => StepsInv'
  BY NextInv, TracesInv DEF StepsInv
<1>. QED BY <1>1, <1>2, PTL DEF Spec

\* How many steps a call can have taken.
LEMMA StepsTaken ==
  ASSUME IInv, TracesOK, NEW c \in Calls, call[c].pc # "idle"
  PROVE  LET k == call[c]
             p == hooks[k.gen]
         IN \/ Took(k, p, FinishedSteps(k, p))
            \/ k.at >= 1 /\ Took(k, p, BegunSteps(k, p))
<1> DEFINE k == call[c]
           p == hooks[k.gen]
<1>1. CallOK(k, stored[c], wire[c]) /\ IsCall(k) /\ Traced(k, p)
  BY UnderWay
<1>2. k.pc \in {"pre", "post", "returned", "hook error", "provider", "ProviderError",
                "NotInitializedError", "InvalidScopeError", "cancelled"} /\ k.pc # "idle"
  BY <1>1 DEF IsCall, Suspended, Errors
<1> HIDE DEF k, p
<1>3. CASE k.pc \in {"provider", "ProviderError", "NotInitializedError", "InvalidScopeError"}
  <2>1. k.at >= 1
    BY <1>1, <1>3 DEF CallOK, Begun
  <2>. QED BY <1>1, <1>3, <2>1 DEF Traced, k, p
<1>4. CASE k.pc \in {"pre", "post", "returned", "hook error", "cancelled"}
  BY <1>1, <1>4 DEF Traced, k, p
<1>. QED BY <1>2, <1>3, <1>4

\* The steps of the items begun are among the prescribed ones.
LEMMA StepsBounds ==
  ASSUME NEW k, NEW p, NEW len, k.at \in Nat, Len(k.items) \in Nat, k.at <= Len(k.items),
         \/ len = FinishedSteps(k, p)
         \/ k.at >= 1 /\ len = BegunSteps(k, p)
  PROVE  /\ len \in Nat /\ len <= FirstSteps(k, p) + ItemSteps(k, p) * Len(k.items)
         /\ FirstSteps(k, p) + ItemSteps(k, p) * Len(k.items) \in Nat
         /\ \A n \in 1..len : n > FirstSteps(k, p) =>
              /\ (n - FirstSteps(k, p) - 1) \div ItemSteps(k, p) + 1 \in 1..k.at
              /\ k.at >= 1
<1>1. FirstSteps(k, p) \in {0, 1}
  BY DEF FirstSteps
<1> DEFINE first == FirstSteps(k, p)
           at == k.at
           max == Len(k.items)
<1>2. first \in Nat /\ at \in Nat /\ max \in Nat /\ at <= max
  BY <1>1
<1>3. CASE k.op \in p.post
  <2>1. ItemSteps(k, p) = 2
    BY <1>3 DEF ItemSteps
  <2>2. len = first + 2 * at \/ (at >= 1 /\ len = first + 2 * (at - 1) + 1)
    BY <2>1 DEF FinishedSteps, BegunSteps
  <2> HIDE DEF first, at, max
  <2>3. /\ len \in Nat /\ len <= first + 2 * max /\ first + 2 * max \in Nat
        /\ \A n \in 1..len : n > first => (n - first - 1) \div 2 + 1 \in 1..at /\ at >= 1
    BY <1>2, <2>2
  <2>. QED BY <2>1, <2>3 DEF first, at, max
<1>4. CASE k.op \notin p.post
  <2>1. ItemSteps(k, p) = 1
    BY <1>4 DEF ItemSteps
  <2>2. len = first + at
    BY <1>2, <2>1 DEF FinishedSteps, BegunSteps
  <2> HIDE DEF first, at, max
  <2>3. /\ len \in Nat /\ len <= first + 1 * max /\ first + 1 * max \in Nat
        /\ \A n \in 1..len : n > first => (n - first - 1) \div 1 + 1 \in 1..at /\ at >= 1
    BY <1>2, <2>2
  <2>. QED BY <2>1, <2>3 DEF first, at, max
<1>. QED BY <1>3, <1>4

\* Hooks and provider calls happen in the prescribed order, and only processed
\* requests reach the provider.
THEOREM HooksEncloseHolds == Spec => []HooksEnclose
<1>1. StepsInv => HooksEnclose
  <2> SUFFICES ASSUME StepsInv, NEW c \in Calls
      PROVE  LET k == call[c] IN
             /\ k.at = 0 \/ IsPrefix(k.trace, Prescribed(k))
             /\ k.pc = "returned" => k.trace = Prescribed(k)
             /\ \A i \in DOMAIN k.trace : k.trace[i][1] # "pre" => (k.trace[i][2] = 0 <=> ~HasPre(k))
    BY DEF HooksEnclose
  <2> USE DEF StepsInv
  <2> DEFINE k == call[c]
             p == hooks[k.gen]
             len == Len(k.trace)
             all == FirstSteps(k, p) + ItemSteps(k, p) * Len(k.items)
  <2>1. CASE k.pc = "idle"
    <3>1. k.trace = <<>> /\ k.at = 0
      BY <2>1 DEF IInv, CallsOK, CallOK, TracesOK
    <3>. QED BY <2>1, <3>1
  <2>2. CASE k.pc # "idle"
    <3>1. CallOK(k, stored[c], wire[c]) /\ IsCall(k) /\ Traced(k, p)
      BY <2>2, UnderWay
    <3>2. /\ Took(k, p, len)
          /\ len = FinishedSteps(k, p) \/ (k.at >= 1 /\ len = BegunSteps(k, p))
      BY <2>2, StepsTaken DEF Took
    <3>3. k.at \in Nat /\ Len(k.items) \in Nat /\ k.at <= Len(k.items)
      BY <3>1 DEF IsCall
    <3>4. Prescribed(k) = [n \in 1..all |-> Turn(k, p, n)]
      BY SpecSteps DEF Prescribed
    <3>5. HasPre(k) <=> k.op \in p.pre
      BY SpecSteps
    <3> HIDE DEF k, p, len, all
    <3>6. /\ len \in Nat /\ all \in Nat /\ len <= all
          /\ \A n \in 1..len : n > FirstSteps(k, p) =>
               /\ (n - FirstSteps(k, p) - 1) \div ItemSteps(k, p) + 1 \in 1..k.at
               /\ k.at >= 1
      BY <3>2, <3>3, StepsBounds DEF all
    <3>7. Len(k.trace) = len /\ k.trace = [n \in 1..len |-> Turn(k, p, n)]
      BY <3>2 DEF Took
    <3>8. IsPrefix(k.trace, Prescribed(k))
      <4> DEFINE s == k.trace
                 t == Prescribed(k)
                 S == {Turn(k, p, n) : n \in Nat}
      <4>1. s \in Seq(S) /\ t \in Seq(S) /\ Len(s) = len /\ Len(t) = all
        <5>1. \A n \in 1..all : Turn(k, p, n) \in S
          BY <3>6
        <5>2. \A n \in 1..len : Turn(k, p, n) \in S
          BY <3>6
        <5> HIDE DEF S
        <5>. QED BY <3>4, <3>6, <3>7, <5>1, <5>2
      <4>2. \A n \in 1..len : s[n] = t[n]
        BY <3>4, <3>6, <3>7
      <4> HIDE DEF s, t, S
      <4>3. SubSeq(s, 1, Len(s)) = SubSeq(t, 1, Len(s))
        BY <3>6, <4>1, <4>2
      <4>4. IsPrefix(s, t)
        BY <3>6, <4>1, <4>3 DEF IsPrefix
      <4>. QED BY <4>4 DEF s, t
    <3>9. k.pc = "returned" => k.trace = Prescribed(k)
      <4> SUFFICES ASSUME k.pc = "returned" PROVE k.trace = Prescribed(k)
        OBVIOUS
      <4>1. k.at = Len(k.items) /\ Took(k, p, FinishedSteps(k, p))
        BY <3>1 DEF CallOK, Traced
      <4>2. FinishedSteps(k, p) = all
        BY <4>1 DEF FinishedSteps, all
      <4>. QED BY <3>4, <4>1, <4>2 DEF Took
    <3>10. ASSUME NEW n \in DOMAIN k.trace, k.trace[n][1] # "pre"
           PROVE  k.trace[n][2] = 0 <=> ~HasPre(k)
      <4>1. n \in 1..len /\ k.trace[n] = Turn(k, p, n)
        BY <3>7
      <4>2. n > FirstSteps(k, p)
        <5>1. n <= FirstSteps(k, p) => Turn(k, p, n) = <<"pre", 0>>
          BY DEF Turn
        <5>2. ~(n <= FirstSteps(k, p))
          BY <3>10, <4>1, <5>1
        <5>3. FirstSteps(k, p) \in Nat
          BY DEF FirstSteps
        <5>. QED BY <4>1, <5>2, <5>3
      <4> DEFINE i == (n - FirstSteps(k, p) - 1) \div ItemSteps(k, p) + 1
      <4>3. i \in 1..k.at /\ k.at >= 1
        BY <3>6, <4>1, <4>2
      <4>4. k.trace[n][2] = k.items[i]
        <5>1. ~(n <= FirstSteps(k, p))
          BY <4>1, <4>2 DEF FirstSteps
        <5>. QED BY <4>1, <5>1 DEF Turn
      <4>5. ItemsOK(k, p)
        BY <3>1, <4>3 DEF Traced
      <4> HIDE DEF i
      <4>6. i \in 1..Len(k.items)
        BY <3>3, <4>3
      <4>7. CASE k.op \in p.pre
        BY <3>5, <4>4, <4>5, <4>6, <4>7 DEF ItemsOK
      <4>8. CASE k.op \notin p.pre
        BY <3>5, <4>4, <4>5, <4>6, <4>8 DEF ItemsOK
      <4>. QED BY <4>7, <4>8
    <3>. QED BY <3>8, <3>9, <3>10 DEF k
  <2>. QED BY <2>1, <2>2
<1>. QED BY <1>1, StepsInductive, PTL

-----------------------------------------------------------------------------
(* What _merge_ingest_results makes of the results. *)

\* Induction on numbers, for a set of them: the provers take no predicate.
LEMMA NumbersUpTo ==
  ASSUME NEW N \in Nat, NEW T, 0 \in T,
         \A n \in 1..N : n - 1 \in T => n \in T
  PROVE  \A n \in 0..N : n \in T
<1> DEFINE bad == {n \in 0..N : n \notin T}
<1>1. SUFFICES ASSUME bad # {} PROVE FALSE
  OBVIOUS
<1>2. PICK m \in bad : \A x \in bad : ~(<<x, m>> \in OpToRel(<, Nat))
  <2>1. bad \subseteq Nat
    OBVIOUS
  <2> HIDE DEF bad
  <2>. QED BY <1>1, <2>1, NatLessThanWellFounded, WFMin
<1>3. \A x, y \in Nat : y < x => <<y, x>> \in OpToRel(<, Nat)
  BY DEF OpToRel
<1>4. m \in 1..N /\ m - 1 \in 0..N /\ m - 1 \in Nat /\ m \in Nat /\ m - 1 < m
  OBVIOUS
<1>5. m - 1 \notin bad
  BY <1>2, <1>3, <1>4
<1>. QED BY <1>2, <1>4, <1>5

\* A function may be defined along the numbers, its values in S and each from the one before.
Along(f, S, N, a, next) ==
  /\ f \in [0..N -> S]
  /\ f[0] = a /\ \A n \in 1..N : f[n] = next[<<n, f[n - 1]>>]

NextOf(S, N) == [(1..N) \X S -> S]

LEMMA Recursion ==
  ASSUME NEW S, NEW N \in Nat, NEW a \in S, NEW next \in NextOf(S, N)
  PROVE  \E f : Along(f, S, N, a, next)
<1> DEFINE T == {m \in 0..N : \E f : Along(f, S, m, a, next)}
<1>1. 0 \in T
  <2> DEFINE f == [n \in 0..0 |-> a]
  <2>1. Along(f, S, 0, a, next)
    BY DEF Along
  <2>. QED BY <2>1
<1>2. ASSUME NEW m \in 1..N, m - 1 \in T PROVE m \in T
  <2>1. PICK f : Along(f, S, m - 1, a, next)
    BY <1>2
  <2> DEFINE v == next[<<m, f[m - 1]>>]
             g == [n \in 0..m |-> IF n = m THEN v ELSE f[n]]
  <2>2. /\ f \in [0..(m - 1) -> S] /\ f[0] = a
        /\ \A n \in 1..(m - 1) : f[n] = next[<<n, f[n - 1]>>]
    BY <2>1 DEF Along
  <2>3. v \in S
    <3>1. f[m - 1] \in S
      BY <2>2
    <3>. QED BY <3>1 DEF NextOf
  <2> HIDE DEF v
  <2>4. g \in [0..m -> S] /\ g[0] = a /\ g[m] = v /\ g[m - 1] = f[m - 1]
    BY <2>2, <2>3
  <2>5. \A n \in 1..(m - 1) : g[n] = f[n] /\ g[n - 1] = f[n - 1]
    OBVIOUS
  <2>6. 1..m = 1..(m - 1) \cup {m}
    OBVIOUS
  <2> HIDE DEF g
  <2>7. \A n \in 1..m : g[n] = next[<<n, g[n - 1]>>]
    BY <2>2, <2>4, <2>5, <2>6 DEF v
  <2>8. Along(g, S, m, a, next)
    BY <2>4, <2>7 DEF Along
  <2>. QED BY <2>8
<1> HIDE DEF T
<1>3. N \in T
  BY <1>1, <1>2, NumbersUpTo
<1>. QED BY <1>3 DEF T

\* The list Merge makes of one kind, from the first n results.
Grows(f, results, kind) ==
  /\ f = [n \in 0..Len(results) |->
            IF n = 0 THEN <<>>
            ELSE IF kind \in results[n].kinds THEN Append(f[n - 1], results[n].item)
            ELSE f[n - 1]]

LEMMA MergeGrows ==
  ASSUME NEW results \in Seq(Stored), NEW kind \in Kinds
  PROVE  \E f : Grows(f, results, kind) /\ Merge(results)[kind] = f[Len(results)]
<1> DEFINE N == Len(results)
           S == Seq(Requests)
           next == [x \in (1..N) \X S |->
                      IF kind \in results[x[1]].kinds THEN Append(x[2], results[x[1]].item) ELSE x[2]]
<1>1. N \in Nat /\ <<>> \in S
  OBVIOUS
<1>2. ASSUME NEW n \in 1..N, NEW s \in S
      PROVE  /\ next[<<n, s>>] = IF kind \in results[n].kinds THEN Append(s, results[n].item) ELSE s
             /\ next[<<n, s>>] \in S
  <2>1. results[n].item \in Requests
    <3>1. results[n] \in Stored
      OBVIOUS
    <3>. QED BY <3>1 DEF Stored
  <2>. QED BY <2>1
<1>3. next \in [(1..N) \X S -> S]
  <2>1. \A x \in (1..N) \X S : x = <<x[1], x[2]>> /\ x[1] \in 1..N /\ x[2] \in S
    OBVIOUS
  <2>2. next = [x \in (1..N) \X S |-> next[x]]
    OBVIOUS
  <2> HIDE DEF next, N, S
  <2>. QED BY <1>2, <2>1, <2>2
<1> HIDE DEF next, S
<1>4. PICK f : Along(f, S, N, <<>>, next)
  <2>1. next \in NextOf(S, N)
    BY <1>3 DEF NextOf
  <2> HIDE DEF N
  <2>. QED BY <1>1, <2>1, Recursion
<1>5. f \in [0..N -> S] /\ f[0] = <<>> /\ \A n \in 1..N : f[n] = next[<<n, f[n - 1]>>]
  BY <1>4 DEF Along
<1>6. Grows(f, results, kind)
  <2>1. \A n \in 1..N : f[n] = IF kind \in results[n].kinds THEN Append(f[n - 1], results[n].item) ELSE f[n - 1]
    <3>1. \A n \in 1..N : f[n - 1] \in S
      BY <1>1, <1>5
    <3>. QED BY <1>2, <1>5, <3>1
  <2>2. f = [n \in 0..N |-> f[n]]
    BY <1>5
  <2>3. \A n \in 0..N : n = 0 \/ n \in 1..N
    BY <1>1
  <2>. QED BY <1>5, <2>1, <2>2, <2>3 DEF Grows
<1>7. \E g : Grows(g, results, kind) /\ Merge(results)[kind] = g[N]
  BY <1>6 DEF Merge, Grows
<1>. QED BY <1>7 DEF N

Items(results, kind, n) == {results[i].item : i \in {j \in 1..n : kind \in results[j].kinds}}

Lists(s, results, kind, n) ==
  /\ s \in Seq(Requests)
  /\ \A i \in 1..Len(s) : s[i] \in Items(results, kind, n)
  /\ \A x \in Items(results, kind, n) : \E i \in 1..Len(s) : s[i] = x
  /\ \A i, j \in 1..Len(s) : i < j => s[i] < s[j]

\* The results of a split, each numbered higher than those before it, are merged into
\* lists that have the items of each kind in their order.
LEMMA MergeLists ==
  ASSUME NEW results \in Seq(Stored), NEW kind \in Kinds,
         \A i, j \in 1..Len(results) : i < j => results[i].item < results[j].item
  PROVE  Lists(Merge(results)[kind], results, kind, Len(results))
<1> DEFINE N == Len(results)
<1>1. PICK f : Grows(f, results, kind) /\ Merge(results)[kind] = f[N]
  BY MergeGrows
<1>2. /\ f[0] = <<>> /\ N \in Nat
      /\ \A n \in 1..N : f[n] = IF kind \in results[n].kinds THEN Append(f[n - 1], results[n].item) ELSE f[n - 1]
  <2>1. f = [n \in 0..N |-> IF n = 0 THEN <<>>
                            ELSE IF kind \in results[n].kinds THEN Append(f[n - 1], results[n].item)
                            ELSE f[n - 1]]
    BY <1>1 DEF Grows
  <2>2. N \in Nat
    OBVIOUS
  <2>3. \A n \in 1..N : n \in 0..N /\ n # 0
    BY <2>2
  <2>4. 0 \in 0..N
    BY <2>2
  <2> HIDE DEF N
  <2>5. f[0] = <<>>
    BY <2>1, <2>4
  <2>. QED BY <2>1, <2>2, <2>3, <2>5
<1> DEFINE T == {n \in 0..N : Lists(f[n], results, kind, n)}
<1>3. 0 \in T
  <2>1. Lists(<<>>, results, kind, 0)
    BY DEF Lists, Items
  <2>. QED BY <1>2, <2>1
<1>4. ASSUME NEW n \in 1..N, n - 1 \in T PROVE n \in T
  <2> DEFINE s == f[n - 1]
             r == results[n]
  <2>1. Lists(s, results, kind, n - 1) /\ n \in 0..N /\ n \in Nat
    BY <1>2, <1>4
  <2>2. r \in Stored /\ r.item \in Requests
    <3>1. results[n] \in Stored
      OBVIOUS
    <3>. QED BY <3>1 DEF Stored
  <2>3. 1..n = 1..(n - 1) \cup {n}
    OBVIOUS
  <2>4. \A x \in Items(results, kind, n - 1) : x < r.item
    <3>1. \A i \in 1..(n - 1) : i \in 1..N /\ i < n
      BY <1>2
    <3>. QED BY <3>1 DEF Items
  <2>5. f[n] = IF kind \in r.kinds THEN Append(s, r.item) ELSE s
    BY <1>2
  <2> HIDE DEF s, r, T
  <2>6. CASE kind \notin r.kinds
    <3>1. Items(results, kind, n) = Items(results, kind, n - 1)
      BY <2>3, <2>6 DEF Items, r
    <3>2. Lists(f[n], results, kind, n)
      BY <2>1, <2>5, <2>6, <3>1 DEF Lists
    <3>. QED BY <2>1, <3>2 DEF T
  <2>7. CASE kind \in r.kinds
    <3> DEFINE x == r.item
               t == Append(s, x)
               old == Items(results, kind, n - 1)
    <3>1. Items(results, kind, n) = old \cup {x}
      BY <2>3, <2>7 DEF Items, r
    <3>2. /\ s \in Seq(Requests) /\ Len(s) \in Nat
          /\ \A i \in 1..Len(s) : s[i] \in old
          /\ \A y \in old : \E i \in 1..Len(s) : s[i] = y
          /\ \A i, j \in 1..Len(s) : i < j => s[i] < s[j]
      BY <2>1 DEF Lists
    <3>3. x \in Requests /\ \A y \in old : y < x
      BY <2>2, <2>4
    <3> HIDE DEF x, old
    <3>4. /\ t \in Seq(Requests) /\ Len(t) = Len(s) + 1 /\ t[Len(s) + 1] = x
          /\ \A i \in 1..Len(s) : t[i] = s[i]
      BY <3>2, <3>3, AppendProperties
    <3> HIDE DEF t
    <3>5. 1..Len(t) = 1..Len(s) \cup {Len(s) + 1}
      BY <3>2, <3>4
    <3>6. \A i \in 1..Len(t) : t[i] \in old \cup {x}
      BY <3>2, <3>4, <3>5
    <3>7. \A y \in old \cup {x} : \E i \in 1..Len(t) : t[i] = y
      BY <3>2, <3>4, <3>5
    <3>8. ASSUME NEW i \in 1..Len(t), NEW j \in 1..Len(t), i < j PROVE t[i] < t[j]
      <4>1. i \in 1..Len(s)
        BY <3>2, <3>4, <3>8
      <4>2. CASE j \in 1..Len(s)
        BY <3>2, <3>4, <3>8, <4>1, <4>2
      <4>3. CASE j = Len(s) + 1
        BY <3>2, <3>3, <3>4, <4>1, <4>3
      <4>. QED BY <3>5, <4>2, <4>3
    <3>9. Lists(t, results, kind, n)
      BY <3>1, <3>4, <3>6, <3>7, <3>8 DEF Lists
    <3>. QED BY <2>1, <2>5, <2>7, <3>9 DEF T, t, x
  <2>. QED BY <2>6, <2>7
<1> HIDE DEF T
<1>5. N \in T
  <2> HIDE DEF N
  <2>1. \A n \in 0..N : n \in T
    BY <1>2, <1>3, <1>4, NumbersUpTo
  <2>. QED BY <1>2, <2>1
<1>. QED BY <1>1, <1>5 DEF T

\* A successful call reports what the backend did, in the order of the split.
THEOREM AnswerMatchesBackendHolds == Spec => []AnswerMatchesBackend
<1>1. StepsInv => AnswerMatchesBackend
  <2> SUFFICES ASSUME StepsInv, NEW c \in Calls, call[c].pc = "returned"
      PROVE  LET k == call[c] IN
             IF k.op = "ingest"
               THEN \A kind \in Kinds :
                      /\ Range(k.answer[kind])
                           = {stored[c][i].item : i \in {j \in DOMAIN stored[c] : kind \in stored[c][j].kinds}}
                      /\ \A i, j \in DOMAIN k.answer[kind] : i < j => k.answer[kind][i] < k.answer[kind][j]
               ELSE k.answer = "page of the hook" <=> \E i \in DOMAIN k.trace : k.trace[i][1] = "post"
    BY DEF AnswerMatchesBackend
  <2> USE DEF StepsInv
  <2> DEFINE k == call[c]
             st == stored[c]
             p == hooks[k.gen]
  <2>1. /\ CallOK(k, st, wire[c]) /\ IsCall(k) /\ Traced(k, p) /\ Reported(k, st)
    BY UnderWay
  <2> HIDE DEF k, st, p
  <2>2. k.pc = "returned"
    BY DEF k
  <2>3. /\ k.answer = Reply(k, p) /\ ItemsOK(k, p) /\ Took(k, p, FinishedSteps(k, p))
        /\ k.at = Len(k.items) /\ k.at \in Nat
    BY <2>1, <2>2 DEF Traced, CallOK, IsCall
  <2>4. /\ Len(st) = k.at /\ Len(k.results) = k.at /\ st \in Seq(Stored) /\ k.results \in Seq(Stored)
        /\ \A i \in 1..k.at : st[i].item = k.items[i]
    BY <2>1, <2>2 DEF CallOK, Settled, Sent, IsCall
  <2>5. k.results = st
    BY <2>1, <2>4, SeqEqual DEF Reported
  <2>6. CASE k.op = "ingest"
    <3>1. \A i, j \in 1..Len(st) : i < j => st[i].item < st[j].item
      <4>1. k.items = [i \in 1..Len(k.items) |-> i] \/ k.items = <<0>>
        BY <2>3 DEF ItemsOK
      <4>2. CASE k.items = [i \in 1..Len(k.items) |-> i]
        <5>1. \A i \in 1..k.at : st[i].item = i
          BY <2>3, <2>4, <4>2
        <5>. QED BY <2>4, <5>1
      <4>3. CASE k.items = <<0>>
        <5>1. Len(st) = 1
          BY <2>3, <2>4, <4>3
        <5>. QED BY <5>1
      <4>. QED BY <4>1, <4>2, <4>3
    <3>2. ASSUME NEW kind \in Kinds
          PROVE  /\ Range(k.answer[kind]) = {st[i].item : i \in {j \in DOMAIN st : kind \in st[j].kinds}}
                 /\ \A i, j \in DOMAIN k.answer[kind] : i < j => k.answer[kind][i] < k.answer[kind][j]
      <4> DEFINE s == k.answer[kind]
      <4>1. s = Merge(st)[kind]
        BY <2>3, <2>5, <2>6 DEF Reply
      <4> HIDE DEF s
      <4>2. Lists(s, st, kind, Len(st))
        BY <2>4, <3>1, <4>1, MergeLists
      <4>3. DOMAIN s = 1..Len(s) /\ DOMAIN st = 1..Len(st)
        BY <2>4, <4>2 DEF Lists
      <4>4. Range(s) = Items(st, kind, Len(st))
        BY <4>2, <4>3 DEF Lists, Range
      <4>5. Range(s) = {st[i].item : i \in {j \in DOMAIN st : kind \in st[j].kinds}}
        BY <4>3, <4>4 DEF Items
      <4>. QED BY <4>2, <4>3, <4>5 DEF Lists, s
    <3>. QED BY <2>6, <3>2 DEF k, st
  <2>7. CASE k.op # "ingest"
    <3> DEFINE len == FinishedSteps(k, p)
    <3>1. k.at = 1
      BY <2>3, <2>7 DEF ItemsOK
    <3>2. k.trace = [n \in 1..len |-> Turn(k, p, n)] /\ len \in Nat
      BY <2>3 DEF Took
    <3>3. k.answer = "page of the hook" <=> k.op \in p.post
      BY <2>3, <2>7 DEF Reply
    <3>4. CASE k.op \in p.post
      <4>1. len = FirstSteps(k, p) + 2 /\ FirstSteps(k, p) \in {0, 1}
        BY <3>1, <3>4 DEF FinishedSteps, ItemSteps, FirstSteps
      <4>2. Turn(k, p, len)[1] = "post"
        BY <3>4, <4>1 DEF Turn
      <4> HIDE DEF len
      <4>3. len \in 1..len
        BY <4>1
      <4>4. len \in DOMAIN k.trace /\ k.trace[len][1] = "post"
        BY <3>2, <4>2, <4>3
      <4>. QED BY <2>7, <3>3, <3>4, <4>4 DEF k
    <3>5. CASE k.op \notin p.post
      <4>1. \A n \in Nat : Turn(k, p, n)[1] # "post"
        BY <3>5 DEF Turn
      <4> HIDE DEF len
      <4>2. \A n \in DOMAIN k.trace : k.trace[n][1] # "post"
        BY <3>2, <4>1
      <4>. QED BY <2>7, <3>3, <3>5, <4>2 DEF k
    <3>. QED BY <3>4, <3>5
  <2>. QED BY <2>6, <2>7
<1>. QED BY <1>1, StepsInductive, PTL
=============================================================================
