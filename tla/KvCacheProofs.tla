--------------------------- MODULE KvCacheProofs ---------------------------
(***************************************************************************)
(* Theorems about KvCache: its properties hold for any users, keys,        *)
(* values, lifetimes and any bound of the clock.                           *)
(***************************************************************************)
EXTENDS KvCache, TLAPS

Ops == {"get", "set", "vacuum", "keys", "delete", "clear"}
Pending == {"check", "evict", "upsert", "vacuum", "list"}
Rows == Entry \cup {None}
Answers == Values \cup {None} \cup BOOLEAN \cup (SUBSET Keys) \cup {Cardinality(S) : S \in SUBSET Keys}

CallRecord == [pc: {"idle", "answered"} \cup Pending, op: Ops \cup {None}, key: Keys \cup {None},
               row: Rows, clock: Nat, answer: Answers]
Sights == [Keys -> SUBSET (Values \cup {None})]

\* The map and who uses it.
MapOK ==
  /\ adapter \in {"memory", "sqlite"}
  /\ users \subseteq Users
  /\ adapter = "memory" => Sole
  /\ now \in 0..MaxNow
  /\ data \in [Keys -> Rows]
  /\ open \subseteq users

\* What the row a suspended get() remembers says about the table.
GetOK(q, s) ==
  /\ q.pc \in {"check", "evict"} =>
       /\ q.op = "get" /\ q.key \in Keys /\ q.row \in Entry /\ q.row.expires \in Nat
       /\ Sole => data[q.key] = q.row
  /\ q.pc = "check" /\ now < q.row.expires => q.row.value \in s[q.key]
  /\ q.pc = "evict" => q.row.expires <= now

SetOK(q) == q.pc = "upsert" => q.op = "set" /\ q.key \in Keys /\ q.row \in Entry

\* What has survived, or will survive, the vacuum of a sole user was alive when it began.
VacuumOK(q, s) ==
  /\ q.pc \in {"vacuum", "list"} => q.op \in {"vacuum", "keys"} /\ q.clock <= now
  /\ q.pc = "list" => q.op = "keys"
  /\ q.pc = "vacuum" /\ q.op = "keys" /\ Sole =>
       \A k \in Keys \ Vacuumed(q.clock) : data[k] # None => data[k].value \in s[k]
  /\ q.pc = "list" /\ Sole => \A k \in Keys : data[k] # None => data[k].value \in s[k]

\* The present view is always among those a suspended reader has seen.
SightOK(q, s) == q.pc \in Pending /\ Reads(q.op) => \A k \in Keys : View(k) \in s[k]

GetAnswerOK(q, s) ==
  q.pc = "answered" /\ q.op = "get" =>
    q.key \in Keys /\ (Sole \/ q.answer # None => q.answer \in s[q.key])

KeysAnswerOK(q, s) ==
  q.pc = "answered" /\ q.op = "keys" =>
    /\ {k \in Keys : None \notin s[k]} \subseteq q.answer
    /\ Sole => \A k \in q.answer : s[k] # {None}

UserOK(u, q, s) ==
  /\ q.pc \in Pending => u \in users /\ adapter = "sqlite"
  /\ GetOK(q, s) /\ SetOK(q) /\ VacuumOK(q, s) /\ SightOK(q, s)
  /\ GetAnswerOK(q, s) /\ KeysAnswerOK(q, s)

CallsOK ==
  /\ call \in [Users -> CallRecord]
  /\ seen \in [Users -> Sights]
  /\ \A u \in Users : UserOK(u, call[u], seen[u])

IInv == MapOK /\ CallsOK

-----------------------------------------------------------------------------
(* What the operators return *)

\* The view of a key is a value or None, and a value exactly while the key is alive.
LEMMA ViewType ==
  ASSUME MapOK, NEW k \in Keys
  PROVE  /\ View(k) \in Values \cup {None}
         /\ View(k) # None <=> Alive(k)
         /\ Alive(k) => data[k] \in Entry /\ View(k) = data[k].value
BY NoneAssumption DEF MapOK, View, Alive, Rows, Entry

\* Only one user means that whoever acts or is suspended is the same.
LEMMA OnlyUser ==
  ASSUME Sole, NEW u \in users, NEW w \in users
  PROVE  u = w
BY DEF Sole

\* Everything the vacuum deletes has expired.
LEMMA VacuumedExpired ==
  ASSUME MapOK, NEW clock \in Nat, clock <= now
  PROVE  \A k \in Vacuumed(clock) : ~Alive(k)
BY TimeAssumption, NoneAssumption DEF MapOK, Vacuumed, Alive, Rows, Entry, Times, Present

-----------------------------------------------------------------------------
(* Steps *)

\* A user who does not act stays consistent: the map changes under a sole user
\* only by that user's own steps.
LEMMA Unmoved ==
  ASSUME MapOK, MapOK', NEW w \in Users, NEW q \in CallRecord, NEW s \in Sights,
         NEW t \in Sights,
         UserOK(w, q, s), users' = users, adapter' = adapter, now <= now',
         Sole /\ q.pc \in Pending => data' = data,
         q.pc \in Pending /\ Reads(q.op) => \A k \in Keys : t[k] = s[k] \cup {View(k)'},
         q.pc = "answered" /\ Reads(q.op) => t = s
  PROVE  UserOK(w, q, t)'
<1> USE NoneAssumption
<1>0. Sole' <=> Sole
  BY DEF Sole
<1>1. now \in Nat /\ now' \in Nat
  BY TimeAssumption DEF MapOK
<1>2. GetOK(q, t)'
  <2>1. CASE q.pc \in {"check", "evict"}
    <3>1. \A k \in Keys : s[k] \subseteq t[k]
      BY <2>1 DEF UserOK, GetOK, Pending, Reads
    <3>. QED BY <1>0, <1>1, <2>1, <3>1 DEF UserOK, GetOK, Pending
  <2>. QED BY <2>1 DEF GetOK
<1>3. VacuumOK(q, t)'
  <2>1. CASE q.pc \in {"vacuum", "list"} /\ q.op = "keys"
    <3>1. \A k \in Keys : s[k] \subseteq t[k]
      BY <2>1 DEF Pending, Reads
    <3>2. Sole => Vacuumed(q.clock)' = Vacuumed(q.clock)
      BY <2>1 DEF Vacuumed, Present, Pending
    <3>. QED BY <1>0, <1>1, <2>1, <3>1, <3>2 DEF UserOK, VacuumOK, Pending, CallRecord
  <2>2. CASE q.pc = "vacuum" /\ q.op # "keys"
    BY <1>1, <2>2 DEF UserOK, VacuumOK, CallRecord
  <2>. QED BY <2>1, <2>2 DEF UserOK, VacuumOK
<1>4. SightOK(q, t)'
  BY DEF SightOK, Reads
<1>5. GetAnswerOK(q, t)' /\ KeysAnswerOK(q, t)'
  BY <1>0 DEF UserOK, GetAnswerOK, KeysAnswerOK, Reads
<1>. QED BY <1>2, <1>3, <1>4, <1>5 DEF UserOK, SetOK

\* Observing keeps the type of the history.
LEMMA SeenType ==
  ASSUME MapOK, MapOK', seen \in [Users -> Sights], NEW b, Observe(b)
  PROVE  seen' \in [Users -> Sights]
<1>1. \A k \in Keys : View(k) \in Values \cup {None} /\ View(k)' \in Values \cup {None}
  BY ViewType DEF MapOK, View, Alive, Rows, Entry
<1>. QED BY <1>1 DEF Observe, Sights

\* It is enough to show that the user who acts stays consistent.
LEMMA OneUserStep ==
  ASSUME MapOK, MapOK', CallsOK, UNCHANGED store, now' = now,
         NEW u \in users, NEW q \in CallRecord, call' = [call EXCEPT ![u] = q],
         NEW b \in {u, None}, Observe(b), UserOK(u, call[u], seen[u])'
  PROVE  CallsOK'
<1>1. call' \in [Users -> CallRecord] /\ seen' \in [Users -> Sights]
  BY SeenType DEF CallsOK, MapOK
<1>2. ASSUME NEW w \in Users, w # u
      PROVE  UserOK(w, call[w], seen[w])'
  <2>1. call'[w] = call[w] /\ w # b
    BY <1>2, NoneAssumption DEF CallsOK, MapOK
  <2>2. call[w].pc \in Pending => ~Sole
    BY <1>2, OnlyUser DEF CallsOK, UserOK
  <2>3. /\ call[w].pc \in Pending /\ Reads(call[w].op) =>
              \A k \in Keys : seen'[w][k] = seen[w][k] \cup {View(k)'}
        /\ call[w].pc = "answered" /\ Reads(call[w].op) => seen'[w] = seen[w]
    BY <2>1 DEF Observe, Pending
  <2>4. \A q2, s2, t2 : q2 = call[w] /\ s2 = seen[w] /\ t2 = seen'[w] => UserOK(w, q2, t2)'
    <3> SUFFICES ASSUME NEW q2, NEW s2, NEW t2, q2 = call[w], s2 = seen[w], t2 = seen'[w]
                 PROVE  UserOK(w, q2, t2)'
      OBVIOUS
    <3>1. q2 \in CallRecord /\ s2 \in Sights /\ t2 \in Sights /\ UserOK(w, q2, s2)
      BY <1>1 DEF CallsOK
    <3>2. now <= now'
      BY TimeAssumption DEF MapOK
    <3>. QED BY <2>2, <2>3, <3>1, <3>2, Unmoved DEF store
  <2>. QED BY <2>1, <2>4 DEF UserOK, GetOK, SetOK, VacuumOK, SightOK, GetAnswerOK, KeysAnswerOK
<1>. QED BY <1>1, <1>2 DEF CallsOK

\* What a row says of the map: its lifetime, and whether it is alive.
LEMMA RowFacts ==
  ASSUME MapOK, NEW k \in Keys, data[k] # None
  PROVE  /\ data[k] \in Entry
         /\ data[k].expires = Never \/ data[k].expires \in Nat
         /\ data[k].value \in Values
         /\ Alive(k) => View(k) = data[k].value
         /\ ~Alive(k) => View(k) = None
BY DEF MapOK, Rows, Entry, Times, View, Alive

\* A step that stores rows or nothing keeps the map well formed.
LEMMA MapStep ==
  ASSUME MapOK, UNCHANGED <<store, now>>, data' \in [Keys -> Rows], open' \subseteq users
  PROVE  MapOK'
BY DEF MapOK, store, Sole

LEMMA PutType ==
  ASSUME MapOK, NEW k \in Keys, NEW e \in Entry, Put(k, e)
  PROVE  data' \in [Keys -> Rows]
BY DEF MapOK, Put, Rows

LEMMA RemoveType ==
  ASSUME MapOK, NEW S, Remove(S)
  PROVE  data' \in [Keys -> Rows]
BY DEF MapOK, Remove, Rows

LEMMA LifetimeType ==
  ASSUME MapOK, NEW v \in Values, NEW ttl \in TTLs
  PROVE  [value |-> v, expires |-> Lifetime(ttl)] \in Entry
BY TimeAssumption DEF MapOK, Lifetime, Entry, Times

-----------------------------------------------------------------------------
(* The actions of the SQLite adapter *)

LEMMA GetSelectsInv ==
  ASSUME IInv, NEW u \in Users, NEW k \in Keys, GetSelects(u, k),
         UNCHANGED <<store, now, open>>, Observe(u)
  PROVE  IInv'
<1> USE DEF IInv
<1>1. MapOK' /\ u \in users
  BY MapStep DEF GetSelects, Begins, MapOK
<1>2. \A j \in Keys : View(j)' = View(j)
  BY DEF GetSelects, View, Alive
<1>3. CASE data[k] = None \/ data[k].expires = Never
  <2> DEFINE a == IF data[k] = None THEN None ELSE data[k].value
             q == [NoCall EXCEPT !.pc = "answered", !.op = "get", !.key = k, !.answer = a]
  <2>1. call' = [call EXCEPT ![u] = q]
    BY <1>3 DEF GetSelects, Returns, Goes
  <2>2. a \in Values \cup {None} /\ a = View(k)
    BY <1>3, RowFacts DEF Alive, View
  <2>3. q \in CallRecord
    BY <2>2 DEF CallRecord, NoCall, Answers, Ops, Rows
  <2>4. call'[u] = q /\ seen'[u][k] = {View(k), View(k)'}
    BY <2>1 DEF Observe, Reads, CallsOK, NoCall
  <2>5. UserOK(u, call[u], seen[u])'
    BY <2>2, <2>4 DEF UserOK, GetOK, SetOK, VacuumOK, SightOK, GetAnswerOK, KeysAnswerOK, Pending, NoCall
  <2>. HIDE DEF q
  <2>. QED BY <1>1, <2>1, <2>3, <2>5, OneUserStep
<1>4. CASE data[k] # None /\ data[k].expires # Never
  <2> DEFINE q == [NoCall EXCEPT !.pc = "check", !.op = "get", !.key = k, !.row = data[k], !.clock = now]
  <2>1. call' = [call EXCEPT ![u] = q]
    BY <1>4 DEF GetSelects, Suspends, Goes
  <2>2. data[k] \in Entry /\ data[k].expires \in Nat /\ now \in Nat
    BY <1>4, RowFacts, TimeAssumption DEF MapOK
  <2>3. q \in CallRecord
    BY <2>2 DEF CallRecord, NoCall, Answers, Ops, Rows, Pending
  <2>4. call'[u] = q /\ \A j \in Keys : seen'[u][j] = {View(j), View(j)'}
    BY <2>1 DEF Observe, Reads, CallsOK, NoCall
  <2>5. data' = data /\ now' = now /\ users' = users /\ adapter' = adapter /\ adapter = "sqlite"
    BY DEF GetSelects, store
  <2>6. now < data[k].expires => View(k) = data[k].value
    BY <1>4 DEF View, Alive
  <2>7. UserOK(u, call[u], seen[u])'
    BY <1>1, <1>2, <2>2, <2>4, <2>5, <2>6
    DEF UserOK, GetOK, SetOK, VacuumOK, SightOK, GetAnswerOK, KeysAnswerOK, Pending, NoCall, View
  <2>. HIDE DEF q
  <2>. QED BY <1>1, <2>1, <2>3, <2>7, OneUserStep
<1>. QED BY <1>3, <1>4

\* A call that ends without having read the map leaves nothing to show.
LEMMA PlainStep ==
  ASSUME MapOK, MapOK', CallsOK, UNCHANGED store, now' = now,
         NEW u \in users, NEW q \in CallRecord,
         q.pc = "idle" \/ (q.pc = "answered" /\ q.op \notin {"get", "keys"}),
         call' = [call EXCEPT ![u] = q],
         NEW b \in {u, None}, Observe(b)
  PROVE  CallsOK'
<1>1. call'[u] = q
  BY DEF CallsOK, MapOK
<1>2. UserOK(u, call[u], seen[u])'
  BY <1>1 DEF UserOK, GetOK, SetOK, VacuumOK, SightOK, GetAnswerOK, KeysAnswerOK, Pending
<1>. QED BY <1>2, OneUserStep

\* What a suspended call of u is known to satisfy.
LEMMA InSQLiteFacts ==
  ASSUME IInv, NEW u \in Users, NEW pc, InSQLite(u, pc)
  PROVE  /\ u \in users /\ adapter = "sqlite"
         /\ call[u] \in CallRecord /\ call[u].pc = pc /\ seen[u] \in Sights
         /\ UserOK(u, call[u], seen[u])
BY DEF IInv, CallsOK, InSQLite

LEMMA GetChecksInv ==
  ASSUME IInv, NEW u \in Users, GetChecks(u), UNCHANGED <<store, now, open>>, Observe(None)
  PROVE  IInv'
<1> USE DEF IInv
<1>1. MapOK'
  BY MapStep DEF GetChecks, MapOK
<1>2. /\ u \in users /\ adapter = "sqlite" /\ call[u] \in CallRecord /\ call[u].pc = "check"
      /\ UserOK(u, call[u], seen[u])
  BY InSQLiteFacts DEF GetChecks
<1>3. /\ call[u].op = "get" /\ call[u].key \in Keys /\ call[u].row \in Entry
      /\ call[u].row.expires \in Nat /\ now \in Nat
      /\ now < call[u].row.expires => call[u].row.value \in seen[u][call[u].key]
      /\ Sole => data[call[u].key] = call[u].row
  BY <1>2, TimeAssumption DEF UserOK, GetOK, MapOK
<1>4. data' = data /\ users' = users /\ adapter' = adapter /\ now' = now
  BY DEF GetChecks, store
<1>5. CASE Expired(call[u].row, now)
  <2> DEFINE q == [call[u] EXCEPT !.pc = "evict"]
  <2>1. call' = [call EXCEPT ![u] = q]
    BY <1>5 DEF GetChecks, Goes
  <2>2. q \in CallRecord
    BY <1>2 DEF CallRecord, Pending
  <2>3. /\ call'[u] = q
        /\ \A j \in Keys : seen'[u][j] = seen[u][j] \cup {View(j)'}
    BY <1>2, <1>3, <2>1, NoneAssumption DEF Observe, Reads, CallsOK, CallRecord
  <2>4. call[u].row.expires <= now
    BY <1>3, <1>5 DEF Expired
  <2>5. UserOK(u, call[u], seen[u])'
    BY <1>2, <1>3, <1>4, <2>3, <2>4
    DEF UserOK, GetOK, SetOK, VacuumOK, SightOK, GetAnswerOK, KeysAnswerOK, Pending, CallRecord, Sole
  <2>. HIDE DEF q
  <2>. QED BY <1>1, <1>2, <2>1, <2>2, <2>5, OneUserStep
<1>6. CASE ~Expired(call[u].row, now)
  <2> DEFINE q == [NoCall EXCEPT !.pc = "answered", !.op = "get", !.key = call[u].key, !.answer = call[u].row.value]
  <2>1. call' = [call EXCEPT ![u] = q]
    BY <1>6 DEF GetChecks, Returns, Goes
  <2>2. q \in CallRecord
    BY <1>3 DEF CallRecord, NoCall, Answers, Ops, Rows, Entry
  <2>3. call'[u] = q /\ seen[u][call[u].key] \subseteq seen'[u][call[u].key]
    BY <1>2, <1>3, <2>1, NoneAssumption DEF Observe, Reads, CallsOK, NoCall
  <2>4. call[u].row.value \in seen[u][call[u].key]
    BY <1>3, <1>6, TimeAssumption, NoneAssumption DEF Expired
  <2>5. UserOK(u, call[u], seen[u])'
    BY <1>3, <2>3, <2>4
    DEF UserOK, GetOK, SetOK, VacuumOK, SightOK, GetAnswerOK, KeysAnswerOK, Pending, NoCall
  <2>. HIDE DEF q
  <2>. QED BY <1>1, <1>2, <2>1, <2>2, <2>5, OneUserStep
<1>. QED BY <1>5, <1>6

LEMMA GetEvictsInv ==
  ASSUME IInv, NEW u \in Users, GetEvicts(u), UNCHANGED <<store, now, open>>, Observe(None)
  PROVE  IInv'
<1> USE DEF IInv
<1>1. MapOK'
  BY MapStep, RemoveType DEF GetEvicts, MapOK
<1>2. /\ u \in users /\ adapter = "sqlite" /\ call[u] \in CallRecord /\ call[u].pc = "evict"
      /\ UserOK(u, call[u], seen[u])
  BY InSQLiteFacts DEF GetEvicts
<1>3. call[u].op = "get" /\ call[u].key \in Keys
  BY <1>2 DEF UserOK, GetOK
<1> DEFINE q == [NoCall EXCEPT !.pc = "answered", !.op = "get", !.key = call[u].key, !.answer = None]
<1>4. call' = [call EXCEPT ![u] = q] /\ q \in CallRecord
  BY <1>3 DEF GetEvicts, Returns, Goes, CallRecord, NoCall, Answers, Ops, Rows
<1>5. \A k \in Keys : k = call[u].key => View(k)' = None
  BY DEF GetEvicts, Remove, View, Alive
<1>6. call'[u] = q /\ \A k \in Keys : k = call[u].key => None \in seen'[u][k]
  BY <1>2, <1>3, <1>4, <1>5, NoneAssumption DEF Observe, Reads, CallsOK, NoCall
<1>7. UserOK(u, call[u], seen[u])'
  BY <1>3, <1>6 DEF UserOK, GetOK, SetOK, VacuumOK, SightOK, GetAnswerOK, KeysAnswerOK, Pending, NoCall
<1>. HIDE DEF q
<1>. QED BY <1>1, <1>2, <1>4, <1>7, OneUserStep

LEMMA SetReadsClockInv ==
  ASSUME IInv, NEW u \in Users, NEW k \in Keys, NEW v \in Values, NEW ttl \in TTLs,
         SetReadsClock(u, k, v, ttl), UNCHANGED <<store, now, open>>, Observe(u)
  PROVE  IInv'
<1> USE DEF IInv
<1>1. MapOK' /\ u \in users /\ users' = users /\ adapter' = adapter /\ adapter = "sqlite"
  BY MapStep DEF SetReadsClock, Begins, MapOK, store
<1> DEFINE e == [value |-> v, expires |-> Lifetime(ttl)]
           q == [NoCall EXCEPT !.pc = "upsert", !.op = "set", !.key = k, !.row = e, !.clock = now]
<1>2. e \in Entry /\ now \in Nat
  BY LifetimeType, TimeAssumption DEF MapOK
<1>. HIDE DEF e
<1>3. call' = [call EXCEPT ![u] = q]
  BY DEF SetReadsClock, Suspends, Goes, e
<1>4. q \in CallRecord
  BY <1>2 DEF CallRecord, NoCall, Answers, Ops, Rows, Pending
<1>5. call'[u] = q
  BY <1>3 DEF CallsOK
<1>6. UserOK(u, call[u], seen[u])'
  BY <1>1, <1>2, <1>5 DEF UserOK, GetOK, SetOK, VacuumOK, SightOK, GetAnswerOK, KeysAnswerOK, Pending, NoCall, Reads
<1>. HIDE DEF q
<1>. QED BY <1>1, <1>3, <1>4, <1>6, OneUserStep

LEMMA SetUpsertsInv ==
  ASSUME IInv, NEW u \in Users, SetUpserts(u), UNCHANGED <<store, now, open>>, Observe(None)
  PROVE  IInv'
<1> USE DEF IInv
<1>1. /\ u \in users /\ call[u] \in CallRecord /\ call[u].key \in Keys /\ call[u].row \in Entry
  BY InSQLiteFacts DEF SetUpserts, UserOK, SetOK
<1>2. MapOK'
  BY <1>1, MapStep, PutType DEF SetUpserts, MapOK
<1> DEFINE q == [NoCall EXCEPT !.pc = "answered", !.op = "set", !.key = call[u].key, !.answer = None]
<1>3. call' = [call EXCEPT ![u] = q] /\ q \in CallRecord
  BY <1>1 DEF SetUpserts, Returns, Goes, CallRecord, NoCall, Answers, Ops, Rows
<1>4. q.pc = "answered" /\ q.op = "set"
  BY DEF NoCall
<1>. HIDE DEF q
<1>. QED BY <1>1, <1>2, <1>3, <1>4, PlainStep

LEMMA VacuumReadsClockInv ==
  ASSUME IInv, NEW u \in Users, NEW op \in {"vacuum", "keys"},
         VacuumReadsClock(u, op), UNCHANGED <<store, now, open>>, Observe(u)
  PROVE  IInv'
<1> USE DEF IInv
<1>1. /\ MapOK' /\ u \in users /\ users' = users /\ adapter' = adapter /\ adapter = "sqlite"
      /\ data' = data /\ now' = now /\ now \in Nat
  BY MapStep, TimeAssumption DEF VacuumReadsClock, Begins, MapOK, store
<1> DEFINE q == [NoCall EXCEPT !.pc = "vacuum", !.op = op, !.key = None, !.row = None, !.clock = now]
<1>2. call' = [call EXCEPT ![u] = q] /\ q \in CallRecord
  BY <1>1 DEF VacuumReadsClock, Suspends, Goes, CallRecord, NoCall, Answers, Ops, Rows, Pending
<1>3. \A j \in Keys : View(j)' = View(j)
  BY <1>1 DEF View, Alive
<1>4. call'[u] = q /\ (op = "keys" => \A j \in Keys : seen'[u][j] = {View(j), View(j)'})
  BY <1>2 DEF Observe, Reads, CallsOK, NoCall
<1>5. \A j \in Keys \ Vacuumed(now) : data[j] # None => View(j) = data[j].value
  BY <1>1, RowFacts DEF Vacuumed, Present, Alive
<1>6. Vacuumed(now)' = Vacuumed(now)
  BY <1>1 DEF Vacuumed, Present
<1>7. \A j \in Keys \ Vacuumed(now)' : data'[j] # None /\ op = "keys" => data'[j].value \in seen'[u][j]
  BY <1>1, <1>4, <1>5, <1>6
<1>8. VacuumOK(call[u], seen[u])'
  BY <1>1, <1>4, <1>7 DEF VacuumOK, NoCall
<1>9. UserOK(u, call[u], seen[u])'
  BY <1>1, <1>3, <1>4, <1>8
  DEF UserOK, GetOK, SetOK, SightOK, GetAnswerOK, KeysAnswerOK, Pending, NoCall, Reads, View
<1>. HIDE DEF q
<1>. QED BY <1>1, <1>2, <1>9, OneUserStep

LEMMA VacuumDeletesInv ==
  ASSUME IInv, NEW u \in Users, VacuumDeletes(u), UNCHANGED <<store, now, open>>, Observe(None)
  PROVE  IInv'
<1> USE DEF IInv
<1>1. MapOK'
  BY MapStep, RemoveType DEF VacuumDeletes, MapOK
<1>2. /\ u \in users /\ adapter = "sqlite" /\ call[u] \in CallRecord /\ call[u].pc = "vacuum"
      /\ UserOK(u, call[u], seen[u])
  BY InSQLiteFacts DEF VacuumDeletes
<1>3. call[u].op \in {"vacuum", "keys"} /\ call[u].clock <= now
  BY <1>2 DEF UserOK, VacuumOK
<1>4. CASE call[u].op = "vacuum"
  <2> DEFINE n == Cardinality(Vacuumed(call[u].clock))
             q == [NoCall EXCEPT !.pc = "answered", !.op = "vacuum", !.key = None, !.answer = n]
  <2>1. n \in Answers
    BY DEF Vacuumed, Present, Answers
  <2>2. call' = [call EXCEPT ![u] = q]
    BY <1>4 DEF VacuumDeletes, Returns, Goes
  <2>. HIDE DEF n
  <2>3. q \in CallRecord /\ q.pc = "answered" /\ q.op = "vacuum"
    BY <2>1 DEF CallRecord, NoCall, Ops, Rows
  <2>. HIDE DEF q
  <2>. QED BY <1>1, <1>2, <2>2, <2>3, PlainStep
<1>5. CASE call[u].op = "keys"
  <2> DEFINE q == [call[u] EXCEPT !.pc = "list"]
  <2>1. call' = [call EXCEPT ![u] = q] /\ q \in CallRecord
    BY <1>2, <1>5 DEF VacuumDeletes, Goes, CallRecord, Pending
  <2>2. /\ call'[u] = q
        /\ \A j \in Keys : seen'[u][j] = seen[u][j] \cup {View(j)'}
    BY <1>2, <1>5, <2>1, NoneAssumption DEF Observe, Reads, CallsOK, CallRecord
  <2>3. \A j \in Keys : data'[j] # None => j \in Keys \ Vacuumed(call[u].clock) /\ data'[j] = data[j]
    BY DEF VacuumDeletes, Remove
  <2>4. Sole => \A j \in Keys : data'[j] # None => data'[j].value \in seen'[u][j]
    BY <1>2, <1>5, <2>2, <2>3 DEF UserOK, VacuumOK
  <2>5. users' = users /\ adapter' = adapter /\ now' = now
    BY DEF store
  <2>6. UserOK(u, call[u], seen[u])'
    BY <1>2, <1>3, <1>5, <2>2, <2>4, <2>5
    DEF UserOK, GetOK, SetOK, VacuumOK, SightOK, GetAnswerOK, KeysAnswerOK, Pending, CallRecord, Sole
  <2>. HIDE DEF q
  <2>. QED BY <1>1, <1>2, <2>1, <2>6, OneUserStep
<1>. QED BY <1>3, <1>4, <1>5

LEMMA KeysSelectsInv ==
  ASSUME IInv, NEW u \in Users, KeysSelects(u), UNCHANGED <<store, now, open>>, Observe(None)
  PROVE  IInv'
<1> USE DEF IInv
<1>1. MapOK'
  BY MapStep DEF KeysSelects, MapOK
<1>2. /\ u \in users /\ adapter = "sqlite" /\ call[u] \in CallRecord /\ call[u].pc = "list"
      /\ UserOK(u, call[u], seen[u])
  BY InSQLiteFacts DEF KeysSelects
<1>3. call[u].op = "keys"
  BY <1>2 DEF UserOK, VacuumOK
<1> DEFINE q == [NoCall EXCEPT !.pc = "answered", !.op = "keys", !.key = None, !.answer = Present]
<1>4. call' = [call EXCEPT ![u] = q] /\ q \in CallRecord
  BY DEF KeysSelects, Returns, Goes, CallRecord, NoCall, Answers, Ops, Rows, Present
<1>5. call'[u] = q /\ \A j \in Keys : seen[u][j] \subseteq seen'[u][j]
  BY <1>2, <1>3, <1>4, NoneAssumption DEF Observe, Reads, CallsOK, NoCall, CallRecord
<1>6. \A j \in Keys : j \notin Present => None \in seen[u][j]
  BY <1>2, <1>3 DEF UserOK, SightOK, Pending, Reads, View, Alive, Present
<1>7. Sole => \A j \in Present : data[j].value \in seen[u][j] /\ data[j].value # None
  BY <1>2, RowFacts, NoneAssumption DEF UserOK, VacuumOK, Present
<1>8. users' = users
  BY DEF store
<1>9. KeysAnswerOK(call[u], seen[u])'
  BY <1>5, <1>6, <1>7, <1>8 DEF KeysAnswerOK, NoCall, Sole, Present
<1>10. UserOK(u, call[u], seen[u])'
  BY <1>5, <1>9 DEF UserOK, GetOK, SetOK, VacuumOK, SightOK, GetAnswerOK, Pending, NoCall
<1>. HIDE DEF q
<1>. QED BY <1>1, <1>2, <1>4, <1>10, OneUserStep

LEMMA StatementRaisesInv ==
  ASSUME IInv, NEW u \in Users, StatementRaises(u), UNCHANGED <<store, now, open>>, Observe(None)
  PROVE  IInv'
<1> USE DEF IInv
<1>1. MapOK' /\ u \in users
  BY MapStep DEF StatementRaises, MapOK, InSQLite
<1>2. call' = [call EXCEPT ![u] = NoCall] /\ NoCall \in CallRecord
  BY DEF StatementRaises, Goes, CallRecord, NoCall, Answers, Rows
<1>3. NoCall.pc = "idle"
  BY DEF NoCall
<1>. QED BY <1>1, <1>2, <1>3, PlainStep

-----------------------------------------------------------------------------
(* The actions of both adapters, and of the one in memory *)

LEMMA DeleteInv ==
  ASSUME IInv, NEW u \in Users, NEW k \in Keys, Delete(u, k),
         UNCHANGED <<store, now, open>>, Observe(u)
  PROVE  IInv'
<1> USE DEF IInv
<1>1. MapOK' /\ u \in users
  BY MapStep, RemoveType DEF Delete, Begins, MapOK
<1> DEFINE a == k \in Present
           q == [NoCall EXCEPT !.pc = "answered", !.op = "delete", !.key = k, !.answer = a]
<1>2. a \in BOOLEAN
  <2>1. CASE k \in Present
    <3>1. a = TRUE
      BY <2>1, SMT
    <3>. QED BY <3>1
  <2>2. CASE k \notin Present
    <3>1. a = FALSE
      BY <2>2, SMT
    <3>. QED BY <3>1
  <2>. QED BY <2>1, <2>2
<1>3. call' = [call EXCEPT ![u] = q]
  BY Zenon DEF Delete, Returns, Goes
<1>. HIDE DEF a
<1>4. q \in CallRecord /\ q.pc = "answered" /\ q.op = "delete"
  BY <1>2 DEF CallRecord, NoCall, Answers, Ops, Rows
<1>. HIDE DEF q
<1>. QED BY <1>1, <1>3, <1>4, PlainStep

LEMMA ClearInv ==
  ASSUME IInv, NEW u \in Users, Clear(u), UNCHANGED <<store, now, open>>, Observe(u)
  PROVE  IInv'
<1> USE DEF IInv
<1>1. MapOK' /\ u \in users
  BY MapStep, RemoveType DEF Clear, Begins, MapOK
<1> DEFINE q == [NoCall EXCEPT !.pc = "answered", !.op = "clear", !.key = None, !.answer = None]
<1>2. call' = [call EXCEPT ![u] = q] /\ q \in CallRecord /\ q.pc = "answered" /\ q.op = "clear"
  BY DEF Clear, Returns, Goes, CallRecord, NoCall, Answers, Ops, Rows
<1>. HIDE DEF q
<1>. QED BY <1>1, <1>2, PlainStep

\* initialize() and close() end whatever call record there was.
LEMMA OpenCloseInv ==
  ASSUME IInv, NEW u \in Users, Initialize(u) \/ Close(u), UNCHANGED <<store, now>>, Observe(None)
  PROVE  IInv'
<1> USE DEF IInv
<1>1. u \in users /\ open' \subseteq users
  BY DEF Initialize, Close, Begins, MapOK
<1>2. data' \in [Keys -> Rows]
  BY DEF Initialize, Close, MapOK, Rows
<1>3. MapOK'
  BY <1>1, <1>2, MapStep
<1>4. call' = [call EXCEPT ![u] = NoCall] /\ NoCall \in CallRecord /\ NoCall.pc = "idle"
  BY DEF Initialize, Close, Goes, CallRecord, NoCall, Answers, Rows
<1>. QED BY <1>1, <1>3, <1>4, PlainStep

LEMMA MemoryGetInv ==
  ASSUME IInv, NEW u \in Users, NEW k \in Keys, MemoryGet(u, k),
         UNCHANGED <<store, now, open>>, Observe(u)
  PROVE  IInv'
<1> USE DEF IInv
<1>1. MapOK' /\ u \in users
  BY MapStep, RemoveType DEF MemoryGet, InMemory, Begins, MapOK
<1> DEFINE q == [NoCall EXCEPT !.pc = "answered", !.op = "get", !.key = k, !.answer = View(k)]
<1>3. call' = [call EXCEPT ![u] = q]
  <2>1. CASE data[k] = None \/ Expired(data[k], now)
    <3>1. View(k) = None
      BY <2>1, TimeAssumption, NoneAssumption, RowFacts DEF View, Alive, Expired, MapOK
    <3>. QED BY <2>1, <3>1 DEF MemoryGet, Returns, Goes
  <2>2. CASE data[k] # None /\ ~Expired(data[k], now)
    <3>1. View(k) = data[k].value
      BY <2>2, TimeAssumption, NoneAssumption, RowFacts DEF View, Alive, Expired, MapOK
    <3>. QED BY <2>2, <3>1 DEF MemoryGet, Returns, Goes
  <2>. QED BY <2>1, <2>2
<1>4. q \in CallRecord
  BY ViewType DEF CallRecord, NoCall, Answers, Ops, Rows
<1>5. call'[u] = q /\ View(k) \in seen'[u][k]
  BY <1>3 DEF Observe, Reads, CallsOK, NoCall
<1>6. UserOK(u, call[u], seen[u])'
  BY <1>5 DEF UserOK, GetOK, SetOK, VacuumOK, SightOK, GetAnswerOK, KeysAnswerOK, Pending, NoCall
<1>. HIDE DEF q
<1>. QED BY <1>1, <1>3, <1>4, <1>6, OneUserStep

LEMMA MemorySetInv ==
  ASSUME IInv, NEW u \in Users, NEW k \in Keys, NEW v \in Values, NEW ttl \in TTLs,
         MemorySet(u, k, v, ttl), UNCHANGED <<store, now, open>>, Observe(u)
  PROVE  IInv'
<1> USE DEF IInv
<1>1. MapOK' /\ u \in users
  BY MapStep, PutType, LifetimeType DEF MemorySet, InMemory, Begins, MapOK
<1> DEFINE q == [NoCall EXCEPT !.pc = "answered", !.op = "set", !.key = k, !.answer = None]
<1>2. call' = [call EXCEPT ![u] = q] /\ q \in CallRecord /\ q.pc = "answered" /\ q.op = "set"
  BY DEF MemorySet, Returns, Goes, CallRecord, NoCall, Answers, Ops, Rows
<1>. HIDE DEF q
<1>. QED BY <1>1, <1>2, PlainStep

LEMMA MemoryKeysInv ==
  ASSUME IInv, NEW u \in Users, MemoryKeys(u), UNCHANGED <<store, now, open>>, Observe(u)
  PROVE  IInv'
<1> USE DEF IInv
<1>1. MapOK' /\ u \in users
  BY MapStep, RemoveType DEF MemoryKeys, InMemory, Begins, MapOK
<1> DEFINE expired == {k \in Present : Expired(data[k], now)}
           q == [NoCall EXCEPT !.pc = "answered", !.op = "keys", !.key = None, !.answer = Present \ expired]
<1>2. call' = [call EXCEPT ![u] = q] /\ q \in CallRecord
  BY DEF MemoryKeys, Returns, Goes, CallRecord, NoCall, Answers, Ops, Rows, Present
<1>3. \A k \in Keys : k \in Present \ expired <=> View(k) # None
  BY TimeAssumption, NoneAssumption, RowFacts DEF View, Alive, Expired, MapOK, Present
<1>4. call'[u] = q /\ \A k \in Keys : View(k) \in seen'[u][k]
  BY <1>2 DEF Observe, Reads, CallsOK, NoCall
<1>5. q.pc = "answered" /\ q.op = "keys" /\ q.answer = Present \ expired /\ Present \subseteq Keys
  BY DEF NoCall, Present
<1>. HIDE DEF q, expired
<1>6. KeysAnswerOK(call[u], seen[u])'
  BY <1>3, <1>4, <1>5 DEF KeysAnswerOK
<1>7. UserOK(u, call[u], seen[u])'
  BY <1>4, <1>5, <1>6 DEF UserOK, GetOK, SetOK, VacuumOK, SightOK, GetAnswerOK, Pending
<1>. QED BY <1>1, <1>2, <1>7, OneUserStep

LEMMA TickInv ==
  ASSUME IInv, Tick, UNCHANGED store, Observe(None)
  PROVE  IInv'
<1> USE DEF IInv
<1>1. MapOK' /\ now <= now' /\ data' = data /\ call' = call
  BY TimeAssumption DEF MapOK, Tick, store, Sole
<1>2. seen' \in [Users -> Sights]
  BY <1>1, SeenType DEF CallsOK
<1>3. ASSUME NEW w \in Users
      PROVE  UserOK(w, call[w], seen[w])'
  <2>1. w # None
    BY NoneAssumption
  <2>2. /\ call[w].pc \in Pending /\ Reads(call[w].op) =>
              \A k \in Keys : seen'[w][k] = seen[w][k] \cup {View(k)'}
        /\ call[w].pc = "answered" /\ Reads(call[w].op) => seen'[w] = seen[w]
    BY <1>1, <2>1 DEF Observe, Pending
  <2>3. \A q2, s2, t2 : q2 = call[w] /\ s2 = seen[w] /\ t2 = seen'[w] => UserOK(w, q2, t2)'
    <3> SUFFICES ASSUME NEW q2, NEW s2, NEW t2, q2 = call[w], s2 = seen[w], t2 = seen'[w]
                 PROVE  UserOK(w, q2, t2)'
      OBVIOUS
    <3>1. q2 \in CallRecord /\ s2 \in Sights /\ t2 \in Sights /\ UserOK(w, q2, s2)
      BY <1>2 DEF CallsOK
    <3>. QED BY <1>1, <2>2, <3>1, Unmoved DEF store
  <2>. QED BY <1>1, <2>3 DEF UserOK, GetOK, SetOK, VacuumOK, SightOK, GetAnswerOK, KeysAnswerOK
<1>. QED BY <1>1, <1>2, <1>3 DEF CallsOK

-----------------------------------------------------------------------------
(* The theorems *)

LEMMA InitInv == Init => IInv
<1> SUFFICES ASSUME Init
             PROVE  IInv
  OBVIOUS
<1>1. MapOK
  BY TimeAssumption DEF Init, MapOK, Rows
<1>2. call \in [Users -> CallRecord] /\ seen \in [Users -> Sights]
  BY DEF Init, NoCall, CallRecord, Answers, Rows, Sights
<1>3. \A u \in Users : UserOK(u, call[u], seen[u])
  BY DEF Init, NoCall, UserOK, GetOK, SetOK, VacuumOK, SightOK, GetAnswerOK, KeysAnswerOK, Pending
<1>. QED BY <1>1, <1>2, <1>3 DEF IInv, CallsOK

LEMMA NextInv == IInv /\ [Next]_vars => IInv'
<1> SUFFICES ASSUME IInv, [Next]_vars
             PROVE  IInv'
  OBVIOUS
<1>1. CASE UNCHANGED vars
  <2>1. \A k \in Keys : View(k)' = View(k)
    BY <1>1 DEF vars, View, Alive
  <2>. QED BY <1>1, <2>1
       DEF IInv, MapOK, CallsOK, UserOK, GetOK, SetOK, VacuumOK, SightOK, GetAnswerOK, KeysAnswerOK,
           vars, store, Sole, Vacuumed, Present
<1>2. CASE Tick /\ Observe(None) /\ UNCHANGED store
  BY <1>2, TickInv
<1>3. ASSUME NEW u \in Users, Call(u), UNCHANGED <<now, open>>, Observe(u), UNCHANGED store
      PROVE  IInv'
  <2>1. CASE \E k \in Keys : GetSelects(u, k) \/ Delete(u, k) \/ MemoryGet(u, k)
    BY <1>3, <2>1, GetSelectsInv, DeleteInv, MemoryGetInv
  <2>2. CASE \E k \in Keys, v \in Values, ttl \in TTLs : SetReadsClock(u, k, v, ttl) \/ MemorySet(u, k, v, ttl)
    BY <1>3, <2>2, SetReadsClockInv, MemorySetInv
  <2>3. CASE \E op \in {"vacuum", "keys"} : VacuumReadsClock(u, op)
    BY <1>3, <2>3, VacuumReadsClockInv
  <2>4. CASE Clear(u) \/ MemoryKeys(u)
    BY <1>3, <2>4, ClearInv, MemoryKeysInv
  <2>. QED BY <1>3, <2>1, <2>2, <2>3, <2>4 DEF Call
<1>4. ASSUME NEW u \in Users, Statement(u), UNCHANGED <<now, open>>, Observe(None), UNCHANGED store
      PROVE  IInv'
  BY <1>4, GetChecksInv, GetEvictsInv, SetUpsertsInv, VacuumDeletesInv, KeysSelectsInv, StatementRaisesInv
  DEF Statement
<1>5. ASSUME NEW u \in Users, Initialize(u) \/ Close(u), UNCHANGED now, Observe(None), UNCHANGED store
      PROVE  IInv'
  BY <1>5, OpenCloseInv
<1>. QED BY <1>1, <1>2, <1>3, <1>4, <1>5 DEF Next

\* IInv, which says what the row or the clock a suspended call remembers still tells about the
\* table, is an invariant of the cache.
\* What a suspended call remembers of the table bounds what it may still do to it.
THEOREM Inductive == Spec => []IInv
BY InitInv, NextInv, PTL DEF Spec

\* Every variable keeps its type for any users, keys, values and lifetimes.
THEOREM TypeCorrect == Spec => []TypeOK
<1>1. IInv => TypeOK
  <2> SUFFICES ASSUME IInv
               PROVE  TypeOK
    OBVIOUS
  <2>1. \A u \in Users : call[u] \in CallRecord /\ seen[u] \in Sights
    BY DEF IInv, CallsOK
  <2>. QED BY <2>1 DEF TypeOK, IInv, MapOK, CallRecord, Pending, Rows, Sights
<1>. QED BY <1>1, Inductive, PTL

\* What get() returns was alive during the call, and None from a sole user's get() means that
\* nothing was, whatever the other connections do and however the clock runs.
THEOREM ReadsWereAliveHolds == Spec => []ReadsWereAlive
<1>1. IInv => ReadsWereAlive
  BY DEF IInv, CallsOK, UserOK, GetAnswerOK, ReadsWereAlive, Answered
<1>. QED BY <1>1, Inductive, PTL

\* keys() and size() miss nothing that was alive throughout and show a sole user nothing stale.
THEOREM KeysWereAliveHolds == Spec => []KeysWereAlive
<1>1. IInv => KeysWereAlive
  BY DEF IInv, CallsOK, UserOK, KeysAnswerOK, KeysWereAlive, Answered
<1>. QED BY <1>1, Inductive, PTL

\* An entry that is alive is lost only to its users or to the eviction of one it replaced.
THEOREM LostOnlyToStaleEvictionHolds == Spec => LostOnlyToStaleEviction
<1> DEFINE Lost(k) == Alive(k) /\ now' = now /\ data'[k] # data[k]
           Excused(k) == \/ Overwritten(k)
                         \/ ~Sole /\ \E u \in Users : GetEvicts(u) /\ call[u].key = k /\ call[u].row # data[k]
<1>1. IInv /\ [Next]_vars => [\A k \in Keys : Lost(k) => Excused(k)]_vars
  <2> SUFFICES ASSUME IInv, Next, NEW k \in Keys, Lost(k)
               PROVE  Excused(k)
    BY DEF Excused
  <2>1. data[k] # None /\ data[k] \in Entry /\ now \in Nat
        /\ (data[k].expires = Never \/ (data[k].expires \in Nat /\ now < data[k].expires))
    BY RowFacts, TimeAssumption DEF Alive, IInv, MapOK
  <2>2. ASSUME NEW u \in Users, Call(u)
        PROVE  Excused(k)
    <3>1. ~(\E j \in Keys : GetSelects(u, j)) /\ ~(\E op \in {"vacuum", "keys"} : VacuumReadsClock(u, op))
      BY DEF GetSelects, VacuumReadsClock
    <3>2. ~ \E j \in Keys, v \in Values, ttl \in TTLs : SetReadsClock(u, j, v, ttl)
      BY DEF SetReadsClock
    <3>3. ASSUME NEW j \in Keys, Delete(u, j)
          PROVE  Excused(k)
      <4>1. j = k
        BY <3>3 DEF Delete, Remove, IInv, MapOK
      <4>. QED BY <3>3, <4>1 DEF Overwritten
    <3>4. ASSUME NEW j \in Keys
          PROVE  ~MemoryGet(u, j)
      BY <2>1, NoneAssumption DEF MemoryGet, Remove, Expired, IInv, MapOK
    <3>5. ASSUME NEW j \in Keys, NEW v \in Values, NEW ttl \in TTLs, MemorySet(u, j, v, ttl)
          PROVE  Excused(k)
      <4>1. j = k
        BY <3>5 DEF MemorySet, Put, IInv, MapOK
      <4>. QED BY <3>5, <4>1 DEF Overwritten
    <3>6. ~MemoryKeys(u)
      BY <2>1, NoneAssumption DEF MemoryKeys, Remove, Expired
    <3>7. Clear(u) => Excused(k)
      BY DEF Overwritten
    <3>. QED BY <2>2, <3>1, <3>2, <3>3, <3>4, <3>5, <3>6, <3>7 DEF Call
  <2>3. ASSUME NEW u \in Users, Statement(u)
        PROVE  Excused(k)
    <3>1. ~GetChecks(u) /\ ~KeysSelects(u) /\ ~StatementRaises(u)
      BY DEF GetChecks, KeysSelects, StatementRaises
    <3>2. CASE GetEvicts(u)
      <4>1. UserOK(u, call[u], seen[u]) /\ call[u].pc = "evict"
        BY <3>2, InSQLiteFacts DEF GetEvicts
      <4>2. call[u].key = k
        BY <3>2 DEF GetEvicts, Remove, IInv, MapOK
      <4>3. call[u].row # data[k] /\ ~Sole
        BY <2>1, <4>1, <4>2, NoneAssumption DEF UserOK, GetOK
      <4>. QED BY <3>2, <4>2, <4>3
    <3>3. CASE SetUpserts(u)
      <4>1. call[u].key = k
        BY <3>3 DEF SetUpserts, Put, IInv, MapOK
      <4>. QED BY <3>3, <4>1 DEF Overwritten
    <3>4. ~VacuumDeletes(u)
      <4> SUFFICES ASSUME VacuumDeletes(u)
                   PROVE  FALSE
        OBVIOUS
      <4>1. call[u].clock \in Nat /\ call[u].clock <= now
        BY InSQLiteFacts DEF VacuumDeletes, UserOK, VacuumOK, CallRecord
      <4>2. k \notin Vacuumed(call[u].clock)
        BY <4>1, VacuumedExpired DEF IInv
      <4>. QED BY <4>2 DEF VacuumDeletes, Remove, IInv, MapOK
    <3>. QED BY <2>3, <3>1, <3>2, <3>3, <3>4 DEF Statement
  <2>4. ASSUME NEW u \in Users, Initialize(u) \/ Close(u)
        PROVE  Excused(k)
    BY <2>4 DEF Initialize, Overwritten
  <2>5. ~Tick
    BY <2>1 DEF Tick
  <2>. QED BY <2>2, <2>3, <2>4, <2>5 DEF Next
<1>2. [Next]_vars /\ IInv => [\A k \in Keys : Alive(k) /\ now' = now /\ data'[k] # data[k] =>
       \/ Overwritten(k)
       \/ ~Sole /\ \E u \in Users : GetEvicts(u) /\ call[u].key = k /\ call[u].row # data[k]]_vars
  BY <1>1
<1>. QED BY <1>2, Inductive, PTL DEF Spec, LostOnlyToStaleEviction
=============================================================================
