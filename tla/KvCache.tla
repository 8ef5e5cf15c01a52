------------------------------ MODULE KvCache ------------------------------
(***************************************************************************)
(* The key-value cache adapters (kv_cache/): MemoryStorageAdapter, a       *)
(* dictionary of one thread, and SQLiteStorageAdapter, of which several    *)
(* may have connections to one database file, each used by one thread.     *)
(* Entries may have a lifetime; expired ones are evicted when they are     *)
(* met.  Connections run in autocommit mode (isolation_level=None), so     *)
(* each SQL statement is atomic and nothing larger is: one action is one   *)
(* statement, or one reading of the clock.                                 *)
(***************************************************************************)
EXTENDS Naturals, FiniteSets

CONSTANTS Users,   \* the adapters, each with its thread
          Keys, Values,
          TTLs,    \* lifetimes passed to set(), Never for none
          MaxNow,  \* bound on the clock
          Never, None

ASSUME TimeAssumption == MaxNow \in Nat /\ TTLs \subseteq Nat \cup {Never}
ASSUME NoneAssumption == Never \notin Nat /\ None \notin Values \cup Users \cup Keys \cup {Never}

VARIABLES adapter, \* which of the two adapters this is
          users,   \* who uses it
          now,     \* the clock
          data,    \* the dictionary, or the table: an entry or None for each key
          open,    \* the SQLite adapters that have a connection
          call,    \* the call each user is in, or its last one
          seen     \* history: what was alive since that call began

store == <<adapter, users>>
vars == <<store, now, data, open, call, seen>>

Times == Nat \cup {Never}
Entry == [value: Values, expires: Times]

Alive(k) == data[k] # None /\ (data[k].expires = Never \/ now < data[k].expires)
View(k) == IF Alive(k) THEN data[k].value ELSE None
Sole == \E u \in Users : users = {u}

NoCall == [pc |-> "idle", op |-> None, key |-> None, row |-> None, clock |-> 0, answer |-> None]

Init ==
  /\ adapter \in {"memory", "sqlite"}
  /\ users \in (SUBSET Users) \ {{}}
  /\ adapter = "memory" => Sole
  /\ now = 0
  /\ data = [k \in Keys |-> None]
  /\ open = {}
  /\ call = [u \in Users |-> NoCall]
  /\ seen = [u \in Users |-> [k \in Keys |-> {}]]

\* A new call of u may begin; a closed SQLite adapter raises RuntimeError instead.
Begins(u) ==
  /\ u \in users /\ call[u].pc \in {"idle", "answered"}
  /\ adapter = "memory" \/ u \in open

Goes(u, k) == call' = [call EXCEPT ![u] = k]

Suspends(u, pc, op, key, row) ==
  Goes(u, [NoCall EXCEPT !.pc = pc, !.op = op, !.key = key, !.row = row, !.clock = now])

Returns(u, op, key, answer) ==
  Goes(u, [NoCall EXCEPT !.pc = "answered", !.op = op, !.key = key, !.answer = answer])

Put(k, entry) == data' = [data EXCEPT ![k] = entry]
Remove(S) == data' = [k \in Keys |-> IF k \in S THEN None ELSE data[k]]
Present == {k \in Keys : data[k] # None}

Lifetime(ttl) == IF ttl = Never THEN Never ELSE now + ttl

\* Mutant of Expired: an entry lives through the instant it expires.
ExpiredLate(entry, clock) == entry.expires # Never /\ clock > entry.expires

Expired(entry, clock) == entry.expires # Never /\ clock >= entry.expires

-----------------------------------------------------------------------------
(* SQLiteStorageAdapter *)

InSQLite(u, pc) == adapter = "sqlite" /\ u \in users /\ call[u].pc = pc

\* get(), also inside has(): the SELECT.  Without an expiry the clock is not read.
GetSelects(u, k) ==
  /\ adapter = "sqlite" /\ Begins(u)
  /\ IF data[k] = None THEN Returns(u, "get", k, None)
     ELSE IF data[k].expires = Never THEN Returns(u, "get", k, data[k].value)
     ELSE Suspends(u, "check", "get", k, data[k])
  /\ UNCHANGED data

GetChecks(u) ==
  /\ InSQLite(u, "check")
  /\ IF Expired(call[u].row, now)
       THEN Goes(u, [call[u] EXCEPT !.pc = "evict"])
       ELSE Returns(u, "get", call[u].key, call[u].row.value)
  /\ UNCHANGED data

\* delete(key) from inside get(): whatever the key holds by now.
GetEvicts(u) ==
  /\ InSQLite(u, "evict")
  /\ Remove({call[u].key})
  /\ Returns(u, "get", call[u].key, None)

\* set(): the clock is read first, the row written later.
SetReadsClock(u, k, v, ttl) ==
  /\ adapter = "sqlite" /\ Begins(u)
  /\ Suspends(u, "upsert", "set", k, [value |-> v, expires |-> Lifetime(ttl)])
  /\ UNCHANGED data

SetUpserts(u) ==
  /\ InSQLite(u, "upsert")
  /\ Put(call[u].key, call[u].row)
  /\ Returns(u, "set", call[u].key, None)

\* Mutant of VacuumReadsClock: keys() lists without a vacuum.
VacuumSkipped(u, op) ==
  /\ adapter = "sqlite" /\ Begins(u)
  /\ Suspends(u, IF op = "keys" THEN "list" ELSE "vacuum", op, None, None)
  /\ UNCHANGED data

\* vacuum_expired(), also at the start of keys() and size().
VacuumReadsClock(u, op) ==
  /\ adapter = "sqlite" /\ Begins(u)
  /\ Suspends(u, "vacuum", op, None, None)
  /\ UNCHANGED data

\* Mutant of Vacuumed: rows are deleted by the time they were created.
VacuumedAll(clock) == {k \in Present : data[k].expires # Never}

\* WHERE expires_at IS NOT NULL AND expires_at <= ?
Vacuumed(clock) == {k \in Present : data[k].expires # Never /\ data[k].expires <= clock}

VacuumDeletes(u) ==
  /\ InSQLite(u, "vacuum")
  /\ Remove(Vacuumed(call[u].clock))
  /\ IF call[u].op = "vacuum"
       THEN Returns(u, "vacuum", None, Cardinality(Vacuumed(call[u].clock)))
       ELSE Goes(u, [call[u] EXCEPT !.pc = "list"])

\* The SELECT of keys(); that of size() counts the same rows.
KeysSelects(u) ==
  /\ InSQLite(u, "list")
  /\ Returns(u, "keys", None, Present)
  /\ UNCHANGED data

\* A statement raises, for one because the database stays locked by another
\* connection.  The call ends with the exception and nothing is written.
StatementRaises(u) ==
  /\ \E pc \in {"evict", "upsert", "vacuum", "list"} : InSQLite(u, pc)
  /\ Goes(u, NoCall)
  /\ UNCHANGED data

-----------------------------------------------------------------------------
(* Both adapters *)

\* True also for an entry that has expired and was not evicted yet.
Delete(u, k) ==
  /\ Begins(u)
  /\ Remove({k})
  /\ Returns(u, "delete", k, k \in Present)

Clear(u) ==
  /\ Begins(u)
  /\ Remove(Keys)
  /\ Returns(u, "clear", None, None)

\* initialize() does nothing when there is a connection, and in memory.
Initialize(u) ==
  /\ adapter = "sqlite" /\ u \in users \ open
  /\ call[u].pc \in {"idle", "answered"}
  /\ open' = open \cup {u}
  /\ Goes(u, NoCall)
  /\ UNCHANGED data

\* The file keeps its rows; the dictionary is cleared.
Close(u) ==
  /\ Begins(u)
  /\ open' = open \ {u}
  /\ Goes(u, NoCall)
  /\ data' = IF adapter = "memory" THEN [k \in Keys |-> None] ELSE data

-----------------------------------------------------------------------------
(* MemoryStorageAdapter: the calls of its only thread do not overlap. *)

InMemory(u) == adapter = "memory" /\ Begins(u)

MemoryGet(u, k) ==
  /\ InMemory(u)
  /\ IF data[k] = None THEN Returns(u, "get", k, None) /\ UNCHANGED data
     ELSE IF Expired(data[k], now) THEN Returns(u, "get", k, None) /\ Remove({k})
     ELSE Returns(u, "get", k, data[k].value) /\ UNCHANGED data

MemorySet(u, k, v, ttl) ==
  /\ InMemory(u)
  /\ Put(k, [value |-> v, expires |-> Lifetime(ttl)])
  /\ Returns(u, "set", k, None)

\* keys() evicts what it finds expired; size() is the length of its answer.
MemoryKeys(u) ==
  /\ InMemory(u)
  /\ LET expired == {k \in Present : Expired(data[k], now)}
     IN Remove(expired) /\ Returns(u, "keys", None, Present \ expired)

-----------------------------------------------------------------------------
\* The clock moves on.  time.monotonic never goes back; time.time is taken not to.
Tick ==
  /\ now < MaxNow
  /\ now' = now + 1
  /\ UNCHANGED <<data, open, call>>

Call(u) ==
  \/ \E k \in Keys : GetSelects(u, k) \/ Delete(u, k) \/ MemoryGet(u, k)
  \/ \E k \in Keys, v \in Values, ttl \in TTLs : SetReadsClock(u, k, v, ttl) \/ MemorySet(u, k, v, ttl)
  \/ \E op \in {"vacuum", "keys"} : VacuumReadsClock(u, op)
  \/ Clear(u) \/ MemoryKeys(u)

Statement(u) ==
  \/ GetChecks(u) \/ GetEvicts(u) \/ SetUpserts(u)
  \/ VacuumDeletes(u) \/ KeysSelects(u) \/ StatementRaises(u)

\* History: a call that begins sees the map before and after its first step, one that
\* is suspended also what each later step makes of it.
Reads(op) == op \in {"get", "keys"}
Observe(begun) ==
  seen' = [u \in Users |->
    IF ~Reads(call'[u].op) THEN [k \in Keys |-> {}]
    ELSE IF u = begun THEN [k \in Keys |-> {View(k), View(k)'}]
    ELSE IF call[u].pc \in {"idle", "answered"} THEN seen[u]
    ELSE [k \in Keys |-> seen[u][k] \cup {View(k)'}]]

Next ==
  /\ \/ Tick /\ Observe(None)
     \/ \E u \in Users :
          \/ Call(u) /\ UNCHANGED <<now, open>> /\ Observe(u)
          \/ Statement(u) /\ UNCHANGED <<now, open>> /\ Observe(None)
          \/ (Initialize(u) \/ Close(u)) /\ UNCHANGED now /\ Observe(None)
  /\ UNCHANGED store

Spec == Init /\ [][Next]_vars

-----------------------------------------------------------------------------
(* Properties *)

\* Every variable keeps its type; lifetimes end after the bound of the clock at most.
TypeOK ==
  /\ adapter \in {"memory", "sqlite"} /\ users \subseteq Users /\ open \subseteq users
  /\ now \in 0..MaxNow
  /\ data \in [Keys -> Entry \cup {None}]
  /\ \A u \in Users :
       /\ call[u].pc \in {"idle", "check", "evict", "upsert", "vacuum", "list", "answered"}
       /\ call[u].row \in Entry \cup {None}
       /\ call[u].key \in Keys \cup {None}
       /\ seen[u] \in [Keys -> SUBSET (Values \cup {None})]

Answered(u, op) == call[u].pc = "answered" /\ call[u].op = op

\* A value get() returns was alive at some instant of the call, also when other connections
\* replace, delete and evict it; when nobody else writes, None too means that nothing
\* was alive at some instant ("TTL is enforced on read").
ReadsWereAlive ==
  \A u \in Users : Answered(u, "get") /\ (Sole \/ call[u].answer # None) =>
    call[u].answer \in seen[u][call[u].key]

\* keys() and size() miss no key that was alive throughout the call, and a sole user is
\* shown no key that was never alive during it ("so callers don't see stale ids").
KeysWereAlive ==
  \A u \in Users : Answered(u, "keys") =>
    /\ {k \in Keys : None \notin seen[u][k]} \subseteq call[u].answer
    /\ Sole => \A k \in call[u].answer : seen[u][k] # {None}

Overwritten(k) ==
  \E u \in Users : Delete(u, k) \/ Clear(u) \/ (SetUpserts(u) /\ call[u].key = k) \/ Close(u)
                   \/ \E v \in Values, ttl \in TTLs : MemorySet(u, k, v, ttl)

\* What was set and has not expired stays until somebody overwrites or deletes it.
AliveIsKept ==
  [][\A k \in Keys : Alive(k) /\ now' = now /\ data'[k] # data[k] => Overwritten(k)]_vars

\* The only other way to lose it is the eviction of an expired entry by another connection, whose
\* SELECT came before the entry was replaced; a sole user loses nothing.
LostOnlyToStaleEviction ==
  [][\A k \in Keys : Alive(k) /\ now' = now /\ data'[k] # data[k] =>
       \/ Overwritten(k)
       \/ ~Sole /\ \E u \in Users : GetEvicts(u) /\ call[u].key = k /\ call[u].row # data[k]]_vars
=============================================================================
