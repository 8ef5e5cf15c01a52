------------------------------ MODULE ListWalk ------------------------------
(***************************************************************************)
(* A caller that pages through list() of a provider, handing each page's   *)
(* cursor back (contract/CONTRACT.md section 2), while others add and      *)
(* delete memories.  The three providers read the cursor as an offset and  *)
(* make the next one, each in its own way.  The backend answers a page     *)
(* from the list as it is at that instant; a new memory comes first or     *)
(* last in it, depending on its order.                                     *)
(***************************************************************************)
EXTENDS Naturals, SequencesExt, PythonValues

CONSTANTS Kinds,
          Memories, \* the memories there can be
          Lists,    \* what the backend's list may be at first
          Limits,   \* the page sizes asked for
          OneLimit, \* the providers whose callers keep to one page size in a walk
          MaxChanges \* bound on the changes of the list during a walk

ASSUME KindsAssumption == Kinds \subseteq {"atomicmemory", "mem0", "hindsight"}
ASSUME LimitsAssumption == Limits \subseteq Nat \ {0}
ASSUME ListsAssumption == \A s \in Lists : s \in Seq(Memories) /\ IsInjective(s)
ASSUME NoneAssumption == None \notin Nat

VARIABLES kind,   \* the provider
          rows,   \* the backend's list
          limit,  \* of the last page, or None
          cursor, \* of the last page, or None: no page yet, or no next one
          over,   \* the walk got a page without a cursor
          seen,   \* the memories the walk was handed
          repeats,  \* how often it was handed one that it had been handed before
          added, deleted \* during the walk

walkVars == <<kind, rows, limit, cursor, over, seen, repeats, added, deleted>>

WalkInit ==
  /\ kind \in Kinds
  /\ rows \in Lists
  /\ limit = None /\ cursor = None /\ over = FALSE
  /\ seen = {} /\ repeats = 0
  /\ added = {} /\ deleted = {}

-----------------------------------------------------------------------------
Offset == IF cursor = None THEN 0 ELSE cursor

Page(start, l) == SubSeq(rows, start + 1, Min({start + l, Len(rows)}))

\* Mutant of Mem0Start: pages are counted from zero.
Mem0StartFromZero(l) == IF Offset > 0 /\ Offset \div l > 0 THEN ((Offset \div l) - 1) * l ELSE 0

\* mem0 knows pages, not offsets: page = offset // limit + 1.
Mem0Start(l) == (Offset \div l) * l

\* atomicmemory and mem0: a full page has a next one.
FullPageCursor(page, l) == IF Len(page) = l THEN Offset + Len(page) ELSE None

\* Mutant of TotalCursor: there is more as long as the total is not exceeded.
TotalCursorInclusive(page) == IF Offset + Len(page) <= Len(rows) THEN Offset + Len(page) ELSE None

\* hindsight: there is more as long as the backend's total is not reached.
TotalCursor(page) == IF Offset + Len(page) < Len(rows) THEN Offset + Len(page) ELSE None

Returned(page, next, l) ==
  /\ seen' = seen \cup ToSet(page)
  /\ repeats' = repeats + Cardinality(ToSet(page) \cap seen)
  /\ cursor' = next
  /\ over' = (next = None)
  /\ limit' = l
  /\ UNCHANGED <<kind, rows, added, deleted>>

\* do_list() of the atomicmemory provider.
AtomicMemoryList(l) ==
  /\ kind = "atomicmemory"
  /\ LET page == Page(Offset, l) IN Returned(page, FullPageCursor(page, l), l)

\* do_list() of the mem0 provider.
Mem0List(l) ==
  /\ kind = "mem0"
  /\ LET page == Page(Mem0Start(l), l) IN Returned(page, FullPageCursor(page, l), l)

\* do_list() and _map_list_page() of the hindsight provider.
HindsightList(l) ==
  /\ kind = "hindsight"
  /\ LET page == Page(Offset, l) IN Returned(page, TotalCursor(page), l)

List(l) ==
  /\ ~over
  /\ kind \in OneLimit => limit \in {l, None}
  /\ AtomicMemoryList(l) \/ Mem0List(l) \/ HindsightList(l)

\* Others change the list.  A memory is added once.
MayChange == ~over /\ Cardinality(added) + Cardinality(deleted) < MaxChanges

Add(m) ==
  /\ m \notin ToSet(rows) \cup deleted
  /\ MayChange
  /\ rows' \in {<<m>> \o rows, Append(rows, m)}
  /\ added' = added \cup {m}
  /\ UNCHANGED <<kind, limit, cursor, over, seen, repeats, deleted>>

Delete(m) ==
  /\ MayChange
  /\ \E i \in DOMAIN rows : rows[i] = m /\ rows' = RemoveAt(rows, i)
  /\ deleted' = deleted \cup {m}
  /\ UNCHANGED <<kind, limit, cursor, over, seen, repeats, added>>

WalkNext == (\E l \in Limits : List(l)) \/ (\E m \in Memories : Add(m) \/ Delete(m))

WalkSpec == WalkInit /\ [][WalkNext]_walkVars

-----------------------------------------------------------------------------
\* A finished walk missed at most as many lasting memories as were deleted
\* during it, and was handed a memory again at most as often as one was added.
EachRowOnce ==
  /\ over => Cardinality(ToSet(rows) \ (added \cup seen)) <= Cardinality(deleted)
  /\ repeats <= Cardinality(added)

\* A walk ends, although the list changes meanwhile.
WalkEnds == <>over
=============================================================================
