------------------------- MODULE MCAggregateClient -------------------------
(* AggregateClient with an entity whose id is another's path.              *)
EXTENDS AggregateClient, TLC

Alike == Permutations(Callers) \cup Permutations(Closers)

A == <<"a">>
B == <<"a", "b">>
UsersDef == {A, B}

ScopesDef == {UserScope(A, None), UserScope(A, "t"), UserScope(B, None), WorkspaceScope(A, None, None),
              WorkspaceScope(A, "self", None), WorkspaceScope(A, "self", "t")}

\* A memory of no thread, one of a thread and of another agent of the
\* workspace, one of another user, and room for one more.
StoresDef == {[m \in MemoryIds |->
  CASE m = "m1" -> Row(A, None, None, None, "site", None)
    [] m = "m2" -> Row(A, "w", "other", "t", "elsewhere", "workspace")
    [] m = "m3" -> Row(B, None, None, None, "elsewhere", None)
    [] m = "m4" -> None]}

\* An artifact that is stored and room for one, named for their states.
StoredAtFirstDef == [a \in Artifacts |-> a]

EntitiesDef == {<<"a">>, <<"a", "profile">>}
=============================================================================
