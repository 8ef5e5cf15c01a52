----------------------------- MODULE ModelTools -----------------------------
(***************************************************************************)
(* What a language model gets of the memory: the two tools with their      *)
(* checked arguments, their fixed user and their bounded answer, and the   *)
(* filter of meta-facts.  Texts are their lengths.                         *)
(***************************************************************************)
EXTENDS Integers, SequencesExt, PythonValues

CONSTANTS MaxUserLength, MaxQueryLength, MaxContentLength, MaxSearchLimit,
          MaxHitContent, MaxTotalContent, DefaultLimit

\* A string argument has a length and is blank or not; an argument that is no
\* string has the kind "other".
AcceptedText(a, max) == a # None /\ a.kind = "text" /\ a.length \in 1..max /\ ~a.blank

\* ToolScope: the application's user is no project either.
UserAccepted(user) == AcceptedText(user, MaxUserLength) /\ ~user.project

\* IngestArguments and SearchArguments, strict and closed.
IngestAccepted(args) == ~args.extra /\ AcceptedText(args.text, MaxContentLength)

SearchAccepted(args) ==
  /\ ~args.extra /\ AcceptedText(args.text, MaxQueryLength)
  /\ args.limit # None => args.limit \in 1..MaxSearchLimit

Accepted(tool, args) == IF tool = "ingest" THEN IngestAccepted(args) ELSE SearchAccepted(args)

LimitOf(args) == IF args.limit = None THEN DefaultLimit ELSE args.limit

\* Mutant of HitTruncated: a hit is cut only if it exceeds its own bound.
HitTruncatedByItself(hit, length) == hit.length > MaxHitContent

HitTruncated(hit, length) == length < hit.length

\* One turn of the loop of project_search().
ProjectHit(state, hit) ==
  LET length == Min({hit.length, MaxHitContent, state.remaining}) IN
  [remaining |-> state.remaining - length,
   results |-> Append(state.results, [id |-> hit.id, length |-> length,
                                      truncated |-> HitTruncated(hit, length)])]

ProjectSearch(page, limit) ==
  LET shown == SubSeq(page, 1, Min({limit, Len(page)}))
      state[n \in 0..Len(shown)] ==
        IF n = 0 THEN [remaining |-> MaxTotalContent, results |-> <<>>]
        ELSE ProjectHit(state[n - 1], shown[n])
      results == state[Len(shown)].results
  IN  [results |-> results,
       truncated |-> Len(page) > Len(results) \/ \E i \in DOMAIN results : results[i].truncated]

\* MemorySearchHit refuses a hit without an id, or whose score is no number.
Refused(hit) == hit.id = None \/ ~hit.finite

\* execute() of a tool that memory_tools() made for a user.  "client" is what
\* the client does with the call: "raises" an error, "cancelled" - no Exception -
\* or returns, for a search the page.
Execute(tool, args, client, page) ==
  LET called == Accepted(tool, args)
      shown == SubSeq(page, 1, Min({LimitOf(args), Len(page)}))
      fails == IF ~called \/ client = "raises"
                  \/ (tool = "search" /\ client = "returns" /\ \E i \in DOMAIN shown : Refused(shown[i]))
               THEN "MemoryToolError"
               ELSE IF client = "cancelled" THEN "CancelledError" ELSE None
  IN  [called |-> called, error |-> fails,
       output |-> IF fails = None /\ tool = "search" THEN ProjectSearch(page, LimitOf(args))
                  ELSE None]

-----------------------------------------------------------------------------
\* resolve_meta_fact_patterns(): patterns are named; an item has the set of
\* the patterns that match its content, empty for one that is empty or no text.
ResolvePatterns(config, defaults) ==
  IF config.patterns = None THEN defaults
  ELSE IF config.mode = "extend" THEN config.patterns \o defaults ELSE config.patterns

\* Mutant of FilterItem: an error of on_drop keeps the item.
FilterItemKeepsOnError(state, item, patterns, onDrop) ==
  LET hits == {i \in DOMAIN patterns : patterns[i] \in item} IN
  IF hits = {} \/ onDrop = "raises" THEN [state EXCEPT !.kept = Append(@, item)]
  ELSE [state EXCEPT !.drops = IF onDrop = None THEN @ ELSE Append(@, Min(hits))]

\* One turn of the loop of filter_meta_facts(): on_drop is told the first
\* pattern that matches; what it raises is swallowed.
FilterItem(state, item, patterns, onDrop) ==
  LET hits == {i \in DOMAIN patterns : patterns[i] \in item} IN
  IF hits = {} THEN [state EXCEPT !.kept = Append(@, item)]
  ELSE [state EXCEPT !.drops = IF onDrop = None THEN @ ELSE Append(@, Min(hits))]

FilterMetaFacts(items, config, defaults) ==
  LET patterns == ResolvePatterns(config, defaults)
      state[n \in 0..Len(items)] ==
        IF n = 0 THEN [kept |-> <<>>, drops |-> <<>>]
        ELSE FilterItem(state[n - 1], items[n], patterns, config.onDrop)
  IN  IF ~config.enabled \/ patterns = <<>> THEN [kept |-> items, drops |-> <<>>]
      ELSE state[Len(items)]

-----------------------------------------------------------------------------
TotalLength(results) ==
  LET total[n \in 0..Len(results)] == IF n = 0 THEN 0 ELSE total[n - 1] + results[n].length
  IN  total[Len(results)]

\* The client is called with nothing but accepted arguments.  An answer has the
\* first hits in order, within the budget; it says that it is truncated, and a
\* hit that it is, exactly if the page or the hit had more.
ToolAnswers(tool, args, client, page, answer) ==
  /\ answer.called => Accepted(tool, args)
  /\ answer.error = None => answer.called
  /\ answer.output # None =>
       LET out == answer.output.results
       IN  /\ Len(out) = Min({LimitOf(args), Len(page)})
           /\ TotalLength(out) <= MaxTotalContent
           /\ \A i \in DOMAIN out : /\ out[i].id = page[i].id
                                    /\ out[i].length <= Min({page[i].length, MaxHitContent})
                                    /\ out[i].truncated <=> out[i].length # page[i].length
           /\ answer.output.truncated <=> Len(out) # Len(page) \/ \E i \in DOMAIN out : out[i].length # page[i].length

\* The filter drops just the items that match, keeps the order of the others,
\* and tells each drop once, whatever the callback raises.
FilterDrops(items, config, defaults, answer) ==
  LET active == IF config.enabled THEN ToSet(ResolvePatterns(config, defaults)) ELSE {}
      plain == {i \in DOMAIN items : items[i] \cap active = {}}
  IN  /\ Len(answer.kept) = Cardinality(plain)
      /\ \A i \in plain : answer.kept[Cardinality({j \in plain : j <= i})] = items[i]
      /\ config.onDrop # None => Len(answer.drops) = Len(items) - Len(answer.kept)
=============================================================================
