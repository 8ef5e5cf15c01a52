------------------------------- MODULE Events -------------------------------
(***************************************************************************)
(* EventEmitter: the listeners of one event.  A listener may register and  *)
(* remove listeners, itself included, emit the event anew, return or raise *)
(* - with whatever a nested emit() raised, or an error of its own.         *)
(***************************************************************************)
EXTENDS Naturals, SequencesExt

CONSTANTS Listeners,
          MaxRegistered, \* bound on the registrations at a time
          MaxDepth,      \* bound on the emits that are under way at a time
          MaxEmits       \* bound on the emits in all

VARIABLES registered, \* _listeners of the event: one may be in it twice
          emits,      \* the emit() calls under way, the innermost last
          emitted     \* how many there were

eventVars == <<registered, emits, emitted>>

\* "copy" and "first" are the variables of emit(), "at" is how far it is.
\* What really happened: who was registered when it began, who was called,
\* which errors came out of them.
Frame == [copy |-> registered, at |-> 0, running |-> FALSE, first |-> <<>>,
          began |-> registered, called |-> <<>>, errors |-> <<>>]

EventsInit == registered = <<>> /\ emits = <<>> /\ emitted = 0

Inner == Last(emits)

\* Whoever has the word: the caller of emit() while none is under way, the
\* listener that runs.
HasTheWord == emits # <<>> => Inner.running

On(l) ==
  /\ HasTheWord
  /\ Len(registered) < MaxRegistered
  /\ registered' = Append(registered, l)
  /\ UNCHANGED <<emits, emitted>>

\* Removes one registration, the first; none is no error.
Off(l) ==
  /\ HasTheWord
  /\ registered' = RemoveFirst(registered, l)
  /\ UNCHANGED <<emits, emitted>>

Emit ==
  /\ HasTheWord
  /\ Len(emits) < MaxDepth /\ emitted < MaxEmits
  /\ emits' = Append(emits, Frame)
  /\ emitted' = emitted + 1
  /\ UNCHANGED registered

\* Mutant of Listening: the loop runs over the list that is registered.
ListeningLive(f) == registered

\* What the loop runs over.
Listening(f) == f.copy

LoopEnds(f) == ~f.running /\ f.at >= Len(Listening(f))

CallListener ==
  /\ emits # <<>> /\ ~Inner.running /\ ~LoopEnds(Inner)
  /\ emits' = [emits EXCEPT ![Len(emits)].running = TRUE, ![Len(emits)].at = @ + 1,
                            ![Len(emits)].called = Append(@, Listening(Inner)[Inner.at + 1])]
  /\ UNCHANGED <<registered, emitted>>

\* Mutant of Caught: the last exception is kept.
CaughtLast(f, e) == [f EXCEPT !.running = FALSE, !.first = <<e>>, !.errors = Append(@, e)]

\* BaseException is caught; the first is kept.
Caught(f, e) ==
  [f EXCEPT !.running = FALSE, !.first = IF @ = <<>> THEN <<e>> ELSE @, !.errors = Append(@, e)]

ListenerReturns ==
  /\ emits # <<>> /\ Inner.running
  /\ emits' = [emits EXCEPT ![Len(emits)].running = FALSE]
  /\ UNCHANGED <<registered, emitted>>

ListenerRaises ==
  /\ emits # <<>> /\ Inner.running
  /\ emits' = [emits EXCEPT ![Len(emits)] = Caught(@, <<Last(Inner.called), Len(emits)>>)]
  /\ UNCHANGED <<registered, emitted>>

\* emit() returns to, or raises in, the listener that called it: the listener
\* goes on or lets the error through.
EmitEnds ==
  /\ emits # <<>> /\ LoopEnds(Inner)
  /\ LET outer == Front(emits) IN
     \/ emits' = outer
     \/ /\ Inner.first # <<>> /\ outer # <<>>
        /\ emits' = [outer EXCEPT ![Len(outer)] = Caught(@, Inner.first[1])]
  /\ UNCHANGED <<registered, emitted>>

EventsNext ==
  \/ \E l \in Listeners : On(l) \/ Off(l)
  \/ Emit \/ CallListener \/ ListenerReturns \/ ListenerRaises \/ EmitEnds

EventsSpec == EventsInit /\ [][EventsNext]_eventVars

-----------------------------------------------------------------------------
\* An emit() calls the listeners that were registered when it began, each as
\* often as it was, in that order, whatever they register, remove, emit or
\* raise meanwhile; what it raises in the end is the first of their errors,
\* those of nested emits included.
EmitReachesAll == \A i \in DOMAIN emits : LET f == emits[i] IN
  /\ IsPrefix(f.called, f.began)
  /\ LoopEnds(f) => /\ f.called = f.began
                    /\ f.first = SubSeq(f.errors, 1, IF f.errors = <<>> THEN 0 ELSE 1)
=============================================================================
