-------------------------- MODULE LocalPartsProofs --------------------------
(***************************************************************************)
(* Theorems about LocalParts and the modules it is made of: the emits of   *)
(* Events, for any listeners, any number of registrations and emits,       *)
(* nested to any depth; the walks of ListWalk, for lists and pages of any  *)
(* size and any changes; what the algorithms return, for any input: the    *)
(* loops of Chunking, the tools and the filter of ModelTools, the search   *)
(* of SemanticSearch; the round trips of WireContract.  A loop is a        *)
(* recursive function of the number of its turns; that there is such a     *)
(* function, and what holds after each turn, is shown by induction over a  *)
(* set of numbers.                                                         *)
(***************************************************************************)
EXTENDS LocalParts, SequenceTheorems, FiniteSetTheorems, WellFoundedInduction, TLAPS

(* Events. *)

Errors == Listeners \X Nat

\* How far an emit() is tells whom it has called; it keeps the first error.
FrameInv(f) ==
  /\ f.copy = f.began
  /\ f.at <= Len(f.began)
  /\ f.running => f.at > 0
  /\ f.called = SubSeq(f.began, 1, f.at)
  /\ f.errors = <<>> => f.first = <<>>
  /\ f.errors # <<>> => f.first = <<f.errors[1]>>

FrameTypes ==
  [copy : Seq(Listeners), at : Nat, running : BOOLEAN, first : Seq(Errors),
   began : Seq(Listeners), called : Seq(Listeners), errors : Seq(Errors)]

Frames == {f \in FrameTypes : FrameInv(f)}

EventsInv == registered \in Seq(Listeners) /\ emits \in Seq(Frames)

-----------------------------------------------------------------------------
\* The library's Min of a set of naturals is in it.
LEMMA MinIsLeast ==
  ASSUME NEW S, S \subseteq Nat, S # {}
  PROVE  Min(S) \in S /\ \A y \in S : Min(S) <= y
<1>1. \E x \in S : \A y \in S : ~(<<y, x>> \in OpToRel(<, Nat))
  BY NatLessThanWellFounded, WFMin
<1>2. \A x, y \in Nat : y < x => <<y, x>> \in OpToRel(<, Nat)
  BY DEF OpToRel
<1>3. \A x, y \in S : ~(y < x) => x <= y
  OBVIOUS
<1>4. PICK x \in S : \A y \in S : ~(<<y, x>> \in OpToRel(<, Nat))
  BY <1>1
<1>5. \A y \in S : x <= y
  BY <1>2, <1>3, <1>4
<1> QED
  BY <1>5 DEF Min

\* off() leaves a sequence of listeners.
LEMMA RemovedIsSeq ==
  ASSUME NEW T, NEW s \in Seq(T), NEW e
  PROVE  RemoveFirst(s, e) \in Seq(T)
<1>1. CASE ~\E i \in 1..Len(s) : s[i] = e
  BY <1>1 DEF RemoveFirst
<1>2. CASE \E i \in 1..Len(s) : s[i] = e
  <2> DEFINE I == {i \in 1..Len(s) : s[i] = e}
             n == Min(I)
  <2>1. n \in 1..Len(s)
    <3>1. I \subseteq Nat /\ I # {}
      BY <1>2
    <3> HIDE DEF n
    <3>2. n \in I
      BY <3>1, MinIsLeast DEF n
    <3> QED
      BY <3>2
  <2>2. RemoveFirst(s, e) = SubSeq(s, 1, n - 1) \o SubSeq(s, n + 1, Len(s))
    <3>1. I # {}
      BY <1>2
    <3> QED
      BY <1>2, <3>1 DEF RemoveFirst, RemoveAt, SelectInSeq
  <2> HIDE DEF n
  <2>3. SubSeq(s, 1, n - 1) \in Seq(T) /\ SubSeq(s, n + 1, Len(s)) \in Seq(T)
    <3>1. \A i \in 1..Len(s) : s[i] \in T
      BY ElementOfSeq
    <3>2. \A i \in 1..(n - 1) : s[i] \in T
      BY <2>1, <3>1, LenProperties
    <3>3. \A i \in (n + 1)..Len(s) : s[i] \in T
      BY <2>1, <3>1, LenProperties
    <3>4. 1 \in Int /\ n - 1 \in Int /\ n + 1 \in Int /\ Len(s) \in Int
      BY <2>1, LenProperties
    <3> QED
      BY <3>2, <3>3, <3>4, SubSeqProperties
  <2> QED
    BY <2>2, <2>3, ConcatProperties
<1> QED
  BY <1>1, <1>2

\* The emit() calls around the innermost one.
LEMMA FrontIsSeq ==
  ASSUME NEW T, NEW s \in Seq(T), s # <<>>
  PROVE  Front(s) \in Seq(T) /\ Last(s) \in T /\ Len(s) \in 1..Len(s)
<1>1. Len(s) \in Nat /\ Len(s) > 0
  BY EmptySeq, LenProperties
<1>2. \A i \in 1..(Len(s) - 1) : s[i] \in T
  BY <1>1, ElementOfSeq
<1>3. SubSeq(s, 1, Len(s) - 1) \in Seq(T)
  BY <1>1, <1>2, SubSeqProperties
<1>4. s[Len(s)] \in T
  BY <1>1, ElementOfSeq
<1> QED
  BY <1>1, <1>3, <1>4 DEF Front, Last

-----------------------------------------------------------------------------
\* A new emit() has called nobody.
LEMMA FrameIsFrame == registered \in Seq(Listeners) => Frame \in Frames
<1> SUFFICES ASSUME registered \in Seq(Listeners) PROVE Frame \in Frames
  OBVIOUS
<1>1. SubSeq(registered, 1, 0) = <<>>
  BY SubSeqEmpty
<1>2. Len(registered) \in Nat
  BY LenProperties
<1>3. Frame \in FrameTypes
  BY EmptySeq DEF Frame, FrameTypes
<1>4. FrameInv(Frame)
  BY <1>1, <1>2 DEF Frame, FrameInv
<1> QED
  BY <1>3, <1>4 DEF Frames

\* The next listener is called.
LEMMA CalledIsFrame ==
  ASSUME NEW f \in Frames, ~f.running, ~LoopEnds(f)
  PROVE  [f EXCEPT !.running = TRUE, !.at = @ + 1,
                   !.called = Append(@, Listening(f)[f.at + 1])] \in Frames
<1>1. f \in FrameTypes /\ FrameInv(f)
  BY DEF Frames
<1>2. /\ f.began \in Seq(Listeners) /\ f.called \in Seq(Listeners)
      /\ Len(f.began) \in Nat /\ f.at \in Nat /\ f.at + 1 \in 1..Len(f.began)
  <2>1. f.began \in Seq(Listeners) /\ f.called \in Seq(Listeners) /\ f.at \in Nat
    BY <1>1 DEF FrameTypes
  <2>2. Len(f.began) \in Nat
    BY <2>1, LenProperties
  <2>3. f.at < Len(f.began)
    BY <1>1, <2>1, <2>2 DEF LoopEnds, Listening, FrameInv
  <2> QED
    BY <2>1, <2>2, <2>3
<1> DEFINE l == f.began[f.at + 1]
<1>3. l \in Listeners
  BY <1>2, ElementOfSeq
<1>4. Append(f.called, l) = SubSeq(f.began, 1, f.at + 1)
  <2>1. SubSeq(f.began, 1, f.at + 1) = SubSeq(f.began, 1, (f.at + 1) - 1) \o <<f.began[f.at + 1]>>
    <3> DEFINE s == f.began
               n == f.at + 1
    <3>1. s \in Seq(Listeners) /\ 1 \in 1..Len(s) /\ n \in 1..Len(s)
      BY <1>2
    <3> HIDE DEF s, n
    <3>2. SubSeq(s, 1, n) = SubSeq(s, 1, n - 1) \o <<s[n]>>
      BY <3>1, SubSeqRecursiveSecond
    <3> QED
      BY <3>2 DEF s, n
  <2>2. (f.at + 1) - 1 = f.at
    BY <1>2
  <2>3. f.called = SubSeq(f.began, 1, f.at)
    BY <1>1 DEF FrameInv
  <2>4. Append(f.called, l) = f.called \o <<l>>
    BY <1>2, <1>3, AppendIsConcat
  <2> QED
    BY <2>1, <2>2, <2>3, <2>4
<1>5. Append(f.called, l) \in Seq(Listeners)
  BY <1>2, <1>3, AppendProperties
<1>6. Listening(f)[f.at + 1] = l
  BY <1>1 DEF Listening, FrameInv
<1> HIDE DEF l
<1> DEFINE g == [f EXCEPT !.running = TRUE, !.at = @ + 1, !.called = Append(@, l)]
<1>7. g \in FrameTypes
  <2> DEFINE at == f.at + 1
             called == Append(f.called, l)
  <2>1. at \in Nat /\ called \in Seq(Listeners)
    BY <1>2, <1>5
  <2> HIDE DEF at, called
  <2>2. [f EXCEPT !.running = TRUE, !.at = at, !.called = called] \in FrameTypes
    BY <1>1, <2>1 DEF FrameTypes
  <2> QED
    BY <2>2 DEF at, called
<1>8. /\ g.copy = f.copy /\ g.began = f.began /\ g.at = f.at + 1
      /\ g.called = Append(f.called, l) /\ g.first = f.first /\ g.errors = f.errors
  BY <1>1 DEF FrameTypes
<1>9. FrameInv(g)
  BY <1>1, <1>2, <1>4, <1>8 DEF FrameInv
<1> QED
  BY <1>6, <1>7, <1>9 DEF Frames

\* The listener raised.
LEMMA CaughtIsFrame ==
  ASSUME NEW f \in Frames, NEW e \in Errors
  PROVE  Caught(f, e) \in Frames
<1>1. f \in FrameTypes /\ FrameInv(f)
  BY DEF Frames
<1>2. f.first \in Seq(Errors) /\ f.errors \in Seq(Errors)
  BY <1>1 DEF FrameTypes
<1> DEFINE g == Caught(f, e)
           errors == Append(f.errors, e)
           first == IF f.first = <<>> THEN <<e>> ELSE f.first
<1>3. errors \in Seq(Errors) /\ errors # <<>> /\ errors[1] = IF f.errors = <<>> THEN e ELSE f.errors[1]
  <2>1. Len(f.errors) \in Nat
    BY <1>2, LenProperties
  <2>2. f.errors = <<>> => Len(f.errors) = 0
    BY EmptySeq
  <2>3. f.errors # <<>> => Len(f.errors) > 0
    BY <1>2, <2>1, EmptySeq
  <2>4. /\ errors \in Seq(Errors) /\ Len(errors) = Len(f.errors) + 1
        /\ \A i \in 1..Len(f.errors) : errors[i] = f.errors[i]
        /\ errors[Len(f.errors) + 1] = e
    BY <1>2, AppendProperties
  <2>5. errors # <<>>
    <3>1. Len(<<>>) = 0
      BY EmptySeq
    <3> HIDE DEF errors
    <3> QED
      BY <3>1, <2>1, <2>4
  <2> QED
    BY <2>1, <2>2, <2>3, <2>4, <2>5
<1>4. first \in Seq(Errors)
  BY <1>2
<1>5. first = <<errors[1]>>
  <2>1. CASE f.errors = <<>>
    <3>1. f.first = <<>>
      BY <2>1, <1>1 DEF FrameInv
    <3> QED
      BY <3>1, <2>1, <1>3
  <2>2. CASE f.errors # <<>>
    <3>1. f.first = <<f.errors[1]>>
      BY <2>2, <1>1 DEF FrameInv
    <3>2. <<f.errors[1]>> # <<>>
      OBVIOUS
    <3> QED
      BY <3>1, <3>2, <2>2, <1>3
  <2> QED
    BY <2>1, <2>2
<1>6. g = [f EXCEPT !.running = FALSE, !.first = first, !.errors = errors]
  BY DEF Caught
<1> HIDE DEF errors, first
<1>7. g \in FrameTypes
  BY <1>1, <1>3, <1>4, <1>6 DEF FrameTypes
<1>8. /\ g.copy = f.copy /\ g.began = f.began /\ g.at = f.at /\ g.running = FALSE
      /\ g.called = f.called /\ g.first = first /\ g.errors = errors
  BY <1>1, <1>6 DEF FrameTypes
<1> HIDE DEF g
<1>9. FrameInv(g)
  BY <1>1, <1>3, <1>5, <1>8 DEF FrameInv
<1> QED
  BY <1>7, <1>9 DEF Frames, g

-----------------------------------------------------------------------------
LEMMA EventsInvInit == EventsInit => EventsInv
  BY EmptySeq DEF EventsInit, EventsInv

LEMMA EventsInvStep == EventsInv /\ [EventsNext]_eventVars => EventsInv'
<1> SUFFICES ASSUME EventsInv, [EventsNext]_eventVars PROVE EventsInv'
  OBVIOUS
<1>0. registered \in Seq(Listeners) /\ emits \in Seq(Frames)
  BY DEF EventsInv
<1>1. ASSUME NEW l \in Listeners, On(l) PROVE EventsInv'
  BY <1>0, <1>1, AppendProperties DEF On, EventsInv
<1>2. ASSUME NEW l \in Listeners, Off(l) PROVE EventsInv'
  BY <1>0, <1>2, RemovedIsSeq DEF Off, EventsInv
<1>3. CASE Emit
  BY <1>0, <1>3, FrameIsFrame, AppendProperties DEF Emit, EventsInv
<1>4. CASE CallListener
  <2>1. Inner \in Frames /\ Len(emits) \in 1..Len(emits) /\ Inner = emits[Len(emits)]
    BY <1>0, <1>4, FrontIsSeq DEF CallListener, Inner, Last
  <2> DEFINE g == [Inner EXCEPT !.running = TRUE, !.at = @ + 1,
                                !.called = Append(@, Listening(Inner)[Inner.at + 1])]
  <2>2. g \in Frames
    BY <1>4, <2>1, CalledIsFrame DEF CallListener
  <2>3. emits' = [emits EXCEPT ![Len(emits)] = g]
    BY <1>4, <2>1 DEF CallListener
  <2> HIDE DEF g
  <2>4. emits' \in Seq(Frames)
    BY <1>0, <2>1, <2>2, <2>3, ExceptSeq
  <2>5. registered' = registered
    BY <1>4 DEF CallListener
  <2> QED
    BY <1>0, <2>4, <2>5 DEF EventsInv
<1>5. CASE ListenerReturns
  <2>1. Inner \in Frames /\ Len(emits) \in 1..Len(emits) /\ Inner = emits[Len(emits)]
    BY <1>0, <1>5, FrontIsSeq DEF ListenerReturns, Inner, Last
  <2> DEFINE g == [Inner EXCEPT !.running = FALSE]
  <2>2. g \in Frames
    BY <2>1 DEF Frames, FrameTypes, FrameInv
  <2>3. emits' = [emits EXCEPT ![Len(emits)] = g]
    BY <1>5, <2>1 DEF ListenerReturns
  <2> HIDE DEF g
  <2>4. emits' \in Seq(Frames)
    BY <1>0, <2>1, <2>2, <2>3, ExceptSeq
  <2>5. registered' = registered
    BY <1>5 DEF ListenerReturns
  <2> QED
    BY <1>0, <2>4, <2>5 DEF EventsInv
<1>6. CASE ListenerRaises
  <2>1. Inner \in Frames /\ Len(emits) \in 1..Len(emits) /\ Inner = emits[Len(emits)] /\ Inner.running
    BY <1>0, <1>6, FrontIsSeq DEF ListenerRaises, Inner, Last
  <2>2. Last(Inner.called) \in Listeners
    <3>1. /\ Inner.began \in Seq(Listeners) /\ Inner.at \in Nat /\ Inner.at > 0
          /\ Inner.at <= Len(Inner.began) /\ Inner.called = SubSeq(Inner.began, 1, Inner.at)
          /\ Len(Inner.began) \in Nat
      BY <2>1, LenProperties DEF Frames, FrameTypes, FrameInv
    <3>2. \A i \in 1..Inner.at : Inner.began[i] \in Listeners
      BY <3>1, ElementOfSeq
    <3>3. Inner.called \in Seq(Listeners) /\ Len(Inner.called) = Inner.at
      BY <3>1, <3>2, SubSeqProperties
    <3> QED
      BY <3>1, <3>3, ElementOfSeq DEF Last
  <2> DEFINE e == <<Last(Inner.called), Len(emits)>>
             g == Caught(Inner, e)
  <2>3. e \in Errors
    BY <2>1, <2>2 DEF Errors
  <2>4. emits' = [emits EXCEPT ![Len(emits)] = g]
    BY <1>6, <2>1 DEF ListenerRaises
  <2> HIDE DEF e
  <2>5. g \in Frames
    BY <2>1, <2>3, CaughtIsFrame
  <2> HIDE DEF g
  <2>6. emits' \in Seq(Frames)
    BY <1>0, <2>1, <2>4, <2>5, ExceptSeq
  <2>7. registered' = registered
    BY <1>6 DEF ListenerRaises
  <2> QED
    BY <1>0, <2>6, <2>7 DEF EventsInv
<1>7. CASE EmitEnds
  <2> DEFINE outer == Front(emits)
  <2>1. outer \in Seq(Frames) /\ Inner \in Frames
    BY <1>0, <1>7, FrontIsSeq DEF EmitEnds, Inner
  <2>2. registered' = registered
    BY <1>7 DEF EmitEnds
  <2>3. CASE emits' = outer
    BY <1>0, <2>1, <2>2, <2>3 DEF EventsInv
  <2>4. CASE /\ Inner.first # <<>> /\ outer # <<>>
             /\ emits' = [outer EXCEPT ![Len(outer)] = Caught(@, Inner.first[1])]
    <3> HIDE DEF outer
    <3>1. Last(outer) \in Frames /\ Len(outer) \in 1..Len(outer) /\ Last(outer) = outer[Len(outer)]
      BY <2>1, <2>4, FrontIsSeq DEF Last
    <3>2. Inner.first[1] \in Errors
      <4>1. Inner.first \in Seq(Errors)
        BY <2>1 DEF Frames, FrameTypes
      <4>2. Len(Inner.first) \in Nat \ {0}
        BY <2>4, <4>1, EmptySeq
      <4> QED
        BY <4>1, <4>2, ElementOfSeq
    <3> DEFINE e == Inner.first[1]
               g == Caught(Last(outer), e)
    <3>3. g \in Frames
      BY <3>1, <3>2, CaughtIsFrame
    <3>4. emits' = [outer EXCEPT ![Len(outer)] = g]
      BY <2>4, <3>1
    <3> HIDE DEF g
    <3>5. emits' \in Seq(Frames)
      BY <2>1, <3>1, <3>3, <3>4, ExceptSeq
    <3> QED
      BY <1>0, <2>2, <3>5 DEF EventsInv
  <2> QED
    BY <1>7, <2>3, <2>4 DEF EmitEnds
<1>8. CASE UNCHANGED eventVars
  BY <1>0, <1>8 DEF EventsInv, eventVars
<1> QED
  BY <1>1, <1>2, <1>3, <1>4, <1>5, <1>6, <1>7, <1>8 DEF EventsNext

\* What emit() has called so far is a beginning of those that were registered
\* when it began, and in the end all of them.
LEMMA EventsInvImplies == EventsInv => EmitReachesAll
<1> SUFFICES ASSUME EventsInv, NEW i \in DOMAIN emits
             PROVE  /\ IsPrefix(emits[i].called, emits[i].began)
                    /\ LoopEnds(emits[i]) =>
                         /\ emits[i].called = emits[i].began
                         /\ emits[i].first =
                              SubSeq(emits[i].errors, 1, IF emits[i].errors = <<>> THEN 0 ELSE 1)
  BY DEF EmitReachesAll
<1> DEFINE f == emits[i]
<1>1. f \in FrameTypes /\ FrameInv(f)
  <2>1. emits \in Seq(Frames)
    BY DEF EventsInv
  <2>2. f \in Frames
    BY <2>1, LenProperties, ElementOfSeq
  <2> QED
    BY <2>2 DEF Frames
<1> HIDE DEF f
<1>2. /\ f.began \in Seq(Listeners) /\ Len(f.began) \in Nat /\ f.at \in Nat /\ f.at <= Len(f.began)
      /\ f.called = SubSeq(f.began, 1, f.at) /\ f.copy = f.began /\ f.errors \in Seq(Errors)
  BY <1>1, LenProperties DEF FrameTypes, FrameInv
<1>3. f.called \in Seq(Listeners) /\ Len(f.called) = f.at
  <2>1. \A j \in 1..f.at : f.began[j] \in Listeners
    BY <1>2, ElementOfSeq
  <2> QED
    BY <1>2, <2>1, SubSeqProperties
<1>4. SubSeq(f.called, 1, Len(f.called)) = f.called
  BY <1>3, SubSeqFull
<1>5. IsPrefix(f.called, f.began)
  BY <1>2, <1>3, <1>4 DEF IsPrefix
<1>6. LoopEnds(f) => f.called = f.began
  <2>1. LoopEnds(f) => f.at = Len(f.began)
    BY <1>2 DEF LoopEnds, Listening
  <2>2. SubSeq(f.began, 1, Len(f.began)) = f.began
    BY <1>2, SubSeqFull
  <2> QED
    BY <1>2, <2>1, <2>2
<1>7. f.first = SubSeq(f.errors, 1, IF f.errors = <<>> THEN 0 ELSE 1)
  <2>1. CASE f.errors = <<>>
    <3>1. SubSeq(f.errors, 1, 0) = <<>>
      BY SubSeqEmpty
    <3> QED
      BY <1>1, <2>1, <3>1 DEF FrameInv
  <2>2. CASE f.errors # <<>>
    <3>1. Len(f.errors) \in Nat \ {0}
      BY <1>2, <2>2, EmptySeq
    <3>2. SubSeq(f.errors, 1, 1) = SubSeq(f.errors, 1, 0) \o <<f.errors[1]>>
      <4>1. 1 \in 1..Len(f.errors)
        BY <3>1
      <4>2. 1 - 1 = 0
        OBVIOUS
      <4> QED
        BY <1>2, <4>1, <4>2, SubSeqRecursiveSecond
    <3>3. SubSeq(f.errors, 1, 0) = <<>>
      BY SubSeqEmpty
    <3>4. <<>> \o <<f.errors[1]>> = <<f.errors[1]>>
      <4>1. <<f.errors[1]>> \in Seq(Errors)
        BY <1>2, <3>1, ElementOfSeq
      <4> QED
        BY <4>1, ConcatEmptySeq
    <3> QED
      BY <1>1, <2>2, <3>2, <3>3, <3>4 DEF FrameInv
  <2> QED
    BY <2>1, <2>2
<1> QED
  BY <1>5, <1>6, <1>7 DEF f

\* emit() calls all who were registered when it began, and raises the first of
\* their errors, whatever they do meanwhile.
THEOREM EmitReachesAllAlways == EventsSpec => []EmitReachesAll
<1>1. EventsInit => EventsInv
  BY EventsInvInit
<1>2. EventsInv /\ [EventsNext]_eventVars => EventsInv'
  BY EventsInvStep
<1>3. EventsInv => EmitReachesAll
  BY EventsInvImplies
<1> QED
  BY <1>1, <1>2, <1>3, PTL DEF EventsSpec

-----------------------------------------------------------------------------
(* Chunking. *)

LEMMA LeastNatural ==
  ASSUME NEW S, S \subseteq Nat, S # {}
  PROVE  \E x \in S : \A y \in S : x <= y
<1>1. PICK x \in S : \A y \in S : ~(<<y, x>> \in OpToRel(<, Nat))
  BY NatLessThanWellFounded, WFMin
<1>2. \A u, v \in Nat : v < u => <<v, u>> \in OpToRel(<, Nat)
  BY DEF OpToRel
<1>3. \A u, v \in S : ~(v < u) => u <= v
  OBVIOUS
<1> QED
  BY <1>1, <1>2, <1>3

\* The library's Max of a set of integers that has a bound is in it.
LEMMA MaxIsGreatest ==
  ASSUME NEW S, S \subseteq Int, S # {}, NEW b \in Int, \A x \in S : x <= b
  PROVE  Max(S) \in S /\ \A y \in S : Max(S) >= y
<1> DEFINE T == {b - x : x \in S}
<1>1. T \subseteq Nat /\ T # {}
  <2>1. \A x \in S : b - x \in Nat
    OBVIOUS
  <2>2. PICK x \in S : TRUE
    OBVIOUS
  <2>3. b - x \in T
    BY <2>2
  <2> QED
    BY <2>1, <2>3
<1>2. PICK t \in T : \A y \in T : t <= y
  <2> HIDE DEF T
  <2> QED
    BY <1>1, LeastNatural
<1>3. PICK x \in S : t = b - x
  OBVIOUS
<1>4. \A y \in S : x >= y
  <2> SUFFICES ASSUME NEW y \in S PROVE x >= y
    OBVIOUS
  <2>1. t <= b - y
    BY <1>2
  <2> QED
    BY <1>3, <2>1
<1> QED
  BY <1>4 DEF Max

LEMMA TwoIntegers ==
  ASSUME NEW a \in Int, NEW b \in Int
  PROVE  /\ Min({a, b}) = IF a <= b THEN a ELSE b
         /\ Max({a, b}) = IF a >= b THEN a ELSE b
<1>1. Min({a, b}) \in {a, b} /\ Min({a, b}) <= a /\ Min({a, b}) <= b
  <2>1. \E x \in {a, b} : \A y \in {a, b} : x <= y
    OBVIOUS
  <2> QED
    BY <2>1 DEF Min
<1>2. Max({a, b}) \in {a, b} /\ Max({a, b}) >= a /\ Max({a, b}) >= b
  <2>1. \E x \in {a, b} : \A y \in {a, b} : x >= y
    OBVIOUS
  <2> QED
    BY <2>1 DEF Max
<1> QED
  BY <1>1, <1>2

-----------------------------------------------------------------------------
Options(Chars) ==
  [size : Int, overlap : Int, words : BOOLEAN, separator : Chars, min : Int \cup {None}]

\* The least size of a chunk is positive.
LEMMA MinChunkSizeIsPositive ==
  ASSUME NEW Chars, NEW o \in Options(Chars), ~OptionsRefused(o)
  PROVE  MinChunkSize(o) \in Int /\ MinChunkSize(o) >= 1
<1>1. o.size \in Int /\ o.size > 0
  BY DEF Options, OptionsRefused
<1> DEFINE raw == IF o.min = None THEN Max({1, o.size \div 10}) ELSE o.min
<1>2. raw \in Int
  <2>1. o.size \div 10 \in Int
    BY <1>1
  <2>2. Max({1, o.size \div 10}) \in Int
    <3> DEFINE tenth == o.size \div 10
    <3>1. tenth \in Int
      BY <2>1
    <3> HIDE DEF tenth
    <3>2. Max({1, tenth}) = IF 1 >= tenth THEN 1 ELSE tenth
      BY <3>1, TwoIntegers
    <3>3. Max({1, tenth}) \in Int
      BY <3>1, <3>2
    <3> QED
      BY <3>3 DEF tenth
  <2> QED
    BY <2>2 DEF Options
<1> HIDE DEF raw
<1>3. Min({raw, o.size}) \in Int
  BY <1>1, <1>2, TwoIntegers
<1>4. Max({1, Min({raw, o.size})}) \in Int /\ Max({1, Min({raw, o.size})}) >= 1
  <2> DEFINE m == Min({raw, o.size})
  <2>1. m \in Int
    BY <1>3
  <2> HIDE DEF m
  <2>2. Max({1, m}) = IF 1 >= m THEN 1 ELSE m
    BY <2>1, TwoIntegers
  <2>3. Max({1, m}) \in Int /\ Max({1, m}) >= 1
    BY <2>1, <2>2
  <2> QED
    BY <2>3 DEF m
<1> QED
  BY <1>4 DEF MinChunkSize, raw

\* rfind() gives an offset in the text, or -1.
LEMMA LastSeparatorIsInText ==
  ASSUME NEW text, NEW n \in Nat, DOMAIN text = 1..n, NEW separator
  PROVE  LastSeparator(text, separator) \in -1..(n - 1)
<1> DEFINE S == {i - 1 : i \in {j \in DOMAIN text : text[j] = separator}} \cup {-1}
<1>1. S \subseteq -1..(n - 1) /\ -1 \in S
  OBVIOUS
<1> HIDE DEF S
<1>2. S \subseteq Int /\ S # {} /\ n - 1 \in Int /\ \A x \in S : x <= n - 1
  BY <1>1
<1>3. Max(S) \in S
  BY <1>2, MaxIsGreatest
<1> QED
  BY <1>1, <1>3 DEF LastSeparator, S

\* A window of chunk_text() has at least one character and at most as many as
\* asked for, and the next one begins after its beginning and not after its
\* end: the loop gets further and skips nothing.
LEMMA WindowsTouch ==
  ASSUME NEW Chars, NEW text \in Seq(Chars), NEW o \in Options(Chars), ~OptionsRefused(o),
         NEW from \in 0..(Len(text) - 1)
  PROVE  LET end == WindowEnd(text, o, from)
             next == NextWindow(o, from, end)
         IN  /\ end \in (from + 1)..Len(text) /\ end <= from + o.size
             /\ next \in (from + 1)..end
<1>1. Len(text) \in Nat /\ o.size \in Int /\ o.size > 0 /\ o.overlap \in Int /\ o.overlap >= 0
  BY LenProperties DEF Options, OptionsRefused
<1> DEFINE full == Min({from + o.size, Len(text)})
           last == LastSeparator(Slice(text, from, full), o.separator)
           end == WindowEnd(text, o, from)
<1>2. full \in (from + 1)..Len(text) /\ full <= from + o.size
  <2>1. full = IF from + o.size <= Len(text) THEN from + o.size ELSE Len(text)
    BY <1>1, TwoIntegers
  <2> QED
    BY <1>1, <2>1
<1> HIDE DEF full
<1>3. last \in -1..(full - from - 1)
  <2>1. \A i \in (from + 1)..full : text[i] \in Chars
    <3>1. \A i \in 1..Len(text) : text[i] \in Chars
      BY ElementOfSeq
    <3> QED
      BY <1>1, <1>2, <3>1
  <2>2. from + 1 \in Int /\ full \in Int
    BY <1>1, <1>2
  <2> DEFINE s == SubSeq(text, from + 1, full)
  <2>3. s \in Seq(Chars) /\ Len(s) = IF from + 1 <= full THEN full - (from + 1) + 1 ELSE 0
    BY <2>1, <2>2, SubSeqProperties
  <2>4. DOMAIN s = 1..(full - from) /\ full - from \in Nat
    BY <1>1, <1>2, <2>3, LenProperties
  <2> HIDE DEF s
  <2>5. LastSeparator(s, o.separator) \in -1..(full - from - 1)
    BY <2>4, LastSeparatorIsInText
  <2> QED
    BY <2>5 DEF Slice, s
<1> HIDE DEF last
<1>4. end = IF o.words /\ full < Len(text) /\ last > MinChunkSize(o) THEN from + last ELSE full
  BY DEF WindowEnd, full, last
<1>5. MinChunkSize(o) \in Int /\ MinChunkSize(o) >= 1
  BY MinChunkSizeIsPositive
<1>6. end \in (from + 1)..Len(text) /\ end <= from + o.size
  <2>1. CASE o.words /\ full < Len(text) /\ last > MinChunkSize(o)
    BY <1>1, <1>2, <1>3, <1>4, <1>5, <2>1
  <2>2. CASE ~(o.words /\ full < Len(text) /\ last > MinChunkSize(o))
    BY <1>2, <1>4, <2>2
  <2> QED
    BY <2>1, <2>2
<1> HIDE DEF end
<1>7. NextWindow(o, from, end) \in (from + 1)..end
  BY <1>1, <1>6 DEF NextWindow
<1> QED
  BY <1>6, <1>7 DEF end

\* Strong induction downward from N, for a set of numbers: the provers take no predicate.
LEMMA NumbersDownFrom ==
  ASSUME NEW N \in Nat, NEW T,
         \A m \in 0..N : (\A k \in (m + 1)..N : k \in T) => m \in T
  PROVE  \A m \in 0..N : m \in T
<1> DEFINE bad == {m \in 0..N : m \notin T}
           far == {N - m : m \in bad}
<1>1. SUFFICES ASSUME bad # {} PROVE FALSE
  OBVIOUS
<1>2. PICK x \in far : \A y \in far : x <= y
  <2>1. far \subseteq Nat /\ far # {}
    BY <1>1
  <2> HIDE DEF far
  <2>. QED BY <2>1, LeastNatural
<1>3. PICK m \in bad : x = N - m
  OBVIOUS
<1>4. \A k \in (m + 1)..N : k \notin bad
  <2> SUFFICES ASSUME NEW k \in (m + 1)..N, k \in bad PROVE FALSE
    OBVIOUS
  <2>1. x <= N - k
    BY <1>2
  <2>. QED BY <1>3, <2>1
<1>5. \A k \in (m + 1)..N : k \in T
  BY <1>4
<1>. QED BY <1>3, <1>5

\* What a loop collects from place i on: first[i], and what it collects from next[i] on.
Collects(f, S, m, n, first, last, next) ==
  /\ f \in [m..n -> Seq(S)]
  /\ \A i \in m..n : f[i] = first[i] \o IF i \in last THEN <<>> ELSE f[next[i]]

\* A loop that always gets further collects something.
LEMMA LoopCollects ==
  ASSUME NEW S, NEW n \in Nat, NEW first, \A i \in 0..n : first[i] \in Seq(S),
         NEW last, NEW next, \A i \in 0..n : i \in last \/ next[i] \in (i + 1)..n
  PROVE  \E f : Collects(f, S, 0, n, first, last, next)
<1> DEFINE T == {m \in 0..n : \E f : Collects(f, S, m, n, first, last, next)}
<1>1. ASSUME NEW m \in 0..n, \A k \in (m + 1)..n : k \in T
      PROVE  m \in T
  <2>1. first[m] \in Seq(S) /\ first[m] \o <<>> = first[m]
    OBVIOUS
  <2>2. CASE m = n
    <3> DEFINE f == [i \in m..n |-> first[n]]
    <3>1. n \in last
      BY <2>2
    <3>2. \A i \in m..n : i = n
      BY <2>2
    <3>3. Collects(f, S, m, n, first, last, next)
      BY <2>1, <2>2, <3>1, <3>2 DEF Collects
    <3>. QED BY <3>3
  <2>3. CASE m # n
    <3>1. m + 1 \in (m + 1)..n /\ m + 1 \in 0..n
      BY <2>3
    <3>2. PICK f : Collects(f, S, m + 1, n, first, last, next)
      BY <1>1, <3>1
    <3>3. /\ f \in [(m + 1)..n -> Seq(S)]
          /\ \A i \in (m + 1)..n : f[i] = first[i] \o IF i \in last THEN <<>> ELSE f[next[i]]
      BY <3>2 DEF Collects
    <3> DEFINE v == first[m] \o IF m \in last THEN <<>> ELSE f[next[m]]
               g == [i \in m..n |-> IF i = m THEN v ELSE f[i]]
    <3>4. v \in Seq(S)
      <4>1. CASE m \in last
        BY <2>1, <4>1
      <4>2. CASE m \notin last
        <5>1. f[next[m]] \in Seq(S)
          BY <3>3, <4>2
        <5>. QED BY <2>1, <4>2, <5>1
      <4>. QED BY <4>1, <4>2
    <3>5. /\ g \in [m..n -> Seq(S)] /\ g[m] = v
          /\ \A i \in (m + 1)..n : g[i] = f[i]
      <4> HIDE DEF v
      <4>1. \A i \in m..n : i = m \/ i \in (m + 1)..n
        OBVIOUS
      <4>. QED BY <3>3, <3>4, <4>1
    <3>6. ASSUME NEW i \in m..n
          PROVE  g[i] = first[i] \o IF i \in last THEN <<>> ELSE g[next[i]]
      <4>1. i \in last \/ (next[i] \in (i + 1)..n /\ next[i] \in (m + 1)..n)
        OBVIOUS
      <4>2. i \in last \/ g[next[i]] = f[next[i]]
        <5> HIDE DEF g
        <5>. QED BY <3>5, <4>1
      <4>3. CASE i = m
        <5> HIDE DEF g
        <5>. QED BY <3>5, <4>2, <4>3
      <4>4. CASE i \in (m + 1)..n
        <5> HIDE DEF g, v
        <5>. QED BY <3>3, <3>5, <4>2, <4>4
      <4>5. i = m \/ i \in (m + 1)..n
        OBVIOUS
      <4> HIDE DEF g
      <4>. QED BY <4>3, <4>4, <4>5
    <3> HIDE DEF g
    <3>7. Collects(g, S, m, n, first, last, next)
      BY <3>5, <3>6 DEF Collects
    <3>. QED BY <3>7
  <2>. QED BY <2>2, <2>3
<1> HIDE DEF T
<1>2. 0 \in T
  <2>1. \A m \in 0..n : m \in T
    BY <1>1, NumbersDownFrom
  <2>. QED BY <2>1
<1>. QED BY <1>2 DEF T

Numbers(from, end) == [i \in 1..(end - from) |-> from + i]

\* The groups from offset "from" on have every sentence after it, each group begins where
\* the overlap with the one before it does, and that one is full.
Grouped(s, n, max, overlap, from) ==
  /\ s \in Seq(Seq(Nat)) /\ Len(s) >= 1
  /\ s[1] = Numbers(from, Min({from + max, n}))
  /\ UNION {ToSet(s[i]) : i \in DOMAIN s} = (from + 1)..n
  /\ \A i \in 2..Len(s) : /\ s[i - 1][Len(s[i - 1])] - s[i][1] = overlap - 1
                          /\ Len(s[i - 1]) = max

LEMMA GroupIs ==
  ASSUME NEW from \in Nat, NEW end \in Nat, from <= end
  PROVE  LET s == Numbers(from, end)
         IN  /\ s \in Seq(Nat) /\ Len(s) = end - from /\ DOMAIN s = 1..(end - from)
             /\ ToSet(s) = (from + 1)..end
<1> DEFINE s == [i \in 1..(end - from) |-> from + i]
<1>1. s \in Seq(Nat) /\ Len(s) = end - from /\ DOMAIN s = 1..(end - from)
  OBVIOUS
<1>2. ASSUME NEW x \in (from + 1)..end PROVE x \in {s[i] : i \in 1..(end - from)}
  <2>1. x - from \in 1..(end - from) /\ s[x - from] = x
    OBVIOUS
  <2>. QED BY <2>1
<1>3. {s[i] : i \in 1..(end - from)} \subseteq (from + 1)..end
  OBVIOUS
<1>. QED BY <1>1, <1>2, <1>3 DEF ToSet, Numbers

LEMMA GroupsStep ==
  ASSUME NEW n \in Nat, NEW max \in Nat, NEW overlap \in Nat, overlap < max,
         NEW from \in 0..(n - 1),
         NEW end \in Nat, end = Min({from + max, n}),
         NEW g, g = Numbers(from, end),
         NEW t, end < n => Grouped(t, n, max, overlap, end - overlap),
         NEW s, end = n => s = <<g>>, end < n => s = <<g>> \o t
  PROVE  Grouped(s, n, max, overlap, from)
<1>1. end = (IF from + max <= n THEN from + max ELSE n) /\ end \in (from + 1)..n
  BY TwoIntegers
<1>2. /\ g \in Seq(Nat) /\ Len(g) = end - from /\ DOMAIN g = 1..(end - from)
      /\ ToSet(g) = (from + 1)..end
  <2>1. end \in Nat /\ from \in Nat /\ from <= end
    BY <1>1
  <2>. QED BY <2>1, GroupIs
<1>3. CASE end = n
  <2>1. s = <<g>> /\ s \in Seq(Seq(Nat)) /\ Len(s) = 1 /\ s[1] = g /\ DOMAIN s = {1}
    <3>1. s = <<g>> /\ g \in Seq(Nat)
      BY <1>2, <1>3
    <3>. QED BY <3>1
  <2>2. UNION {ToSet(s[i]) : i \in DOMAIN s} = ToSet(g)
    BY <2>1
  <2>3. s[1] = Numbers(from, Min({from + max, n})) /\ ToSet(g) = (from + 1)..n
    BY <1>2, <1>3, <2>1
  <2>4. Len(s) >= 1 /\ 2..Len(s) = {}
    BY <2>1
  <2>. QED BY <2>1, <2>2, <2>3, <2>4 DEF Grouped
<1>4. CASE end < n
  <2> DEFINE next == end - overlap
             h == Min({next + max, n})
  <2>1. next \in (from + 1)..end /\ next \in Nat /\ end - from = max /\ next < n
    BY <1>1, <1>4
  <2>. Grouped(t, n, max, overlap, next)
    BY <1>4
  <2> HIDE DEF next
  <2>2. /\ t \in Seq(Seq(Nat)) /\ Len(t) >= 1 /\ Len(t) \in Nat
        /\ t[1] = Numbers(next, h)
        /\ UNION {ToSet(t[i]) : i \in DOMAIN t} = (next + 1)..n
        /\ \A i \in 2..Len(t) : t[i - 1][Len(t[i - 1])] - t[i][1] = overlap - 1 /\ Len(t[i - 1]) = max
    BY DEF Grouped
  <2>3. h \in Nat /\ h >= next + 1
    <3>1. Min({next + max, n}) = IF next + max <= n THEN next + max ELSE n
      BY <2>1, TwoIntegers
    <3>. QED BY <2>1, <3>1
  <2> HIDE DEF h
  <2>4. t[1][1] = next + 1
    <3>1. 1 \in 1..(h - next)
      BY <2>1, <2>3
    <3>. QED BY <2>2, <3>1 DEF Numbers
  <2>5. s = <<g>> \o t
    BY <1>4
  <2>6. /\ s \in Seq(Seq(Nat)) /\ Len(s) = Len(t) + 1 /\ s[1] = g
        /\ \A i \in 2..Len(s) : i - 1 \in 1..Len(t) /\ s[i] = t[i - 1]
        /\ DOMAIN s = 1..Len(s) /\ DOMAIN t = 1..Len(t)
    BY <1>2, <2>2, <2>5
  <2>7. UNION {ToSet(s[i]) : i \in DOMAIN s} = ToSet(g) \cup UNION {ToSet(t[i]) : i \in DOMAIN t}
    <3> DEFINE N == Len(s)
               M == Len(t)
    <3>1. N = M + 1 /\ M \in Nat /\ DOMAIN s = 1..N /\ DOMAIN t = 1..M /\ s[1] = g
          /\ \A i \in 2..N : s[i] = t[i - 1]
      BY <2>2, <2>6
    <3> HIDE DEF N, M
    <3>2. \A i \in 1..N : i = 1 \/ (i \in 2..N /\ i - 1 \in 1..M)
      BY <3>1
    <3>3. \A i \in 1..M : i + 1 \in 2..N /\ i + 1 \in 1..N /\ s[i + 1] = t[i]
      <4> SUFFICES ASSUME NEW i \in 1..M PROVE i + 1 \in 2..N /\ i + 1 \in 1..N /\ s[i + 1] = t[i]
        OBVIOUS
      <4>1. i + 1 \in 2..N /\ i + 1 \in 1..N /\ (i + 1) - 1 = i
        BY <3>1
      <4>. QED BY <3>1, <4>1
    <3>4. ASSUME NEW x, x \in UNION {ToSet(s[i]) : i \in 1..N}
          PROVE  x \in ToSet(g) \cup UNION {ToSet(t[i]) : i \in 1..M}
      <4>1. PICK i \in 1..N : x \in ToSet(s[i])
        BY <3>4
      <4>. QED BY <3>1, <3>2, <4>1
    <3>5. ASSUME NEW x, x \in ToSet(g) \cup UNION {ToSet(t[i]) : i \in 1..M}
          PROVE  x \in UNION {ToSet(s[i]) : i \in 1..N}
      <4>1. CASE x \in ToSet(g)
        <5>1. 1 \in 1..N
          BY <3>1
        <5>. QED BY <3>1, <4>1, <5>1
      <4>2. CASE \E i \in 1..M : x \in ToSet(t[i])
        BY <3>3, <4>2
      <4>. QED BY <3>5, <4>1, <4>2
    <3>. QED BY <3>1, <3>4, <3>5
  <2>8. UNION {ToSet(s[i]) : i \in DOMAIN s} = (from + 1)..n
    <3>1. (from + 1)..end \cup (next + 1)..n = (from + 1)..n
      BY <1>1, <1>4, <2>1
    <3>. QED BY <1>2, <2>2, <2>7, <3>1
  <2>9. ASSUME NEW i \in 2..Len(s)
        PROVE  s[i - 1][Len(s[i - 1])] - s[i][1] = overlap - 1 /\ Len(s[i - 1]) = max
    <3>1. CASE i = 2
      <4>1. g[max] = from + max
        BY <1>2, <2>1 DEF Numbers
      <4>2. s[2] = t[1] /\ s[1] = g /\ Len(g) = max
        BY <1>2, <2>1, <2>2, <2>6, <3>1
      <4>3. from + max - (next + 1) = overlap - 1
        BY <1>1, <2>1 DEF next
      <4>4. s[i] = t[1] /\ s[i - 1] = g
        BY <3>1, <4>2
      <4>5. s[i - 1][Len(s[i - 1])] = from + max /\ s[i][1] = next + 1 /\ Len(s[i - 1]) = max
        BY <2>4, <4>1, <4>2, <4>4
      <4> DEFINE a == s[i - 1][Len(s[i - 1])]
                 b == s[i][1]
      <4>6. a = from + max /\ b = next + 1
        BY <4>5
      <4> HIDE DEF a, b
      <4>7. a - b = overlap - 1
        BY <4>3, <4>6
      <4>. QED BY <4>5, <4>7 DEF a, b
    <3>2. CASE i # 2
      <4>1. i - 1 \in 2..Len(t) /\ i - 1 \in 2..Len(s) /\ (i - 1) - 1 = i - 2
        BY <2>2, <2>6, <3>2
      <4>2. s[i] = t[i - 1] /\ s[i - 1] = t[(i - 1) - 1]
        BY <2>6, <4>1
      <4>. QED BY <2>2, <4>1, <4>2
    <3>. QED BY <3>1, <3>2
  <2>. QED BY <2>6, <2>8, <2>9, <2>2 DEF Grouped
<1>. QED BY <1>1, <1>3, <1>4

\* The loop of the groups, as the recursion of Groups has it.
GroupsLoop(f, n, max, overlap) ==
  f = [from \in IF overlap < max THEN 0..n ELSE {0} |->
         LET end == Min({from + max, n})
             next == end - overlap
         IN  <<[i \in 1..(end - from) |-> from + i]>>
             \o IF next <= 0 \/ end >= n THEN <<>> ELSE f[next]]

LEMMA GroupsAreCollected ==
  ASSUME NEW n \in Nat, NEW max \in Nat, NEW overlap \in Nat, n > max,
         NEW f, GroupsLoop(f, n, max, overlap)
  PROVE  \E g : GroupsLoop(g, n, max, overlap) /\ Groups(n, max, overlap) = g[0]
<1>1. ~(n <= max)
  OBVIOUS
<1>. QED BY <1>1 DEF Groups, GroupsLoop

LEMMA GroupsLoopEnds ==
  ASSUME NEW n \in Nat, NEW max \in Nat, NEW overlap \in Nat, n > max
  PROVE  \E f : GroupsLoop(f, n, max, overlap)
<1>1. CASE overlap < max
  <2> DEFINE S == Seq(Nat)
             end == [i \in 0..n |-> Min({i + max, n})]
             first == [i \in 0..n |-> <<[k \in 1..(Min({i + max, n}) - i) |-> i + k]>>]
             next == [i \in 0..n |-> Min({i + max, n}) - overlap]
             last == {i \in 0..n : next[i] <= 0 \/ end[i] >= n}
  <2>1. \A i \in 0..n : end[i] = (IF i + max <= n THEN i + max ELSE n) /\ end[i] \in Nat /\ i <= end[i]
    <3> SUFFICES ASSUME NEW i \in 0..n
                 PROVE  end[i] = (IF i + max <= n THEN i + max ELSE n) /\ end[i] \in Nat /\ i <= end[i]
      OBVIOUS
    <3>1. Min({i + max, n}) = IF i + max <= n THEN i + max ELSE n
      BY TwoIntegers
    <3>. QED BY <3>1
  <2>2. \A i \in 0..n : first[i] = <<Numbers(i, end[i])>> /\ next[i] = end[i] - overlap
    BY DEF Numbers
  <2>3. ASSUME NEW i \in 0..n PROVE first[i] \in Seq(S)
    <3> DEFINE e == end[i]
               k == Numbers(i, e)
    <3>1. e \in Nat /\ i \in Nat /\ i <= e /\ first[i] = <<k>>
      BY <2>1, <2>2
    <3> HIDE DEF e, first, end
    <3>2. k \in S
      BY <3>1, GroupIs
    <3> HIDE DEF S, k
    <3>. QED BY <3>1, <3>2
  <2>4. ASSUME NEW i \in 0..n PROVE i \in last \/ next[i] \in (i + 1)..n
    <3> DEFINE e == end[i]
               d == next[i]
    <3>1. e = (IF i + max <= n THEN i + max ELSE n) /\ d = e - overlap
      BY <2>1, <2>2
    <3>2. i \in last <=> (d <= 0 \/ e >= n)
      OBVIOUS
    <3> HIDE DEF e, d, last
    <3>3. d <= 0 \/ e >= n \/ d \in (i + 1)..n
      BY <1>1, <3>1
    <3>. QED BY <3>2, <3>3 DEF d
  <2> HIDE DEF S, first, next, last
  <2>5. PICK f : Collects(f, S, 0, n, first, last, next)
    BY <2>3, <2>4, LoopCollects
  <2>6. f \in [0..n -> Seq(S)] /\ \A i \in 0..n : f[i] = first[i] \o IF i \in last THEN <<>> ELSE f[next[i]]
    BY <2>5 DEF Collects
  <2>7. f = [i \in 0..n |-> first[i] \o IF i \in last THEN <<>> ELSE f[next[i]]]
    BY <2>6
  <2>8. GroupsLoop(f, n, max, overlap)
    BY <1>1, <2>7 DEF GroupsLoop, first, last, next
  <2>. QED BY <2>8
<1>2. CASE overlap >= max
  <2> DEFINE end == Min({0 + max, n})
             f == [from \in {0} |-> <<[i \in 1..(end - 0) |-> 0 + i]>> \o <<>>]
  <2>1. end = max
    BY TwoIntegers
  <2>2. end - overlap <= 0 /\ ~(overlap < max)
    BY <1>2, <2>1
  <2>3. GroupsLoop(f, n, max, overlap)
    <3>1. f = [from \in {0} |-> f[from]]
      OBVIOUS
    <3>. QED BY <2>2, <3>1 DEF GroupsLoop
  <2>. QED BY <2>3
<1>. QED BY <1>1, <1>2

\* Whatever the number of sentences or paragraphs, the size of a group and the overlap,
\* the groups of chunk_by_sentences() and chunk_by_paragraphs() have all of them in
\* order, each group full and sharing the overlap with the next, unless an overlap as
\* large as a group ends the loop after the first.
THEOREM GroupsCoverAll ==
  ASSUME NEW n \in Nat, NEW max \in Nat, NEW overlap \in Nat
  PROVE  GroupsCover(n, max, overlap, Groups(n, max, overlap))
<1>1. CASE n <= max
  <2> DEFINE g == [i \in 1..n |-> i]
             s == Groups(n, max, overlap)
  <2>1. s = <<g>>
    BY <1>1 DEF Groups
  <2>2. g = Numbers(0, n)
    BY DEF Numbers
  <2>3. g \in Seq(Nat) /\ ToSet(g) = 1..n
    <3>1. 0 \in Nat /\ 0 <= n /\ (0 + 1)..n = 1..n
      OBVIOUS
    <3> HIDE DEF g
    <3>. QED BY <2>2, <3>1, GroupIs
  <2> HIDE DEF g, s
  <2>4. DOMAIN s = {1} /\ s[1] = g /\ Len(s) = 1
    BY <2>1
  <2>5. UNION {ToSet(s[i]) : i \in DOMAIN s} = 1..n /\ 2..Len(s) = {}
    BY <2>3, <2>4
  <2>. QED BY <1>1, <2>5 DEF GroupsCover, s
<1>2. CASE n > max /\ overlap < max
  <2>1. PICK f : GroupsLoop(f, n, max, overlap) /\ Groups(n, max, overlap) = f[0]
    BY <1>2, GroupsLoopEnds, GroupsAreCollected
  <2> DEFINE T == {m \in 0..n : m < n => Grouped(f[m], n, max, overlap, m)}
  <2>2. ASSUME NEW m \in 0..n, \A k \in (m + 1)..n : k \in T
        PROVE  m \in T
    <3>1. SUFFICES ASSUME m < n PROVE Grouped(f[m], n, max, overlap, m)
      OBVIOUS
    <3> DEFINE end == Min({m + max, n})
               next == end - overlap
               g == Numbers(m, end)
    <3>2. end = (IF m + max <= n THEN m + max ELSE n) /\ end \in Nat
      BY TwoIntegers
    <3>3. f[m] = <<g>> \o IF next <= 0 \/ end >= n THEN <<>> ELSE f[next]
      BY <1>2, <2>1 DEF GroupsLoop, Numbers
    <3> HIDE DEF end
    <3>4. next \in Int /\ (end < n => next \in (m + 1)..n /\ next > 0 /\ next < n) /\ (end = n \/ end < n)
      BY <1>2, <3>1, <3>2
    <3> HIDE DEF next, g
    <3>5. end < n => Grouped(f[next], n, max, overlap, next)
      BY <2>2, <3>4
    <3>6. <<g>> \o <<>> = <<g>>
      OBVIOUS
    <3>7. (end = n => f[m] = <<g>>) /\ (end < n => f[m] = <<g>> \o f[next])
      <4>1. CASE end = n
        <5>1. end >= n
          BY <4>1
        <5>2. ~(end < n)
          BY <4>1
        <5>. QED BY <3>3, <3>6, <5>1, <5>2
      <4>2. CASE end < n
        <5>1. ~(next <= 0 \/ end >= n) /\ end # n
          BY <3>2, <3>4, <4>2
        <5>. QED BY <3>3, <5>1
      <4>. QED BY <3>4, <4>1, <4>2
    <3>8. m \in 0..(n - 1)
      BY <3>1
    <3>. QED BY <1>2, <3>2, <3>5, <3>7, <3>8, GroupsStep DEF end, next, g
  <2> HIDE DEF T
  <2>3. 0 \in T
    <3>1. \A m \in 0..n : m \in T
      BY <2>2, NumbersDownFrom
    <3>. QED BY <3>1
  <2>4. Grouped(f[0], n, max, overlap, 0)
    BY <1>2, <2>3 DEF T
  <2>. QED BY <1>2, <2>1, <2>4 DEF Grouped, GroupsCover
<1>3. CASE n > max /\ overlap >= max
  <2>1. PICK f : GroupsLoop(f, n, max, overlap) /\ Groups(n, max, overlap) = f[0]
    BY <1>3, GroupsLoopEnds, GroupsAreCollected
  <2>2. Min({0 + max, n}) = max
    BY <1>3, TwoIntegers
  <2>3. f[0] = <<[i \in 1..(max - 0) |-> 0 + i]>> \o <<>>
    <3>1. max - overlap <= 0 /\ ~(overlap < max)
      BY <1>3
    <3>. QED BY <2>1, <2>2, <3>1 DEF GroupsLoop
  <2>4. [i \in 1..(max - 0) |-> 0 + i] = [i \in 1..max |-> i]
    OBVIOUS
  <2>5. f[0] = <<[i \in 1..max |-> i]>>
    BY <2>3, <2>4
  <2>. QED BY <1>3, <2>1, <2>5 DEF GroupsCover
<1>. QED BY <1>1, <1>2, <1>3

ChunksOf(Chars) == [text : Seq(Chars), start : Nat, end : Nat]

LEMMA StripIs ==
  ASSUME NEW Chars, NEW text \in Seq(Chars)
  PROVE  /\ Strip(text) \in Seq(Chars)
         /\ Ink(text) # {} => Len(Strip(text)) >= 1
<1>1. CASE Ink(text) = {}
  BY <1>1 DEF Strip
<1>2. CASE Ink(text) # {}
  <2> DEFINE a == Min(Ink(text))
             b == Max(Ink(text))
             n == Len(text)
  <2>1. n \in Nat /\ Ink(text) \subseteq 1..n /\ \A i \in 1..n : text[i] \in Chars
    BY DEF Ink
  <2>2. /\ Ink(text) \subseteq Nat /\ Ink(text) \subseteq Int
        /\ n \in Int /\ \A x \in Ink(text) : x <= n
    BY <2>1
  <2>3. a \in Ink(text) /\ \A y \in Ink(text) : a <= y
    BY <1>2, <2>2, MinIsLeast
  <2>4. b \in Ink(text) /\ \A y \in Ink(text) : b >= y
    <3> HIDE DEF n
    <3>. QED BY <1>2, <2>2, MaxIsGreatest
  <2>5. Strip(text) = SubSeq(text, a, b)
    BY <1>2 DEF Strip
  <2> HIDE DEF a, b, n
  <2>6. a \in 1..n /\ b \in 1..n /\ a <= b /\ a \in Int /\ b \in Int
    BY <2>1, <2>3, <2>4
  <2>7. \A i \in a..b : text[i] \in Chars
    BY <2>1, <2>6
  <2>8. SubSeq(text, a, b) \in Seq(Chars) /\ Len(SubSeq(text, a, b)) = b - a + 1
    BY <2>6, <2>7, SubSeqProperties
  <2>. QED BY <2>5, <2>6, <2>8
<1>. QED BY <1>1, <1>2

\* What a window of the text gives: at most one chunk, which is the window's, and one
\* whenever it has a character that is not blank and a chunk may be that short.
LEMMA ChunkIs ==
  ASSUME NEW Chars, NEW text \in Seq(Chars), NEW o \in Options(Chars), ~OptionsRefused(o),
         NEW from \in Nat, NEW end \in Nat, from < end, end <= Len(text)
  PROVE  LET c == Chunk(text, o, from, end)
         IN  \/ /\ c = <<>>
                /\ MinChunkSize(o) = 1 => \A p \in Ink(text) : p <= from \/ p > end
             \/ \E w \in ChunksOf(Chars) : /\ c = <<w>> /\ w.start = from /\ w.end = end
                                           /\ Len(w.text) >= MinChunkSize(o)
<1> DEFINE piece == Slice(text, from, end)
           trimmed == Strip(piece)
           w == [text |-> trimmed, start |-> from, end |-> end]
           m == MinChunkSize(o)
<1>1. /\ piece \in Seq(Chars) /\ DOMAIN piece = 1..(end - from)
      /\ \A i \in 1..(end - from) : piece[i] = text[from + i]
  <2>1. \A i \in (from + 1)..end : text[i] \in Chars
    OBVIOUS
  <2> DEFINE s == SubSeq(text, from + 1, end)
  <2>2. /\ s \in Seq(Chars) /\ Len(s) = end - from
        /\ \A i \in 1..(end - from) : s[i] = text[from + 1 + i - 1]
    <3>1. from + 1 \in Int /\ end \in Int /\ from + 1 <= end /\ end - (from + 1) + 1 = end - from
      OBVIOUS
    <3>2. /\ s \in Seq(Chars)
          /\ Len(s) = IF from + 1 <= end THEN end - (from + 1) + 1 ELSE 0
          /\ \A i \in 1..(end - (from + 1) + 1) : s[i] = text[from + 1 + i - 1]
      BY <2>1, <3>1, SubSeqProperties
    <3> HIDE DEF s
    <3>. QED BY <3>1, <3>2
  <2> HIDE DEF s
  <2>3. DOMAIN s = 1..(end - from)
    BY <2>2
  <2>4. \A i \in 1..(end - from) : from + 1 + i - 1 = from + i
    OBVIOUS
  <2>5. piece = s
    BY DEF Slice, s
  <2>. QED BY <2>2, <2>3, <2>4, <2>5
<1>2. m \in Int /\ m >= 1
  BY MinChunkSizeIsPositive
<1> HIDE DEF piece, m
<1>3. trimmed \in Seq(Chars) /\ (Ink(piece) # {} => Len(trimmed) >= 1) /\ Len(trimmed) \in Nat
  BY <1>1, StripIs
<1>4. Chunk(text, o, from, end) = IF Len(trimmed) >= m THEN <<w>> ELSE <<>>
  BY DEF Chunk, piece, m
<1>5. CASE Len(trimmed) >= m
  <2> HIDE DEF trimmed
  <2>1. w \in ChunksOf(Chars) /\ w.start = from /\ w.end = end /\ w.text = trimmed
    BY <1>3 DEF ChunksOf
  <2> HIDE DEF w
  <2>. QED BY <1>4, <1>5, <2>1 DEF m
<1>6. CASE ~(Len(trimmed) >= m)
  <2> HIDE DEF trimmed
  <2>1. m = 1 => Ink(piece) = {}
    BY <1>2, <1>3, <1>6
  <2>2. ASSUME m = 1, NEW p \in Ink(text), from < p, p <= end PROVE FALSE
    <3>1. p \in Nat /\ text[p] # Blank
      BY DEF Ink
    <3>2. p - from \in 1..(end - from) /\ from + (p - from) = p
      BY <2>2, <3>1
    <3>3. p - from \in Ink(piece)
      BY <1>1, <3>1, <3>2 DEF Ink
    <3>. QED BY <2>1, <2>2, <3>3
  <2>3. \A p \in Ink(text) : p \in Nat
    BY DEF Ink
  <2>4. m = 1 => \A p \in Ink(text) : p <= from \/ p > end
    BY <2>2, <2>3
  <2>5. Chunk(text, o, from, end) = <<>>
    BY <1>4, <1>6
  <2>. QED BY <2>4, <2>5 DEF m
<1>. QED BY <1>5, <1>6

\* The chunks of the windows from offset "from" on are no longer than asked for and long
\* enough, each begins after the one before it and shares at most the overlap with it,
\* and together they have what is not blank after the offset "above".
Chunked(s, Chars, text, o, from, above) ==
  /\ s \in Seq(ChunksOf(Chars))
  /\ \A i \in 1..Len(s) : /\ s[i].start >= from /\ s[i].end - s[i].start <= o.size
                          /\ Len(s[i].text) >= MinChunkSize(o)
  /\ \A i \in 2..Len(s) : /\ s[i].start > s[i - 1].start
                          /\ s[i].start >= s[i - 1].end - o.overlap
  /\ MinChunkSize(o) = 1 =>
       \A p \in Ink(text) : p > above => \E i \in 1..Len(s) : p \in (s[i].start + 1)..s[i].end

LEMMA WindowsStep ==
  ASSUME NEW Chars, NEW text \in Seq(Chars), NEW o \in Options(Chars), ~OptionsRefused(o),
         NEW from \in Nat, NEW end \in Nat, from < end, end <= Len(text), end <= from + o.size,
         NEW next \in Nat, from < next, next >= end - o.overlap,
         NEW t, Chunked(t, Chars, text, o, next, end)
  PROVE  Chunked(Chunk(text, o, from, end) \o t, Chars, text, o, from, from)
<1> DEFINE c == Chunk(text, o, from, end)
           s == c \o t
           m == MinChunkSize(o)
           size == o.size
           overlap == o.overlap
<1>1. m \in Int /\ m >= 1 /\ size \in Int /\ overlap \in Int
  BY MinChunkSizeIsPositive DEF Options
<1>2. /\ t \in Seq(ChunksOf(Chars))
      /\ \A i \in 1..Len(t) : t[i].start >= next /\ t[i].end - t[i].start <= size /\ Len(t[i].text) >= m
      /\ \A i \in 2..Len(t) : t[i].start > t[i - 1].start /\ t[i].start >= t[i - 1].end - overlap
      /\ m = 1 => \A p \in Ink(text) : p > end => \E i \in 1..Len(t) : p \in (t[i].start + 1)..t[i].end
  BY DEF Chunked
<1>3. /\ Len(t) \in Nat
      /\ \A i \in 1..Len(t) : t[i].start \in Nat /\ t[i].end \in Nat /\ t[i] \in ChunksOf(Chars)
  <2>1. \A i \in 1..Len(t) : t[i] \in ChunksOf(Chars)
    BY <1>2
  <2>. QED BY <1>2, <2>1 DEF ChunksOf
<1>4. \A p \in Ink(text) : p \in Nat
  BY DEF Ink
<1>5. SUFFICES Chunked(s, Chars, text, o, from, from)
  OBVIOUS
<1>6. CASE c = <<>> /\ (m = 1 => \A p \in Ink(text) : p <= from \/ p > end)
  <2>1. s = t
    BY <1>2, <1>6
  <2> HIDE DEF s, c, m, size, overlap
  <2>2. \A i \in 1..Len(t) : t[i].start >= from
    BY <1>2, <1>3
  <2>3. m = 1 => \A p \in Ink(text) : p > from => \E i \in 1..Len(t) : p \in (t[i].start + 1)..t[i].end
    BY <1>2, <1>4, <1>6
  <2>. QED BY <1>2, <2>1, <2>2, <2>3 DEF Chunked, m, size, overlap
<1>7. ASSUME NEW w \in ChunksOf(Chars), c = <<w>>, w.start = from, w.end = end, Len(w.text) >= m
      PROVE  Chunked(s, Chars, text, o, from, from)
  <2> DEFINE N == Len(s)
             M == Len(t)
  <2>1. /\ s \in Seq(ChunksOf(Chars)) /\ N = M + 1 /\ s[1] = w
        /\ \A i \in 2..N : s[i] = t[i - 1]
    <3>1. s = <<w>> \o t
      BY <1>7
    <3> HIDE DEF s
    <3>. QED BY <1>2, <1>3, <3>1
  <2> HIDE DEF s, c, m, size, overlap, N, M
  <2>2. /\ M \in Nat
        /\ \A i \in 1..N : i = 1 \/ (i \in 2..N /\ i - 1 \in 1..M)
        /\ \A i \in 1..M : i + 1 \in 2..N /\ i + 1 \in 1..N /\ (i + 1) - 1 = i
    BY <1>3, <2>1 DEF M
  <2>3. w.end - w.start <= size /\ w.start >= from /\ w.start \in Nat
    BY <1>1, <1>7 DEF size
  <2>4. ASSUME NEW i \in 1..N
        PROVE  s[i].start >= from /\ s[i].end - s[i].start <= size /\ Len(s[i].text) >= m
    <3>1. CASE i = 1
      BY <1>7, <2>1, <2>3, <3>1
    <3>2. CASE i \in 2..N /\ i - 1 \in 1..M
      <4>1. s[i] = t[i - 1] /\ t[i - 1].start \in Nat /\ t[i - 1].start >= next
        BY <1>2, <1>3, <2>1, <3>2 DEF M
      <4>. QED BY <1>2, <3>2, <4>1 DEF M
    <3>. QED BY <2>2, <3>1, <3>2
  <2>5. ASSUME NEW i \in 2..N
        PROVE  s[i].start > s[i - 1].start /\ s[i].start >= s[i - 1].end - overlap
    <3>1. CASE i = 2
      <4>1. s[i] = t[1] /\ s[i - 1] = w /\ 1 \in 1..M
        BY <2>1, <2>2, <3>1
      <4>2. t[1].start \in Nat /\ t[1].start >= next
        BY <1>2, <1>3, <4>1 DEF M
      <4>3. t[1].start > from /\ t[1].start >= end - overlap
        BY <1>1, <4>2 DEF overlap
      <4>. QED BY <1>7, <4>1, <4>3
    <3>2. CASE i # 2
      <4>1. i - 1 \in 2..N /\ i - 1 \in 2..M
        BY <2>1, <2>2, <3>2
      <4>2. s[i] = t[i - 1] /\ s[i - 1] = t[(i - 1) - 1]
        BY <2>1, <4>1
      <4>. QED BY <1>2, <4>1, <4>2 DEF M
    <3>. QED BY <3>1, <3>2
  <2>6. ASSUME m = 1, NEW p \in Ink(text), p > from
        PROVE  \E i \in 1..N : p \in (s[i].start + 1)..s[i].end
    <3>1. CASE p <= end
      <4>1. p \in (w.start + 1)..w.end /\ 1 \in 1..N
        BY <1>4, <1>7, <2>1, <2>2, <2>6, <3>1
      <4>. QED BY <2>1, <4>1
    <3>2. CASE p > end
      <4>1. PICK i \in 1..M : p \in (t[i].start + 1)..t[i].end
        BY <1>2, <2>6, <3>2 DEF M
      <4>2. i + 1 \in 1..N /\ s[i + 1] = t[i]
        <5>1. i + 1 \in 2..N /\ i + 1 \in 1..N /\ (i + 1) - 1 = i
          BY <2>2
        <5>. QED BY <2>1, <5>1
      <4>. QED BY <4>1, <4>2
    <3>. QED BY <1>4, <3>1, <3>2
  <2>. QED BY <2>1, <2>4, <2>5, <2>6 DEF Chunked, m, size, overlap, N
<1>8. \/ c = <<>> /\ (m = 1 => \A p \in Ink(text) : p <= from \/ p > end)
      \/ \E w \in ChunksOf(Chars) : c = <<w>> /\ w.start = from /\ w.end = end /\ Len(w.text) >= m
  BY ChunkIs
<1> HIDE DEF s, c, m
<1>. QED BY <1>6, <1>7, <1>8

\* The loop of the windows, as the recursion of Windows has it.
WindowsLoop(f, text, o) ==
  f = [from \in 0..Len(text) |->
         IF from >= Len(text) THEN <<>>
         ELSE LET end == WindowEnd(text, o, from)
              IN  Chunk(text, o, from, end)
                  \o IF end >= Len(text) THEN <<>> ELSE f[NextWindow(o, from, end)]]

LEMMA WindowsAreCollected ==
  ASSUME NEW text, NEW o, NEW f, WindowsLoop(f, text, o)
  PROVE  \E g : WindowsLoop(g, text, o) /\ Windows(text, o) = g[0]
BY DEF Windows, WindowsLoop

\* What WindowsTouch says, with a name for the end of each window and for the next one.
WindowsGoOn(text, o, end, next) ==
  \A from \in 0..(Len(text) - 1) :
    /\ end[from] \in (from + 1)..Len(text) /\ end[from] <= from + o.size
    /\ next[from] \in (from + 1)..end[from] /\ next[from] >= end[from] - o.overlap

EndOf(text, o) == [from \in 0..Len(text) |-> WindowEnd(text, o, from)]
NextOf(text, o) == [from \in 0..Len(text) |-> NextWindow(o, from, WindowEnd(text, o, from))]

LEMMA WindowsGoOnHolds ==
  ASSUME NEW Chars, NEW text \in Seq(Chars), NEW o \in Options(Chars), ~OptionsRefused(o)
  PROVE  WindowsGoOn(text, o, EndOf(text, o), NextOf(text, o))
<1> SUFFICES ASSUME NEW from \in 0..(Len(text) - 1)
             PROVE  /\ EndOf(text, o)[from] \in (from + 1)..Len(text)
                    /\ EndOf(text, o)[from] <= from + o.size
                    /\ NextOf(text, o)[from] \in (from + 1)..EndOf(text, o)[from]
                    /\ NextOf(text, o)[from] >= EndOf(text, o)[from] - o.overlap
  BY DEF WindowsGoOn
<1> DEFINE end == WindowEnd(text, o, from)
           next == NextWindow(o, from, end)
<1>1. end \in (from + 1)..Len(text) /\ end <= from + o.size /\ next \in (from + 1)..end
  BY WindowsTouch
<1>2. o.overlap \in Int /\ o.overlap >= 0
  BY DEF Options, OptionsRefused
<1>3. next = IF end - o.overlap <= from THEN end ELSE end - o.overlap
  BY DEF NextWindow
<1>4. from \in 0..Len(text)
  OBVIOUS
<1>5. EndOf(text, o)[from] = end /\ NextOf(text, o)[from] = next
  BY <1>4 DEF EndOf, NextOf
<1> HIDE DEF end, next
<1>6. next >= end - o.overlap
  BY <1>1, <1>2, <1>3
<1>. QED BY <1>1, <1>5, <1>6

LEMMA WindowsLoopEnds ==
  ASSUME NEW Chars, NEW text \in Seq(Chars), NEW o \in Options(Chars), ~OptionsRefused(o)
  PROVE  \E f : WindowsLoop(f, text, o)
<1> DEFINE n == Len(text)
           S == ChunksOf(Chars)
           end == EndOf(text, o)
           next == NextOf(text, o)
           first == [i \in 0..n |-> IF i >= n THEN <<>> ELSE Chunk(text, o, i, end[i])]
           last == {i \in 0..n : i >= n \/ end[i] >= n}
<1>1. n \in Nat /\ \A i \in 0..n : i = n \/ i \in 0..(n - 1)
  OBVIOUS
<1>2. \A i \in 0..(n - 1) : end[i] \in (i + 1)..n /\ next[i] \in (i + 1)..end[i]
  BY WindowsGoOnHolds DEF WindowsGoOn
<1>3. ASSUME NEW i \in 0..n PROVE first[i] \in Seq(S)
  <2>1. CASE i = n
    <3>1. first[i] = <<>>
      BY <2>1, <1>1
    <3> HIDE DEF first, S
    <3>. QED BY <3>1
  <2>2. CASE i \in 0..(n - 1)
    <3> DEFINE c == Chunk(text, o, i, end[i])
    <3>1. first[i] = c
      BY <2>2
    <3>2. i \in Nat /\ end[i] \in Nat /\ i < end[i] /\ end[i] <= n
      BY <1>1, <1>2, <2>2
    <3> HIDE DEF first, end
    <3>3. c = <<>> \/ \E w \in S : c = <<w>>
      BY <3>2, ChunkIs
    <3> HIDE DEF c, S
    <3>4. c \in Seq(S)
      <4>1. CASE c = <<>>
        BY <4>1
      <4>2. ASSUME NEW w \in S, c = <<w>> PROVE c \in Seq(S)
        BY <4>2
      <4>. QED BY <3>3, <4>1, <4>2
    <3>. QED BY <3>1, <3>4
  <2>. QED BY <1>1, <2>1, <2>2
<1>4. ASSUME NEW i \in 0..n PROVE i \in last \/ next[i] \in (i + 1)..n
  <2>1. i = n => i \in last
    OBVIOUS
  <2> HIDE DEF next, last, end
  <2>. QED BY <1>1, <1>2, <2>1
<1> HIDE DEF S, first, last, next, end, n
<1>5. PICK f : Collects(f, S, 0, n, first, last, next)
  BY <1>1, <1>3, <1>4, LoopCollects
<1>6. f \in [0..n -> Seq(S)] /\ \A i \in 0..n : f[i] = first[i] \o IF i \in last THEN <<>> ELSE f[next[i]]
  BY <1>5 DEF Collects
<1> DEFINE body(i) == IF i >= n THEN <<>>
                      ELSE Chunk(text, o, i, end[i]) \o IF end[i] >= n THEN <<>> ELSE f[next[i]]
<1>7. ASSUME NEW i \in 0..n PROVE f[i] = body(i)
  <2>1. CASE i >= n
    <3>1. first[i] = <<>> /\ i \in last
      BY <2>1 DEF first, last
    <3>2. f[i] = <<>> \o <<>>
      BY <1>6, <3>1
    <3>. QED BY <2>1, <3>2
  <2>2. CASE ~(i >= n)
    <3>1. first[i] = Chunk(text, o, i, end[i]) /\ (i \in last <=> end[i] >= n)
      BY <2>2 DEF first, last
    <3>. QED BY <1>6, <2>2, <3>1
  <2>. QED BY <2>1, <2>2
<1>8. \A i \in 0..n : end[i] = WindowEnd(text, o, i) /\ next[i] = NextWindow(o, i, WindowEnd(text, o, i))
  BY DEF end, next, n, EndOf, NextOf
<1>9. f = [i \in 0..n |-> body(i)]
  <2>1. f = [i \in 0..n |-> f[i]]
    BY <1>6
  <2> HIDE DEF body
  <2>. QED BY <1>7, <2>1
<1>10. WindowsLoop(f, text, o)
  BY <1>8, <1>9 DEF WindowsLoop, n
<1>. QED BY <1>10

\* For any text and options that are accepted, what is not blank is in a chunk when a
\* chunk may be a single character, no chunk of chunk_text_with_metadata() is longer than
\* asked for, none of several is shorter, and each begins after the one before it and
\* shares at most the overlap with it.
THEOREM ChunksCoverAll ==
  ASSUME NEW Chars, NEW text \in Seq(Chars), NEW o \in Options(Chars), text = <<>> \/ ~OptionsRefused(o)
  PROVE  ChunksCover(text, o, ChunkText(text, o))
<1> DEFINE n == Len(text)
<1>1. n \in Nat /\ \A p \in Ink(text) : p \in 1..n
  BY DEF Ink
<1>2. CASE text = <<>>
  <2>1. ChunkText(text, o) = <<>> /\ Ink(text) = {}
    BY <1>2 DEF ChunkText, Ink
  <2>. QED BY <2>1 DEF ChunksCover
<1>3. CASE text # <<>> /\ n <= o.size
  <2> DEFINE w == [text |-> Strip(text), start |-> 0, end |-> n]
             c == ChunkText(text, o)
  <2>1. c = <<w>>
    BY <1>3 DEF ChunkText
  <2>2. w.start = 0 /\ w.end = n
    OBVIOUS
  <2> HIDE DEF w, c
  <2>3. DOMAIN c = {1} /\ Len(c) = 1 /\ c[1] = w
    BY <2>1
  <2>4. /\ 2..Len(c) = {} /\ o.size \in Int /\ ~(n > o.size)
        /\ \A p \in Ink(text) : p \in (0 + 1)..n
    BY <1>1, <1>3, <2>3 DEF Options
  <2>5. w.end - w.start <= o.size
    BY <1>1, <1>3, <2>2
  <2>. QED BY <2>2, <2>3, <2>4, <2>5 DEF ChunksCover, c
<1>4. CASE text # <<>> /\ ~(n <= o.size)
  <2>0. ~OptionsRefused(o)
    BY <1>4
  <2>1. PICK f : WindowsLoop(f, text, o) /\ Windows(text, o) = f[0]
    BY <2>0, WindowsLoopEnds, WindowsAreCollected
  <2> DEFINE end == EndOf(text, o)
             next == NextOf(text, o)
  <2>2. WindowsGoOn(text, o, end, next)
    BY <2>0, WindowsGoOnHolds
  <2> DEFINE T == {m \in 0..n : m < n => Chunked(f[m], Chars, text, o, m, m)}
  <2>3. ASSUME NEW m \in 0..n, \A k \in (m + 1)..n : k \in T
        PROVE  m \in T
    <3>1. SUFFICES ASSUME m < n PROVE Chunked(f[m], Chars, text, o, m, m)
      OBVIOUS
    <3> DEFINE e == end[m]
               k == next[m]
               t == IF e >= n THEN <<>> ELSE f[k]
    <3>2. f[m] = Chunk(text, o, m, e) \o t
      <4>1. m \in 0..n /\ ~(m >= n)
        BY <1>1, <3>1
      <4>2. e = WindowEnd(text, o, m) /\ k = NextWindow(o, m, WindowEnd(text, o, m))
        BY <4>1 DEF EndOf, NextOf
      <4> HIDE DEF e, k
      <4>3. f[m] = Chunk(text, o, m, e) \o IF e >= n THEN <<>> ELSE f[k]
        BY <2>1, <4>1, <4>2 DEF WindowsLoop
      <4>. QED BY <4>3
    <3>3. /\ e \in (m + 1)..n /\ e <= m + o.size /\ k \in (m + 1)..e /\ k >= e - o.overlap
      <4>1. m \in 0..(n - 1)
        BY <1>1, <3>1
      <4> HIDE DEF end, next
      <4>. QED BY <2>2, <4>1 DEF WindowsGoOn
    <3> HIDE DEF e, k
    <3>4. m \in Nat /\ e \in Nat /\ k \in Nat /\ m < e /\ m < k /\ e <= n /\ k <= e
      BY <1>1, <3>3
    <3>5. Chunked(t, Chars, text, o, k, e)
      <4>1. CASE e >= n
        <5>1. t = <<>> /\ \A p \in Ink(text) : ~(p > e)
          BY <1>1, <3>4, <4>1
        <5>2. <<>> \in Seq(ChunksOf(Chars)) /\ 1..Len(<<>>) = {} /\ 2..Len(<<>>) = {}
          OBVIOUS
        <5> HIDE DEF t
        <5>. QED BY <5>1, <5>2 DEF Chunked
      <4>2. CASE ~(e >= n)
        <5>1. t = f[k] /\ k \in (m + 1)..n /\ k < n
          BY <1>1, <3>4, <4>2
        <5>2. Chunked(f[k], Chars, text, o, k, k)
          BY <2>3, <5>1
        <5>3. \A p \in Ink(text) : p > e => p > k
          BY <1>1, <3>4
        <5> HIDE DEF t
        <5>. QED BY <5>1, <5>2, <5>3 DEF Chunked
      <4>. QED BY <4>1, <4>2
    <3> HIDE DEF t
    <3>6. Chunked(Chunk(text, o, m, e) \o t, Chars, text, o, m, m)
      BY <2>0, <3>3, <3>4, <3>5, WindowsStep DEF n
    <3>. QED BY <3>2, <3>6
  <2> HIDE DEF T
  <2>4. 0 \in T
    <3>1. \A m \in 0..n : m \in T
      <4> HIDE DEF n
      <4>. QED BY <1>1, <2>3, NumbersDownFrom
    <3>. QED BY <1>1, <3>1
  <2>5. 0 < n
    BY <1>4
  <2>6. Chunked(f[0], Chars, text, o, 0, 0) /\ ChunkText(text, o) = f[0]
    BY <1>4, <2>1, <2>4, <2>5 DEF T, ChunkText
  <2> DEFINE c == f[0]
  <2>7. c \in Seq(ChunksOf(Chars)) /\ DOMAIN c = 1..Len(c) /\ \A p \in Ink(text) : p > 0
    BY <1>1, <2>6 DEF Chunked
  <2> HIDE DEF c
  <2>8. ChunksCover(text, o, c)
    BY <2>6, <2>7 DEF c, ChunksCover, Chunked
  <2>. QED BY <2>6, <2>8 DEF c
<1>. QED BY <1>2, <1>3, <1>4

-----------------------------------------------------------------------------
(* ListWalk.  The backend's list is in two parts, before the cursor and     *)
(* after it.                                                                *)

Below(s, n) == {s[i] : i \in {j \in 1..Len(s) : j <= n}}
Beyond(s, n) == {s[i] : i \in {j \in 1..Len(s) : j > n}}

\* What the walk has passed without being handed it, and what it will get again.
Missed == Below(rows, Offset) \ (added \cup seen)
Coming == Beyond(rows, Offset) \cap seen

WalkTypes ==
  /\ rows \in Seq(Memories) /\ IsInjective(rows)
  /\ limit \in Limits \cup {None} /\ cursor \in Nat \cup {None}
  /\ repeats \in Nat
  /\ IsFiniteSet(added) /\ IsFiniteSet(deleted)
  /\ deleted \cap ToSet(rows) = {}
  /\ added \subseteq ToSet(rows) \cup deleted

\* mem0 reads its own cursors as it made them as long as the page size is the same.
WalkAligned ==
  kind = "mem0" /\ cursor # None => limit # None /\ \E q \in Nat : cursor = q * limit

\* Each memory that was missed was pushed below the cursor by a deletion, each that was or
\* will be handed out again was pushed beyond it by an addition.
WalkCounts ==
  IF over
    THEN /\ Cardinality(ToSet(rows) \ (added \cup seen)) <= Cardinality(deleted)
         /\ repeats <= Cardinality(added)
    ELSE /\ Cardinality(Missed) <= Cardinality(deleted)
         /\ repeats + Cardinality(Coming) <= Cardinality(added)

WalkInv == WalkTypes /\ WalkAligned /\ WalkCounts

LEMMA SetsOfSeq ==
  ASSUME NEW T, NEW s \in Seq(T), NEW n \in Nat
  PROVE  /\ ToSet(s) = {s[i] : i \in 1..Len(s)} /\ IsFiniteSet(ToSet(s))
         /\ ToSet(s) = Below(s, n) \cup Beyond(s, n)
<1>1. DOMAIN s = 1..Len(s) /\ Len(s) \in Nat /\ s \in [1..Len(s) -> T]
  BY LenProperties
<1>2. ToSet(s) = {s[i] : i \in 1..Len(s)}
  BY <1>1 DEF ToSet
<1>3. IsFiniteSet(ToSet(s))
  <2>1. s \in [1..Len(s) -> ToSet(s)]
    BY <1>1, <1>2
  <2>2. \A x \in ToSet(s) : \E i \in 1..Len(s) : s[i] = x
    BY <1>2
  <2>3. s \in Surjection(1..Len(s), ToSet(s))
    BY <1>1, <1>2, <2>1 DEF Surjection, Range
  <2>4. ExistsSurjection(1..Len(s), ToSet(s))
    BY <2>3 DEF ExistsSurjection
  <2>. QED BY <1>1, <2>4, FS_NatSurjection
<1>4. ToSet(s) = Below(s, n) \cup Beyond(s, n)
  BY <1>1, <1>2 DEF Below, Beyond
<1>. QED BY <1>2, <1>3, <1>4

LEMMA OneMoreAtMost ==
  ASSUME NEW S, IsFiniteSet(S), NEW x, NEW T, T \subseteq S \cup {x}
  PROVE  IsFiniteSet(T) /\ Cardinality(T) \in Nat /\ Cardinality(T) <= Cardinality(S) + 1
<1>1. /\ IsFiniteSet(S \cup {x}) /\ Cardinality(S) \in Nat
      /\ Cardinality(S \cup {x}) <= Cardinality(S) + 1
  <2>1. IsFiniteSet(S \cup {x}) /\ Cardinality(S \cup {x}) \in {Cardinality(S), Cardinality(S) + 1}
    BY FS_AddElement
  <2>2. Cardinality(S) \in Nat
    BY FS_CardinalityType
  <2>. QED BY <2>1, <2>2
<1>2. IsFiniteSet(T) /\ Cardinality(T) <= Cardinality(S \cup {x})
  BY <1>1, FS_Subset
<1>3. Cardinality(T) \in Nat /\ Cardinality(S \cup {x}) \in Nat
  BY <1>1, <1>2, FS_CardinalityType
<1>. QED BY <1>1, <1>2, <1>3

\* A memory is added first or last.
Added(s, m) == {<<m>> \o s, Append(s, m)}

LEMMA RowAdded ==
  ASSUME NEW T, NEW s \in Seq(T), IsInjective(s), NEW m \in T, m \notin ToSet(s),
         NEW t \in Added(s, m), NEW n \in Nat
  PROVE  /\ t \in Seq(T) /\ IsInjective(t) /\ ToSet(t) = ToSet(s) \cup {m}
         /\ Below(t, n) \subseteq Below(s, n) \cup {m}
         /\ \E x : Beyond(t, n) \subseteq Beyond(s, n) \cup {x}
<1>1. /\ Len(s) \in Nat /\ DOMAIN s = 1..Len(s)
      /\ \A i \in 1..Len(s) : s[i] \in ToSet(s) /\ s[i] \in T
  BY SetsOfSeq, ElementOfSeq, LenProperties
<1>2. \A i, j \in 1..Len(s) : s[i] = s[j] => i = j
  BY <1>1 DEF IsInjective
<1>3. CASE t = <<m>> \o s
  <2>1. /\ t \in Seq(T) /\ Len(t) = Len(s) + 1 /\ t[1] = m
        /\ \A i \in 1..Len(s) : t[i + 1] = s[i]
    <3>1. <<m>> \in Seq(T) /\ Len(<<m>>) = 1 /\ <<m>>[1] = m
      OBVIOUS
    <3>. QED BY <1>1, <1>3, <3>1
  <2>2. \A i \in 1..Len(t) : i = 1 \/ (i - 1 \in 1..Len(s) /\ t[i] = s[i - 1])
    BY <1>1, <2>1
  <2>3. \A i \in 1..Len(s) : i + 1 \in 1..Len(t)
    BY <1>1, <2>1
  <2>4. 1 \in 1..Len(t) /\ DOMAIN t = 1..Len(t)
    BY <1>1, <2>1
  <2>5. IsInjective(t)
    <3>1. ASSUME NEW i \in 1..Len(t), NEW j \in 1..Len(t), t[i] = t[j] PROVE i = j
      <4>1. CASE i = 1 \/ j = 1
        BY <1>1, <2>1, <2>2, <3>1, <4>1
      <4>2. CASE i # 1 /\ j # 1
        <5>1. i - 1 = j - 1
          BY <1>2, <2>2, <3>1, <4>2
        <5>. QED BY <5>1
      <4>. QED BY <4>1, <4>2
    <3>. QED BY <2>4, <3>1 DEF IsInjective
  <2>6. ToSet(t) = ToSet(s) \cup {m}
    <3>1. ToSet(t) = {t[i] : i \in 1..Len(t)} /\ ToSet(s) = {s[i] : i \in 1..Len(s)}
      BY <2>1, SetsOfSeq
    <3>2. \A x \in ToSet(t) : x \in ToSet(s) \cup {m}
      <4>1. \A i \in 1..Len(t) : t[i] = m \/ t[i] \in ToSet(s)
        BY <1>1, <2>1, <2>2
      <4>. QED BY <3>1, <4>1
    <3>3. \A x \in ToSet(s) \cup {m} : x \in ToSet(t)
      BY <2>1, <2>3, <2>4, <3>1
    <3>. QED BY <3>2, <3>3
  <2>7. Below(t, n) \subseteq Below(s, n) \cup {m}
    <3>1. \A i \in 1..Len(t) : i <= n => t[i] = m \/ (i - 1 \in 1..Len(s) /\ i - 1 <= n /\ t[i] = s[i - 1])
      BY <1>1, <2>1, <2>2
    <3>. QED BY <3>1 DEF Below
  <2>8. \E x : Beyond(t, n) \subseteq Beyond(s, n) \cup {x}
    <3>1. \A i \in 1..Len(t) : i > n => i = n + 1 \/ (i - 1 > n /\ i - 1 \in 1..Len(s) /\ t[i] = s[i - 1])
      BY <1>1, <2>1, <2>2
    <3>2. Beyond(t, n) \subseteq Beyond(s, n) \cup {t[n + 1]}
      BY <3>1 DEF Beyond
    <3>. QED BY <3>2
  <2>. QED BY <2>1, <2>5, <2>6, <2>7, <2>8
<1>4. CASE t = Append(s, m)
  <2>1. /\ t \in Seq(T) /\ Len(t) = Len(s) + 1 /\ t[Len(s) + 1] = m
        /\ \A i \in 1..Len(s) : t[i] = s[i]
    BY <1>4, AppendProperties
  <2>2. \A i \in 1..Len(t) : i = Len(s) + 1 \/ (i \in 1..Len(s) /\ t[i] = s[i])
    BY <1>1, <2>1
  <2>3. \A i \in 1..Len(s) : i \in 1..Len(t)
    BY <1>1, <2>1
  <2>4. Len(s) + 1 \in 1..Len(t) /\ DOMAIN t = 1..Len(t)
    BY <1>1, <2>1
  <2>5. IsInjective(t)
    BY <1>1, <1>2, <2>1, <2>2, <2>4 DEF IsInjective
  <2>6. ToSet(t) = ToSet(s) \cup {m}
    <3>1. ToSet(t) = {t[i] : i \in 1..Len(t)} /\ ToSet(s) = {s[i] : i \in 1..Len(s)}
      BY <2>1, SetsOfSeq
    <3>2. \A x \in ToSet(t) : x \in ToSet(s) \cup {m}
      BY <2>1, <2>2, <3>1
    <3>3. \A x \in ToSet(s) \cup {m} : x \in ToSet(t)
      BY <2>1, <2>3, <2>4, <3>1
    <3>. QED BY <3>2, <3>3
  <2>7. Below(t, n) \subseteq Below(s, n) \cup {m}
    BY <2>1, <2>2 DEF Below
  <2>8. Beyond(t, n) \subseteq Beyond(s, n) \cup {m}
    BY <2>1, <2>2 DEF Beyond
  <2>. QED BY <2>1, <2>5, <2>6, <2>7, <2>8
<1>. QED BY <1>3, <1>4 DEF Added

\* A memory is deleted.
LEMMA RowDeleted ==
  ASSUME NEW T, NEW s \in Seq(T), IsInjective(s), NEW d \in DOMAIN s, NEW t, t = RemoveAt(s, d), NEW n \in Nat
  PROVE  /\ t \in Seq(T) /\ IsInjective(t) /\ ToSet(t) = ToSet(s) \ {s[d]}
         /\ Beyond(t, n) \subseteq Beyond(s, n)
         /\ \E x : Below(t, n) \subseteq Below(s, n) \cup {x}
<1>1. /\ Len(s) \in Nat /\ DOMAIN s = 1..Len(s) /\ d \in 1..Len(s)
      /\ \A i \in 1..Len(s) : s[i] \in T
  BY ElementOfSeq, LenProperties
<1>2. \A i, j \in 1..Len(s) : s[i] = s[j] => i = j
  BY <1>1 DEF IsInjective
<1>3. /\ t \in Seq(T) /\ Len(t) = Len(s) - 1
      /\ \A i \in 1..Len(t) : t[i] = IF i < d THEN s[i] ELSE s[i + 1]
  <2> DEFINE a == SubSeq(s, 1, d - 1)
             b == SubSeq(s, d + 1, Len(s))
  <2>1. /\ a \in Seq(T) /\ Len(a) = d - 1 /\ \A i \in 1..(d - 1) : a[i] = s[i]
    BY <1>1
  <2>2. /\ b \in Seq(T) /\ Len(b) = Len(s) - d /\ \A i \in 1..(Len(s) - d) : b[i] = s[d + i]
    <3>1. \A i \in (d + 1)..Len(s) : s[i] \in T
      BY <1>1
    <3>2. /\ b \in Seq(T) /\ Len(b) = IF d + 1 <= Len(s) THEN Len(s) - (d + 1) + 1 ELSE 0
          /\ \A i \in 1..(Len(s) - (d + 1) + 1) : b[i] = s[(d + 1) + i - 1]
      BY <1>1, <3>1, SubSeqProperties
    <3> HIDE DEF b
    <3>3. \A i \in 1..(Len(s) - d) : i \in 1..(Len(s) - (d + 1) + 1) /\ (d + 1) + i - 1 = d + i
      BY <1>1
    <3>. QED BY <1>1, <3>2, <3>3
  <2>3. t = a \o b
    BY DEF RemoveAt
  <2> HIDE DEF a, b
  <2>4. /\ t \in Seq(T) /\ Len(t) = Len(a) + Len(b)
        /\ \A i \in 1..Len(t) : t[i] = IF i <= Len(a) THEN a[i] ELSE b[i - Len(a)]
    <3>1. a \in Seq(T) /\ b \in Seq(T)
      BY <2>1, <2>2
    <3>2. t \in Seq(T) /\ Len(t) = Len(a) + Len(b)
      BY <2>3, <3>1, ConcatProperties
    <3>3. \A i \in 1..(Len(a) + Len(b)) : t[i] = IF i <= Len(a) THEN a[i] ELSE b[i - Len(a)]
      BY <2>3, <3>1, ConcatProperties
    <3>. QED BY <3>2, <3>3
  <2>5. \A i \in 1..Len(t) : t[i] = IF i < d THEN s[i] ELSE s[i + 1]
    <3>1. ASSUME NEW i \in 1..Len(t) PROVE t[i] = IF i < d THEN s[i] ELSE s[i + 1]
      <4>1. CASE i < d
        BY <1>1, <2>1, <2>4, <4>1
      <4>2. CASE ~(i < d)
        <5>1. i - (d - 1) \in 1..(Len(s) - d) /\ d + (i - (d - 1)) = i + 1
          BY <1>1, <2>1, <2>2, <2>4, <4>2
        <5>2. t[i] = b[i - (d - 1)]
          BY <1>1, <2>1, <2>4, <4>2
        <5>. QED BY <2>2, <4>2, <5>1, <5>2
      <4>. QED BY <4>1, <4>2
    <3>. QED BY <3>1
  <2>. QED BY <1>1, <2>1, <2>2, <2>4, <2>5
<1>4. DOMAIN t = 1..Len(t) /\ Len(t) \in Nat
  BY <1>3
<1>5. \A i \in 1..Len(t) : /\ i < d => i \in 1..Len(s) /\ i # d /\ t[i] = s[i]
                           /\ ~(i < d) => i + 1 \in 1..Len(s) /\ i + 1 # d /\ t[i] = s[i + 1]
  BY <1>1, <1>3
<1>6. \A i \in 1..Len(s) : /\ i < d => i \in 1..Len(t) /\ t[i] = s[i]
                           /\ i > d => i - 1 \in 1..Len(t) /\ t[i - 1] = s[i]
  BY <1>1, <1>3
<1>7. IsInjective(t)
  <2>1. ASSUME NEW i \in 1..Len(t), NEW j \in 1..Len(t), t[i] = t[j] PROVE i = j
    <3>1. CASE i < d /\ j < d
      BY <1>2, <1>5, <2>1, <3>1
    <3>2. CASE i < d /\ ~(j < d)
      <4>1. i = j + 1
        BY <1>2, <1>5, <2>1, <3>2
      <4>. QED BY <1>1, <3>2, <4>1
    <3>3. CASE ~(i < d) /\ j < d
      <4>1. i + 1 = j
        BY <1>2, <1>5, <2>1, <3>3
      <4>. QED BY <1>1, <3>3, <4>1
    <3>4. CASE ~(i < d) /\ ~(j < d)
      <4>1. i + 1 = j + 1
        BY <1>2, <1>5, <2>1, <3>4
      <4>. QED BY <4>1
    <3>. QED BY <3>1, <3>2, <3>3, <3>4
  <2>. QED BY <1>4, <2>1 DEF IsInjective
<1>8. ToSet(t) = ToSet(s) \ {s[d]}
  <2>1. ToSet(t) = {t[i] : i \in 1..Len(t)} /\ ToSet(s) = {s[i] : i \in 1..Len(s)}
    BY <1>3, SetsOfSeq
  <2>2. ASSUME NEW i \in 1..Len(t) PROVE t[i] \in ToSet(s) /\ t[i] # s[d]
    <3>1. PICK j \in 1..Len(s) : t[i] = s[j] /\ j # d
      <4>1. CASE i < d
        BY <1>1, <1>5, <4>1
      <4>2. CASE ~(i < d)
        <5>1. i + 1 # d
          BY <1>1, <4>2
        <5>. QED BY <1>5, <4>2, <5>1
      <4>. QED BY <4>1, <4>2
    <3>2. s[j] # s[d]
      BY <1>1, <1>2, <3>1
    <3>. QED BY <2>1, <3>1, <3>2
  <2>3. ASSUME NEW i \in 1..Len(s), s[i] # s[d] PROVE s[i] \in ToSet(t)
    <3>1. i < d \/ i > d
      BY <1>1, <2>3
    <3>. QED BY <1>6, <2>1, <3>1
  <2>4. ToSet(t) \subseteq ToSet(s) \ {s[d]}
    BY <2>1, <2>2
  <2>5. ToSet(s) \ {s[d]} \subseteq ToSet(t)
    BY <2>1, <2>3
  <2>. QED BY <2>4, <2>5
<1>9. Beyond(t, n) \subseteq Beyond(s, n)
  <2>1. \A i \in 1..Len(t) : i > n => \E j \in 1..Len(s) : j > n /\ t[i] = s[j]
    BY <1>5
  <2>. QED BY <2>1 DEF Beyond
<1>10. \E x : Below(t, n) \subseteq Below(s, n) \cup {x}
  <2>1. \A i \in 1..Len(t) : i <= n => (\E j \in 1..Len(s) : j <= n /\ t[i] = s[j]) \/ i = n
    BY <1>5
  <2>2. Below(t, n) \subseteq Below(s, n) \cup {t[n]}
    BY <2>1 DEF Below
  <2>. QED BY <2>2
<1>. QED BY <1>3, <1>7, <1>8, <1>9, <1>10

\* A page is what follows its start, as far as the page or the list goes.
LEMMA PageIs ==
  ASSUME WalkTypes, NEW l \in Limits, NEW start \in Nat
  PROVE  LET page == Page(start, l)
             n == Len(page)
         IN /\ page \in Seq(Memories) /\ n \in Nat
            /\ ToSet(page) = {rows[i] : i \in {j \in 1..Len(rows) : start < j /\ j <= start + n}}
            /\ n <= l /\ (n < l => start + n >= Len(rows)) /\ (start < Len(rows) => start + n <= Len(rows))
<1> DEFINE end == Min({start + l, Len(rows)})
           page == Page(start, l)
           n == Len(page)
<1>1. /\ l \in Nat /\ l > 0 /\ Len(rows) \in Nat /\ rows \in Seq(Memories)
      /\ \A i \in 1..Len(rows) : rows[i] \in Memories
  BY LimitsAssumption, LenProperties, ElementOfSeq DEF WalkTypes
<1>2. end \in Nat /\ end <= start + l /\ end <= Len(rows) /\ end \in {start + l, Len(rows)}
  <2> DEFINE S == {start + l, Len(rows)}
  <2>1. S \subseteq Nat /\ S # {}
    BY <1>1
  <2>2. end \in S /\ \A y \in S : end <= y
    BY <2>1, MinIsLeast
  <2>. QED BY <2>1, <2>2
<1> HIDE DEF end
<1>3. /\ page \in Seq(Memories) /\ n = IF start + 1 <= end THEN end - (start + 1) + 1 ELSE 0
      /\ \A i \in 1..(end - (start + 1) + 1) : page[i] = rows[(start + 1) + i - 1]
  <2>1. \A i \in (start + 1)..end : rows[i] \in Memories
    BY <1>1, <1>2
  <2>2. page = SubSeq(rows, start + 1, end)
    BY DEF Page, end
  <2> HIDE DEF page
  <2>3. start + 1 \in Int /\ end \in Int
    BY <1>2
  <2>. QED BY <2>1, <2>2, <2>3, SubSeqProperties
<1> HIDE DEF page
<1>4. /\ n \in Nat /\ n <= l /\ (n < l => start + n >= Len(rows)) /\ (start < Len(rows) => start + n <= Len(rows))
      /\ n > 0 => start + n <= Len(rows)
  BY <1>1, <1>2, <1>3
<1>5. ToSet(page) = {rows[i] : i \in {j \in 1..Len(rows) : start < j /\ j <= start + n}}
  <2>1. ToSet(page) = {page[i] : i \in 1..n}
    BY <1>3, SetsOfSeq
  <2>2. \A i \in 1..n : /\ page[i] = rows[start + i] /\ start + i \in 1..Len(rows)
                        /\ start < start + i /\ start + i <= start + n
    <3>1. ASSUME NEW i \in 1..n PROVE page[i] = rows[start + i]
      <4>1. i \in 1..(end - (start + 1) + 1)
        BY <1>2, <1>3, <1>4
      <4>2. (start + 1) + i - 1 = start + i
        BY <4>1
      <4>. QED BY <1>3, <4>1, <4>2
    <3>2. \A i \in 1..n : start + i \in 1..Len(rows) /\ start < start + i /\ start + i <= start + n
      BY <1>1, <1>4
    <3>. QED BY <3>1, <3>2
  <2>3. \A j \in 1..Len(rows) : start < j /\ j <= start + n => j - start \in 1..n /\ start + (j - start) = j
    BY <1>1, <1>4
  <2> DEFINE R == {rows[i] : i \in {j \in 1..Len(rows) : start < j /\ j <= start + n}}
  <2> HIDE DEF n
  <2>4. \A x \in ToSet(page) : x \in R
    BY <2>1, <2>2
  <2>5. ASSUME NEW j \in 1..Len(rows), start < j, j <= start + n PROVE rows[j] \in ToSet(page)
    <3>1. j - start \in 1..n /\ page[j - start] = rows[j]
      BY <2>2, <2>3, <2>5
    <3>. QED BY <2>1, <3>1
  <2>. QED BY <2>4, <2>5
<1>. QED BY <1>3, <1>4, <1>5 DEF page

\* A page from the cursor on, with a cursor behind it or else the end of the list.
LEMMA PageCounted ==
  ASSUME WalkTypes, WalkCounts, ~over, NEW l \in Limits, NEW next,
         Returned(Page(Offset, l), next, l),
         LET n == Len(Page(Offset, l))
         IN next = Offset + n \/ (next = None /\ Offset + n >= Len(rows))
  PROVE  WalkTypes' /\ WalkCounts'
<1> DEFINE o == Offset
           page == Page(o, l)
           n == Len(page)
           P == ToSet(page)
<1>1. o \in Nat /\ rows \in Seq(Memories) /\ IsInjective(rows) /\ Len(rows) \in Nat
  BY LenProperties DEF Offset, WalkTypes
<1>2. /\ seen' = seen \cup P /\ repeats' = repeats + Cardinality(P \cap seen)
      /\ cursor' = next /\ over' = (next = None) /\ limit' = l
      /\ rows' = rows /\ added' = added /\ deleted' = deleted
  BY DEF Returned
<1>3. n \in Nat /\ P = {rows[i] : i \in {j \in 1..Len(rows) : o < j /\ j <= o + n}}
  <2> HIDE DEF o
  <2>. QED BY <1>1, PageIs
<1>4. next = o + n \/ (next = None /\ o + n >= Len(rows))
  OBVIOUS
<1> HIDE DEF P, n, page
<1>5. /\ IsFiniteSet(ToSet(rows)) /\ ToSet(rows) = {rows[i] : i \in 1..Len(rows)}
      /\ ToSet(rows) = Below(rows, o) \cup Beyond(rows, o)
  <2> HIDE DEF o
  <2>. QED BY <1>1, SetsOfSeq
<1>6. /\ Below(rows, o + n) = Below(rows, o) \cup P
      /\ Beyond(rows, o) = Beyond(rows, o + n) \cup P
      /\ Beyond(rows, o + n) \cap P = {}
  <2> HIDE DEF o
  <2>1. \A j \in 1..Len(rows) : j <= o + n <=> j <= o \/ (o < j /\ j <= o + n)
    BY <1>1, <1>3
  <2>2. \A j \in 1..Len(rows) : j > o <=> j > o + n \/ (o < j /\ j <= o + n)
    BY <1>1, <1>3
  <2>3. \A j \in 1..Len(rows) : ~(j > o + n /\ j <= o + n)
    BY <1>1, <1>3
  <2>4. \A i, j \in 1..Len(rows) : rows[i] = rows[j] => i = j
    BY <1>1, LenProperties DEF IsInjective
  <2>5. Below(rows, o + n) = Below(rows, o) \cup P
    BY <1>3, <2>1 DEF Below
  <2>6. Beyond(rows, o) = Beyond(rows, o + n) \cup P
    BY <1>3, <2>2 DEF Beyond
  <2>7. Beyond(rows, o + n) \cap P = {}
    BY <1>3, <2>3, <2>4 DEF Beyond
  <2>. QED BY <2>5, <2>6, <2>7
<1>7. /\ Cardinality(Missed) <= Cardinality(deleted) /\ repeats + Cardinality(Coming) <= Cardinality(added)
      /\ Missed = Below(rows, o) \ (added \cup seen) /\ Coming = Beyond(rows, o) \cap seen
      /\ IsFiniteSet(deleted) /\ IsFiniteSet(added) /\ repeats \in Nat
  BY DEF WalkCounts, WalkTypes, Missed, Coming
<1>8. Cardinality(deleted) \in Nat /\ Cardinality(added) \in Nat
  BY <1>7, FS_CardinalityType
<1>9. /\ IsFiniteSet(Missed) /\ IsFiniteSet(Coming) /\ IsFiniteSet(P \cap seen)
      /\ IsFiniteSet(Beyond(rows, o + n) \cap seen)
  <2>1. Missed \subseteq ToSet(rows) /\ Coming \subseteq ToSet(rows)
        /\ P \cap seen \subseteq ToSet(rows) /\ Beyond(rows, o + n) \cap seen \subseteq ToSet(rows)
    BY <1>5, <1>6, <1>7
  <2>. QED BY <1>5, <2>1, FS_Subset
<1>10. /\ Cardinality(Missed) \in Nat /\ Cardinality(Coming) \in Nat /\ Cardinality(P \cap seen) \in Nat
       /\ Cardinality(Beyond(rows, o + n) \cap seen) \in Nat
  BY <1>9, FS_CardinalityType
<1>11. Cardinality(Coming) = Cardinality(P \cap seen) + Cardinality(Beyond(rows, o + n) \cap seen)
  <2> DEFINE A == P \cap seen
             B == Beyond(rows, o + n) \cap seen
  <2>1. Coming = A \cup B /\ A \cap B = {}
    BY <1>6, <1>7
  <2> HIDE DEF A, B
  <2>2. IsFiniteSet(A) /\ IsFiniteSet(B) /\ Cardinality(A) \in Nat /\ Cardinality(B) \in Nat
    BY <1>9, <1>10 DEF A, B
  <2>3. Cardinality(A \cap B) = 0
    BY <2>1, FS_EmptySet
  <2>4. Cardinality(A \cup B) = Cardinality(A) + Cardinality(B) - Cardinality(A \cap B)
    BY <2>2, FS_Union
  <2>5. Cardinality(Coming) = Cardinality(A) + Cardinality(B)
    BY <2>1, <2>2, <2>3, <2>4
  <2>. QED BY <2>5 DEF A, B
<1>12. WalkTypes'
  <2>1. next \in Nat \cup {None} /\ repeats' \in Nat
    BY <1>1, <1>2, <1>3, <1>4, <1>7, <1>10
  <2>. QED BY <1>2, <2>1 DEF WalkTypes
<1>13. CASE next = None
  <2>1. o + n >= Len(rows)
    BY <1>1, <1>3, <1>4, <1>13, NoneAssumption
  <2>2. ToSet(rows) = Below(rows, o) \cup P
    <3> HIDE DEF o
    <3>1. \A j \in 1..Len(rows) : j <= o + n
      BY <1>1, <1>3, <2>1
    <3>2. Below(rows, o + n) = ToSet(rows)
      BY <1>5, <3>1 DEF Below
    <3>. QED BY <1>6, <3>2
  <2>3. ToSet(rows) \ (added \cup (seen \cup P)) \subseteq Missed
    BY <1>7, <2>2
  <2> DEFINE U == ToSet(rows) \ (added \cup (seen \cup P))
  <2>4. Cardinality(U) <= Cardinality(Missed) /\ IsFiniteSet(U)
    BY <1>9, <2>3, FS_Subset
  <2>5. Cardinality(U) \in Nat
    BY <2>4, FS_CardinalityType
  <2> HIDE DEF U
  <2>6. Cardinality(U) <= Cardinality(deleted)
    BY <1>7, <1>8, <1>10, <2>4, <2>5
  <2>7. repeats + Cardinality(P \cap seen) <= Cardinality(added)
    BY <1>7, <1>8, <1>10, <1>11
  <2>. QED BY <1>2, <1>12, <1>13, <2>6, <2>7 DEF WalkCounts, U
<1>14. CASE next # None
  <2>1. Offset' = o + n /\ ~over'
    BY <1>2, <1>4, <1>14 DEF Offset
  <2>2. Missed' = Below(rows, o + n) \ (added \cup (seen \cup P))
    BY <1>2, <2>1 DEF Missed
  <2>3. Coming' = Beyond(rows, o + n) \cap (seen \cup P)
    BY <1>2, <2>1 DEF Coming
  <2>4. Missed' \subseteq Missed /\ Coming' = Beyond(rows, o + n) \cap seen
    BY <1>6, <1>7, <2>2, <2>3
  <2>5. IsFiniteSet(Missed') /\ Cardinality(Missed') <= Cardinality(Missed)
    BY <1>9, <2>4, FS_Subset
  <2>6. Cardinality(Missed') \in Nat
    BY <2>5, FS_CardinalityType
  <2>7. Cardinality(Missed') <= Cardinality(deleted)
    BY <1>7, <1>8, <1>10, <2>5, <2>6
  <2>8. repeats' + Cardinality(Coming') <= Cardinality(added)
    BY <1>2, <1>7, <1>8, <1>10, <1>11, <2>4
  <2>. QED BY <1>2, <1>12, <2>1, <2>7, <2>8 DEF WalkCounts
<1>. QED BY <1>12, <1>13, <1>14

\* The start of mem0's page is the cursor, when the cursor is a multiple of the page size.
LEMMA PageNumbers ==
  ASSUME NEW q \in Nat, NEW l \in Nat, l > 0
  PROVE  /\ ((q * l) \div l) * l = q * l
         /\ q * l \in Nat /\ q * l + l = (q + 1) * l
<1> DEFINE p == q * l
           d == p \div l
<1>1. p \in Nat /\ d \in Nat
  OBVIOUS
<1>2. l * d <= p /\ p < l * (d + 1)
  OBVIOUS
<1>3. d = q
  OBVIOUS
<1>. QED BY <1>3

LEMMA ListStep ==
  ASSUME WalkInv, "mem0" \in OneLimit, NEW l \in Limits, List(l)
  PROVE  WalkInv'
<1> DEFINE o == Offset
           page == Page(o, l)
           n == Len(page)
<1>0. WalkTypes /\ WalkAligned /\ WalkCounts /\ ~over /\ l \in Nat /\ l > 0 /\ l # None
  BY LimitsAssumption, NoneAssumption DEF WalkInv, List
<1>1. o \in Nat /\ Len(rows) \in Nat
  BY <1>0, LenProperties DEF Offset, WalkTypes
<1>2. n \in Nat /\ n <= l /\ (n < l => o + n >= Len(rows))
  <2> HIDE DEF o
  <2>. QED BY <1>0, <1>1, PageIs
<1>3. kind = "mem0" =>
        /\ Mem0Start(l) = o
        /\ \E q \in Nat : o + l = q * l
  <2> SUFFICES ASSUME kind = "mem0" PROVE Mem0Start(l) = o /\ \E q \in Nat : o + l = q * l
    OBVIOUS
  <2>1. limit \in {l, None}
    BY DEF List
  <2>2. PICK q \in Nat : o = q * l
    <3>1. CASE cursor = None
      <4>1. o = 0 * l
        BY <1>0, <3>1 DEF Offset
      <4>. QED BY <4>1
    <3>2. CASE cursor # None
      BY <1>0, <2>1, <3>2 DEF WalkAligned, Offset
    <3>. QED BY <3>1, <3>2
  <2> HIDE DEF o
  <2>3. (o \div l) * l = o /\ o + l = (q + 1) * l
    BY <1>0, <2>2, PageNumbers
  <2>4. q + 1 \in Nat
    OBVIOUS
  <2>. QED BY <2>3, <2>4 DEF Mem0Start, o
<1>4. PICK next :
        /\ Returned(page, next, l)
        /\ \/ next = o + n /\ (kind = "mem0" => n = l)
           \/ next = None /\ o + n >= Len(rows)
  <2>1. FullPageCursor(page, l) = IF n = l THEN o + n ELSE None
    BY DEF FullPageCursor
  <2>2. TotalCursor(page) = IF o + n < Len(rows) THEN o + n ELSE None
    BY DEF TotalCursor
  <2>3. AtomicMemoryList(l) => Returned(page, FullPageCursor(page, l), l) /\ kind # "mem0"
    BY DEF AtomicMemoryList
  <2>4. Mem0List(l) => Returned(page, FullPageCursor(page, l), l)
    BY <1>3 DEF Mem0List
  <2>5. HindsightList(l) => Returned(page, TotalCursor(page), l) /\ kind # "mem0"
    BY DEF HindsightList
  <2>6. AtomicMemoryList(l) \/ Mem0List(l) \/ HindsightList(l)
    BY DEF List
  <2> HIDE DEF page, n, o
  <2>7. CASE AtomicMemoryList(l) \/ Mem0List(l)
    <3>1. Returned(page, FullPageCursor(page, l), l)
      BY <2>3, <2>4, <2>7
    <3>2. n = l \/ (n # l /\ o + n >= Len(rows))
      BY <1>0, <1>2
    <3>. QED BY <2>1, <3>1, <3>2
  <2>8. CASE HindsightList(l)
    <3>1. Returned(page, TotalCursor(page), l) /\ kind # "mem0"
      BY <2>5, <2>8
    <3>2. o + n < Len(rows) \/ (~(o + n < Len(rows)) /\ o + n >= Len(rows))
      BY <1>1, <1>2
    <3>. QED BY <2>2, <3>1, <3>2
  <2>. QED BY <2>6, <2>7, <2>8
<1>5. WalkTypes' /\ WalkCounts'
  BY <1>0, <1>4, PageCounted
<1>6. WalkAligned'
  <2>1. kind' = kind /\ cursor' = next /\ limit' = l
    BY <1>4 DEF Returned
  <2> HIDE DEF o, n, page
  <2>2. kind = "mem0" /\ next # None => \E q \in Nat : next = q * l
    BY <1>3, <1>4
  <2>. QED BY <1>0, <2>1, <2>2 DEF WalkAligned
<1>. QED BY <1>5, <1>6 DEF WalkInv

LEMMA AddStep ==
  ASSUME WalkInv, NEW m \in Memories, Add(m)
  PROVE  WalkInv'
<1> DEFINE o == Offset
           t == rows'
<1>1. WalkTypes /\ WalkAligned /\ WalkCounts /\ ~over
  BY DEF WalkInv, Add, MayChange
<1>2. /\ m \notin ToSet(rows) /\ m \notin deleted /\ t \in {<<m>> \o rows, Append(rows, m)}
      /\ added' = added \cup {m} /\ deleted' = deleted /\ seen' = seen /\ repeats' = repeats
      /\ over' = over /\ cursor' = cursor /\ limit' = limit /\ kind' = kind
  BY DEF Add
<1>3. o \in Nat /\ Offset' = o /\ rows \in Seq(Memories) /\ IsInjective(rows)
  BY <1>1, <1>2 DEF Offset, WalkTypes
<1> HIDE DEF o
<1>4. /\ t \in Seq(Memories) /\ IsInjective(t) /\ ToSet(t) = ToSet(rows) \cup {m}
      /\ Below(t, o) \subseteq Below(rows, o) \cup {m}
      /\ \E x : Beyond(t, o) \subseteq Beyond(rows, o) \cup {x}
  <2> HIDE DEF t
  <2>1. IsInjective(rows) /\ rows \in Seq(Memories) /\ o \in Nat
    BY <1>3
  <2>2. m \notin ToSet(rows) /\ t \in Added(rows, m)
    BY <1>2 DEF Added
  <2>. QED BY <2>1, <2>2, RowAdded
<1>5. /\ IsFiniteSet(added) /\ IsFiniteSet(deleted) /\ m \notin added
      /\ repeats \in Nat /\ Cardinality(deleted) \in Nat /\ Cardinality(added) \in Nat
  BY <1>1, <1>2, FS_CardinalityType DEF WalkTypes
<1>6. IsFiniteSet(added \cup {m}) /\ Cardinality(added \cup {m}) = Cardinality(added) + 1
  BY <1>5, FS_AddElement
<1>7. WalkTypes'
  BY <1>1, <1>2, <1>4, <1>6 DEF WalkTypes
<1>8. WalkAligned'
  BY <1>1, <1>2 DEF WalkAligned
<1>9. WalkCounts'
  <2>1. /\ Missed = Below(rows, o) \ (added \cup seen) /\ Coming = Beyond(rows, o) \cap seen
        /\ Missed' = Below(t, o) \ (added \cup {m} \cup seen) /\ Coming' = Beyond(t, o) \cap seen
        /\ Cardinality(Missed) <= Cardinality(deleted)
        /\ repeats + Cardinality(Coming) <= Cardinality(added)
    BY <1>1, <1>2, <1>3 DEF Missed, Coming, WalkCounts, o
  <2>2. IsFiniteSet(Missed) /\ IsFiniteSet(Coming)
    <3>1. IsFiniteSet(ToSet(rows)) /\ ToSet(rows) = Below(rows, o) \cup Beyond(rows, o)
      BY <1>3, SetsOfSeq
    <3>2. Missed \subseteq ToSet(rows) /\ Coming \subseteq ToSet(rows)
      BY <2>1, <3>1
    <3>. QED BY <3>1, <3>2, FS_Subset
  <2>3. Missed' \subseteq Missed
    BY <1>4, <2>1
  <2>4. Cardinality(Missed') <= Cardinality(Missed) /\ IsFiniteSet(Missed')
    BY <2>2, <2>3, FS_Subset
  <2>5. PICK x : Coming' \subseteq Coming \cup {x}
    BY <1>4, <2>1
  <2>6. Cardinality(Coming') \in Nat /\ Cardinality(Coming') <= Cardinality(Coming) + 1
    BY <2>2, <2>5, OneMoreAtMost
  <2>7. Cardinality(Missed) \in Nat /\ Cardinality(Missed') \in Nat /\ Cardinality(Coming) \in Nat
    BY <2>2, <2>4, FS_CardinalityType
  <2>8. Cardinality(Missed') <= Cardinality(deleted)
    BY <1>5, <2>1, <2>4, <2>7
  <2>9. repeats + Cardinality(Coming') <= Cardinality(added) + 1
    BY <1>5, <2>1, <2>6, <2>7
  <2>. QED BY <1>1, <1>2, <1>6, <2>8, <2>9 DEF WalkCounts
<1>. QED BY <1>7, <1>8, <1>9 DEF WalkInv

LEMMA DeleteStep ==
  ASSUME WalkInv, NEW m \in Memories, Delete(m)
  PROVE  WalkInv'
<1> DEFINE o == Offset
           t == rows'
<1>1. WalkTypes /\ WalkAligned /\ WalkCounts /\ ~over
  BY DEF WalkInv, Delete, MayChange
<1>2. PICK d \in DOMAIN rows : rows[d] = m /\ t = RemoveAt(rows, d)
  BY DEF Delete
<1>3. /\ deleted' = deleted \cup {m} /\ added' = added /\ seen' = seen /\ repeats' = repeats
      /\ over' = over /\ cursor' = cursor /\ limit' = limit /\ kind' = kind
  BY DEF Delete
<1>4. o \in Nat /\ Offset' = o /\ rows \in Seq(Memories) /\ IsInjective(rows)
  BY <1>1, <1>3 DEF Offset, WalkTypes
<1> HIDE DEF o
<1>5. /\ t \in Seq(Memories) /\ IsInjective(t) /\ ToSet(t) = ToSet(rows) \ {m}
      /\ Beyond(t, o) \subseteq Beyond(rows, o)
      /\ \E x : Below(t, o) \subseteq Below(rows, o) \cup {x}
  BY <1>2, <1>4, RowDeleted
<1>6. /\ IsFiniteSet(added) /\ IsFiniteSet(deleted) /\ m \notin deleted
      /\ repeats \in Nat /\ Cardinality(deleted) \in Nat /\ Cardinality(added) \in Nat
  <2>1. m \in ToSet(rows)
    BY <1>2 DEF ToSet
  <2>. QED BY <1>1, <2>1, FS_CardinalityType DEF WalkTypes
<1>7. IsFiniteSet(deleted \cup {m}) /\ Cardinality(deleted \cup {m}) = Cardinality(deleted) + 1
  BY <1>6, FS_AddElement
<1>8. WalkTypes'
  BY <1>1, <1>3, <1>5, <1>7 DEF WalkTypes
<1>9. WalkAligned'
  BY <1>1, <1>3 DEF WalkAligned
<1>10. WalkCounts'
  <2>1. /\ Missed = Below(rows, o) \ (added \cup seen) /\ Coming = Beyond(rows, o) \cap seen
        /\ Missed' = Below(t, o) \ (added \cup seen) /\ Coming' = Beyond(t, o) \cap seen
        /\ Cardinality(Missed) <= Cardinality(deleted)
        /\ repeats + Cardinality(Coming) <= Cardinality(added)
    BY <1>1, <1>3, <1>4 DEF Missed, Coming, WalkCounts, o
  <2>2. IsFiniteSet(Missed) /\ IsFiniteSet(Coming)
    <3>1. IsFiniteSet(ToSet(rows)) /\ ToSet(rows) = Below(rows, o) \cup Beyond(rows, o)
      BY <1>4, SetsOfSeq
    <3>2. Missed \subseteq ToSet(rows) /\ Coming \subseteq ToSet(rows)
      BY <2>1, <3>1
    <3>. QED BY <3>1, <3>2, FS_Subset
  <2>3. Coming' \subseteq Coming
    BY <1>5, <2>1
  <2>4. Cardinality(Coming') <= Cardinality(Coming) /\ IsFiniteSet(Coming')
    BY <2>2, <2>3, FS_Subset
  <2>5. PICK x : Missed' \subseteq Missed \cup {x}
    BY <1>5, <2>1
  <2>6. Cardinality(Missed') \in Nat /\ Cardinality(Missed') <= Cardinality(Missed) + 1
    BY <2>2, <2>5, OneMoreAtMost
  <2>7. Cardinality(Coming) \in Nat /\ Cardinality(Coming') \in Nat /\ Cardinality(Missed) \in Nat
    BY <2>2, <2>4, FS_CardinalityType
  <2>8. repeats + Cardinality(Coming') <= Cardinality(added)
    BY <1>6, <2>1, <2>4, <2>7
  <2>9. Cardinality(Missed') <= Cardinality(deleted) + 1
    BY <1>6, <2>1, <2>6, <2>7
  <2>. QED BY <1>1, <1>3, <1>7, <2>8, <2>9 DEF WalkCounts
<1>. QED BY <1>8, <1>9, <1>10 DEF WalkInv

LEMMA WalkBegins == WalkInit => WalkInv
<1> SUFFICES ASSUME WalkInit PROVE WalkInv
  OBVIOUS
<1>1. /\ rows \in Seq(Memories) /\ IsInjective(rows) /\ limit = None /\ cursor = None
      /\ over = FALSE /\ seen = {} /\ repeats = 0 /\ added = {} /\ deleted = {}
  BY ListsAssumption DEF WalkInit
<1>2. Offset = 0
  BY <1>1 DEF Offset
<1>3. Missed = {} /\ Coming = {}
  <2>1. Below(rows, 0) = {}
    BY DEF Below
  <2>. QED BY <1>1, <1>2, <2>1 DEF Missed, Coming
<1>4. WalkTypes
  BY <1>1, FS_EmptySet DEF WalkTypes
<1>5. WalkAligned
  BY <1>1 DEF WalkAligned
<1>6. WalkCounts
  <2>1. Cardinality(Missed) = 0 /\ Cardinality(Coming) = 0 /\ Cardinality(added) = 0
        /\ Cardinality(deleted) = 0
    BY <1>1, <1>3, FS_EmptySet
  <2>. QED BY <1>1, <2>1 DEF WalkCounts
<1>. QED BY <1>4, <1>5, <1>6 DEF WalkInv

LEMMA WalkStep ==
  ASSUME "mem0" \in OneLimit
  PROVE  WalkInv /\ [WalkNext]_walkVars => WalkInv'
<1> SUFFICES ASSUME WalkInv, [WalkNext]_walkVars PROVE WalkInv'
  OBVIOUS
<1>1. ASSUME NEW l \in Limits, List(l) PROVE WalkInv'
  BY <1>1, ListStep
<1>2. ASSUME NEW m \in Memories, Add(m) PROVE WalkInv'
  BY <1>2, AddStep
<1>3. ASSUME NEW m \in Memories, Delete(m) PROVE WalkInv'
  BY <1>3, DeleteStep
<1>4. CASE UNCHANGED walkVars
  BY <1>4 DEF walkVars, WalkInv, WalkTypes, WalkAligned, WalkCounts, Missed, Coming, Offset
<1>. QED BY <1>1, <1>2, <1>3, <1>4 DEF WalkNext

LEMMA WalkInvImplies == WalkInv => EachRowOnce
<1> SUFFICES ASSUME WalkInv PROVE EachRowOnce
  OBVIOUS
<1>1. CASE over
  BY <1>1 DEF WalkInv, WalkCounts, EachRowOnce
<1>2. CASE ~over
  <2> DEFINE o == Offset
  <2>1. /\ repeats + Cardinality(Coming) <= Cardinality(added) /\ repeats \in Nat
        /\ Coming = Beyond(rows, o) \cap seen /\ o \in Nat /\ rows \in Seq(Memories) /\ IsFiniteSet(added)
    BY <1>2 DEF WalkInv, WalkCounts, WalkTypes, Coming, Offset
  <2> HIDE DEF o
  <2>2. IsFiniteSet(ToSet(rows)) /\ Coming \subseteq ToSet(rows)
    BY <2>1, SetsOfSeq
  <2>3. Cardinality(Coming) \in Nat /\ Cardinality(added) \in Nat
    BY <2>1, <2>2, FS_Subset, FS_CardinalityType
  <2>4. repeats <= Cardinality(added)
    BY <2>1, <2>3
  <2>. QED BY <1>2, <2>4 DEF EachRowOnce
<1>. QED BY <1>1, <1>2

\* The deletions and additions during a walk account for what it misses and gets again,
\* for lists, page sizes and changes of any number - with mem0 at one page size.
THEOREM EachRowOnceAlways ==
  ASSUME "mem0" \in OneLimit
  PROVE  WalkSpec => []EachRowOnce
BY WalkBegins, WalkStep, WalkInvImplies, PTL DEF WalkSpec

-----------------------------------------------------------------------------
(* What a loop makes of its items, one after the other. *)

\* Induction upward, for a set of numbers.
LEMMA NumbersUpTo ==
  ASSUME NEW N \in Nat, NEW T, 0 \in T,
         \A n \in 1..N : n - 1 \in T => n \in T
  PROVE  \A n \in 0..N : n \in T
<1> DEFINE bad == {n \in 0..N : n \notin T}
<1>1. SUFFICES ASSUME bad # {} PROVE FALSE
  OBVIOUS
<1>2. PICK m \in bad : \A x \in bad : m <= x
  <2>1. bad \subseteq Nat
    OBVIOUS
  <2> HIDE DEF bad
  <2>. QED BY <1>1, <2>1, LeastNatural
<1>3. m \in 1..N /\ m - 1 \in 0..N /\ ~(m <= m - 1)
  OBVIOUS
<1>4. m - 1 \notin bad
  BY <1>2, <1>3
<1>. QED BY <1>2, <1>3, <1>4

\* The states of a loop over N items that begins with a: each turn makes next of the number
\* of the item and the state before it.
Turns(f, S, N, a, next) ==
  /\ f \in [0..N -> S]
  /\ f[0] = a /\ \A n \in 1..N : f[n] = next[<<n, f[n - 1]>>]

TurnOf(S, N) == [(1..N) \X S -> S]

LEMMA LoopTurns ==
  ASSUME NEW S, NEW N \in Nat, NEW a \in S, NEW next \in TurnOf(S, N)
  PROVE  \E f : Turns(f, S, N, a, next)
<1> DEFINE T == {m \in 0..N : \E f : Turns(f, S, m, a, next)}
<1>1. 0 \in T
  <2> DEFINE f == [n \in 0..0 |-> a]
  <2>1. Turns(f, S, 0, a, next)
    BY DEF Turns
  <2>. QED BY <2>1
<1>2. ASSUME NEW m \in 1..N, m - 1 \in T PROVE m \in T
  <2>1. PICK f : Turns(f, S, m - 1, a, next)
    BY <1>2
  <2> DEFINE v == next[<<m, f[m - 1]>>]
             g == [n \in 0..m |-> IF n = m THEN v ELSE f[n]]
  <2>2. /\ f \in [0..(m - 1) -> S] /\ f[0] = a
        /\ \A n \in 1..(m - 1) : f[n] = next[<<n, f[n - 1]>>]
    BY <2>1 DEF Turns
  <2>3. v \in S
    <3>1. f[m - 1] \in S
      BY <2>2
    <3>. QED BY <3>1 DEF TurnOf
  <2> HIDE DEF v
  <2>4. g \in [0..m -> S] /\ g[0] = a /\ g[m] = v /\ g[m - 1] = f[m - 1]
    BY <2>2, <2>3
  <2>5. \A n \in 1..(m - 1) : g[n] = f[n] /\ g[n - 1] = f[n - 1]
    OBVIOUS
  <2>6. 1..m = 1..(m - 1) \cup {m}
    OBVIOUS
  <2> HIDE DEF g
  <2>7. \A n \in 1..m : g[n] = next[<<n, g[n - 1]>>]
    BY <2>2, <2>4, <2>5, <2>6 DEF v
  <2>8. Turns(g, S, m, a, next)
    BY <2>4, <2>7 DEF Turns
  <2>. QED BY <2>8
<1> HIDE DEF T
<1>3. N \in T
  BY <1>1, <1>2, NumbersUpTo
<1>. QED BY <1>3 DEF T

-----------------------------------------------------------------------------
(* ModelTools. *)

Outputs == [id : {h.id : h \in Hits}, length : Nat, truncated : BOOLEAN]

Projections == [remaining : Nat, results : Seq(Outputs)]

\* The loop of project_search(), as the recursion of ProjectSearch has it.
ProjectLoop(f, shown) ==
  f = [n \in 0..Len(shown) |->
         IF n = 0 THEN [remaining |-> MaxTotalContent, results |-> <<>>]
         ELSE ProjectHit(f[n - 1], shown[n])]

LEMMA HitIsProjected ==
  ASSUME NEW state \in Projections, NEW hit \in Hits
  PROVE  LET next == ProjectHit(state, hit)
             length == state.remaining - next.remaining
         IN  /\ next \in Projections
             /\ length \in Nat /\ length <= hit.length /\ length <= MaxHitContent
             /\ next.results = Append(state.results, [id |-> hit.id, length |-> length,
                                                      truncated |-> (length # hit.length)])
<1> DEFINE length == Min({hit.length, MaxHitContent, state.remaining})
<1>1. state.remaining \in Nat /\ state.results \in Seq(Outputs) /\ hit.length \in Nat /\ MaxHitContent \in Nat
  BY ToolsAssumption DEF Projections
<1>2. /\ length \in Nat /\ length <= hit.length /\ length <= MaxHitContent
      /\ length <= state.remaining
  <2> DEFINE S == {hit.length, MaxHitContent, state.remaining}
  <2>1. S \subseteq Nat /\ S # {}
    BY <1>1
  <2>2. Min(S) \in S /\ \A y \in S : Min(S) <= y
    <3> HIDE DEF S
    <3>. QED BY <2>1, MinIsLeast
  <2>. QED BY <2>1, <2>2
<1> HIDE DEF length
<1> DEFINE out == [id |-> hit.id, length |-> length, truncated |-> HitTruncated(hit, length)]
           next == ProjectHit(state, hit)
<1>3. next = [remaining |-> state.remaining - length, results |-> Append(state.results, out)]
  BY DEF ProjectHit, length
<1>4. HitTruncated(hit, length) = (length # hit.length)
  <2>1. length < hit.length <=> length # hit.length
    BY <1>1, <1>2
  <2>. QED BY <2>1 DEF HitTruncated
<1>5. out \in Outputs
  BY <1>2, <1>4 DEF Outputs
<1>6. out = [id |-> hit.id, length |-> length, truncated |-> (length # hit.length)]
  BY <1>4
<1> HIDE DEF out
<1>7. Append(state.results, out) \in Seq(Outputs) /\ state.remaining - length \in Nat
  BY <1>1, <1>2, <1>5
<1>8. next \in Projections
  BY <1>3, <1>7 DEF Projections
<1>9. next.remaining = state.remaining - length /\ next.results = Append(state.results, out)
  BY <1>3
<1> HIDE DEF next
<1>10. state.remaining - next.remaining = length
  BY <1>1, <1>2, <1>9
<1>. QED BY <1>2, <1>6, <1>8, <1>9, <1>10 DEF next

LEMMA ProjectLoopRuns ==
  ASSUME NEW shown \in Seq(Hits)
  PROVE  \E f : ProjectLoop(f, shown)
<1> DEFINE N == Len(shown)
           S == Projections
           a == [remaining |-> MaxTotalContent, results |-> <<>>]
           next == [x \in (1..N) \X S |-> ProjectHit(x[2], shown[x[1]])]
<1>1. N \in Nat /\ \A n \in 1..N : shown[n] \in Hits
  OBVIOUS
<1>2. a \in S
  BY ToolsAssumption DEF Projections
<1>3. ASSUME NEW n \in 1..N, NEW s \in S
      PROVE  next[<<n, s>>] = ProjectHit(s, shown[n]) /\ next[<<n, s>>] \in S
  <2>1. next[<<n, s>>] = ProjectHit(s, shown[n])
    OBVIOUS
  <2>2. ProjectHit(s, shown[n]) \in S
    BY <1>1, HitIsProjected
  <2>. QED BY <2>1, <2>2
<1>4. next \in TurnOf(S, N)
  <2>1. \A x \in (1..N) \X S : x = <<x[1], x[2]>> /\ x[1] \in 1..N /\ x[2] \in S
    OBVIOUS
  <2>2. next = [x \in (1..N) \X S |-> next[x]]
    OBVIOUS
  <2> HIDE DEF next, N, S
  <2>. QED BY <1>3, <2>1, <2>2 DEF TurnOf
<1> HIDE DEF next, S, a, N
<1>5. PICK f : Turns(f, S, N, a, next)
  BY <1>1, <1>2, <1>4, LoopTurns
<1>6. f \in [0..N -> S] /\ f[0] = a /\ \A n \in 1..N : f[n] = next[<<n, f[n - 1]>>]
  BY <1>5 DEF Turns
<1>7. \A n \in 1..N : f[n] = ProjectHit(f[n - 1], shown[n])
  <2>1. \A n \in 1..N : f[n - 1] \in S
    BY <1>1, <1>6
  <2>. QED BY <1>3, <1>6, <2>1
<1>8. ProjectLoop(f, shown)
  <2>1. f = [n \in 0..N |-> f[n]]
    BY <1>6
  <2>2. \A n \in 0..N : f[n] = IF n = 0 THEN a ELSE ProjectHit(f[n - 1], shown[n])
    <3>1. \A n \in 0..N : n = 0 \/ (n # 0 /\ n \in 1..N)
      BY <1>1
    <3>. QED BY <1>6, <1>7, <3>1
  <2>3. f = [n \in 0..N |-> IF n = 0 THEN a ELSE ProjectHit(f[n - 1], shown[n])]
    BY <2>1, <2>2
  <2>. QED BY <2>3 DEF ProjectLoop, N, a
<1>. QED BY <1>8

\* What the first n hits became: with their own identity, within their own bound, and
\* as long as what they took of the budget.
Projected(f, shown, n) ==
  /\ f[n] \in Projections /\ Len(f[n].results) = n
  /\ \A i \in 1..n : LET r == f[n].results[i] IN
       /\ r.id = shown[i].id /\ r.length = f[i - 1].remaining - f[i].remaining
       /\ r.length <= shown[i].length /\ r.length <= MaxHitContent
       /\ r.truncated = (r.length # shown[i].length)

LEMMA HitsAreProjected ==
  ASSUME NEW shown \in Seq(Hits), NEW f, ProjectLoop(f, shown)
  PROVE  \A n \in 0..Len(shown) : Projected(f, shown, n)
<1> DEFINE N == Len(shown)
           a == [remaining |-> MaxTotalContent, results |-> <<>>]
           T == {n \in 0..N : Projected(f, shown, n)}
<1>1. N \in Nat /\ \A n \in 1..N : shown[n] \in Hits
  OBVIOUS
<1>2. f[0] = a /\ \A n \in 1..N : f[n] = ProjectHit(f[n - 1], shown[n])
  <2>1. f = [n \in 0..N |-> IF n = 0 THEN a ELSE ProjectHit(f[n - 1], shown[n])]
    BY DEF ProjectLoop
  <2>2. 0 \in 0..N /\ \A n \in 1..N : n \in 0..N /\ n # 0
    BY <1>1
  <2> HIDE DEF N, a
  <2>3. f[0] = a
    BY <2>1, <2>2
  <2>4. \A n \in 1..N : f[n] = ProjectHit(f[n - 1], shown[n])
    BY <2>1, <2>2
  <2>. QED BY <2>3, <2>4
<1>3. 0 \in T
  <2>1. a \in Projections /\ Len(a.results) = 0
    BY ToolsAssumption DEF Projections
  <2> HIDE DEF a
  <2>2. Projected(f, shown, 0)
    BY <1>2, <2>1 DEF Projected
  <2>. QED BY <1>1, <2>2
<1>4. ASSUME NEW n \in 1..N, n - 1 \in T PROVE n \in T
  <2> DEFINE s == f[n - 1]
             hit == shown[n]
             length == s.remaining - f[n].remaining
             out == [id |-> hit.id, length |-> length, truncated |-> (length # hit.length)]
  <2>1. /\ s \in Projections /\ Len(s.results) = n - 1
        /\ \A i \in 1..(n - 1) : LET r == s.results[i] IN
             /\ r.id = shown[i].id /\ r.length = f[i - 1].remaining - f[i].remaining
             /\ r.length <= shown[i].length /\ r.length <= MaxHitContent
             /\ r.truncated = (r.length # shown[i].length)
    BY <1>4 DEF Projected
  <2>2. hit \in Hits /\ f[n] = ProjectHit(s, hit)
    BY <1>1, <1>2
  <2>3. /\ f[n] \in Projections
        /\ length \in Nat /\ length <= hit.length /\ length <= MaxHitContent
        /\ f[n].results = Append(s.results, out)
    <3> HIDE DEF hit, s
    <3>. QED BY <2>1, <2>2, HitIsProjected
  <2>4. s.results \in Seq(Outputs) /\ n \in Nat /\ Len(s.results) \in Nat
    BY <2>1 DEF Projections
  <2> DEFINE results == f[n].results
  <2>5. /\ Len(results) = n /\ results[n] = out
        /\ \A i \in 1..(n - 1) : results[i] = s.results[i]
    <3> DEFINE old == s.results
    <3>1. results = Append(old, out) /\ old \in Seq(Outputs) /\ Len(old) = n - 1
      BY <2>1, <2>3, <2>4
    <3> HIDE DEF old, out, results
    <3>2. Len(results) = (n - 1) + 1 /\ results[(n - 1) + 1] = out /\ \A i \in 1..(n - 1) : results[i] = old[i]
      BY <3>1
    <3>3. (n - 1) + 1 = n
      OBVIOUS
    <3>. QED BY <3>2, <3>3 DEF old
  <2>6. out.id = hit.id /\ out.length = length /\ out.truncated = (length # hit.length)
    OBVIOUS
  <2>7. \A i \in 1..n : i = n \/ i \in 1..(n - 1)
    OBVIOUS
  <2> HIDE DEF results, out, s, hit, T
  <2>8. ASSUME NEW i \in 1..n
        PROVE  LET r == results[i] IN
               /\ r.id = shown[i].id /\ r.length = f[i - 1].remaining - f[i].remaining
               /\ r.length <= shown[i].length /\ r.length <= MaxHitContent
               /\ r.truncated = (r.length # shown[i].length)
    <3>1. CASE i = n
      BY <2>3, <2>5, <2>6, <3>1 DEF hit, s
    <3>2. CASE i \in 1..(n - 1)
      BY <2>1, <2>5, <3>2
    <3>. QED BY <2>7, <3>1, <3>2
  <2>9. Projected(f, shown, n)
    BY <2>3, <2>5, <2>8 DEF Projected, results
  <2>. QED BY <1>1, <2>9 DEF T
<1> HIDE DEF T
<1>5. \A n \in 0..N : n \in T
  <2> HIDE DEF N
  <2>. QED BY <1>1, <1>3, <1>4, NumbersUpTo
<1>. QED BY <1>5 DEF T

SumLoop(f, s) == f = [n \in 0..Len(s) |-> IF n = 0 THEN 0 ELSE f[n - 1] + s[n].length]

\* Results that are as long as what each took of a budget are together as long as all took.
LEMMA TotalIs ==
  ASSUME NEW s \in Seq(Outputs), NEW left \in [0..Len(s) -> Nat],
         \A i \in 1..Len(s) : s[i].length = left[i - 1] - left[i]
  PROVE  TotalLength(s) = left[0] - left[Len(s)]
<1> DEFINE N == Len(s)
           next == [x \in (1..N) \X Int |-> x[2] + s[x[1]].length]
<1>1. N \in Nat /\ \A n \in 1..N : s[n].length \in Nat
  <2>1. \A n \in 1..N : s[n] \in Outputs
    OBVIOUS
  <2>. QED BY <2>1 DEF Outputs
<1>2. \A n \in 1..N, v \in Int : next[<<n, v>>] = v + s[n].length
  OBVIOUS
<1>3. next \in TurnOf(Int, N)
  <2>1. \A x \in (1..N) \X Int : x[1] \in 1..N /\ x[2] \in Int
    OBVIOUS
  <2>2. \A x \in (1..N) \X Int : x[2] + s[x[1]].length \in Int
    BY <1>1, <2>1
  <2>. QED BY <2>2 DEF TurnOf
<1> HIDE DEF next, N
<1>4. PICK g : Turns(g, Int, N, 0, next)
  <2> DEFINE S == Int
  <2>1. 0 \in S /\ next \in TurnOf(S, N)
    BY <1>3
  <2> HIDE DEF S
  <2>2. \E g : Turns(g, S, N, 0, next)
    BY <1>1, <2>1, LoopTurns
  <2>. QED BY <2>2 DEF S
<1>5. g \in [0..N -> Int] /\ g[0] = 0 /\ \A n \in 1..N : g[n] = next[<<n, g[n - 1]>>]
  BY <1>4 DEF Turns
<1>6. SumLoop(g, s)
  <2>1. \A n \in 1..N : g[n] = g[n - 1] + s[n].length
    <3>1. \A n \in 1..N : n - 1 \in 0..N
      BY <1>1
    <3>2. \A n \in 1..N : g[n - 1] \in Int
      BY <1>5, <3>1
    <3>. QED BY <1>2, <1>5, <3>2
  <2>2. \A n \in 0..N : n = 0 \/ (n # 0 /\ n \in 1..N)
    BY <1>1
  <2>3. \A n \in 0..N : g[n] = IF n = 0 THEN 0 ELSE g[n - 1] + s[n].length
    BY <1>5, <2>1, <2>2
  <2>4. g = [n \in 0..N |-> g[n]]
    BY <1>5
  <2>5. g = [n \in 0..N |-> IF n = 0 THEN 0 ELSE g[n - 1] + s[n].length]
    BY <2>3, <2>4
  <2>. QED BY <2>5 DEF SumLoop, N
<1>7. PICK f : SumLoop(f, s) /\ TotalLength(s) = f[N]
  BY <1>6 DEF TotalLength, SumLoop, N
<1>8. f[0] = 0 /\ \A n \in 1..N : f[n] = f[n - 1] + s[n].length
  <2>1. f = [n \in 0..N |-> IF n = 0 THEN 0 ELSE f[n - 1] + s[n].length]
    BY <1>7 DEF SumLoop, N
  <2>2. 0 \in 0..N /\ \A n \in 1..N : n \in 0..N /\ n # 0
    BY <1>1
  <2>3. f[0] = 0
    BY <2>1, <2>2
  <2>4. \A n \in 1..N : f[n] = f[n - 1] + s[n].length
    BY <2>1, <2>2
  <2>. QED BY <2>3, <2>4
<1> DEFINE T == {n \in 0..N : f[n] = left[0] - left[n]}
<1>9. /\ \A n \in 0..N : left[n] \in Nat
      /\ \A i \in 1..N : s[i].length = left[i - 1] - left[i]
  BY DEF N
<1>10. 0 \in T
  BY <1>1, <1>8, <1>9
<1>11. ASSUME NEW n \in 1..N, n - 1 \in T PROVE n \in T
  <2>1. n \in 0..N /\ n - 1 \in 0..N /\ 0 \in 0..N
    BY <1>1
  <2>2. f[n - 1] = left[0] - left[n - 1] /\ f[n] = f[n - 1] + (left[n - 1] - left[n])
    BY <1>8, <1>9, <1>11
  <2>3. left[0] \in Nat /\ left[n] \in Nat /\ left[n - 1] \in Nat
    BY <1>9, <2>1
  <2>4. f[n] = left[0] - left[n]
    BY <2>2, <2>3
  <2>. QED BY <2>1, <2>4
<1> HIDE DEF T
<1>12. N \in T
  <2>1. \A n \in 0..N : n \in T
    BY <1>1, <1>10, <1>11, NumbersUpTo
  <2>2. N \in 0..N
    BY <1>1
  <2>. QED BY <2>1, <2>2
<1>. QED BY <1>7, <1>12 DEF T, N

\* What project_search() makes of a page, for any page, most and bounds.
LEMMA PageIsProjected ==
  ASSUME NEW page \in Seq(Hits), NEW most \in Nat
  PROVE  LET output == ProjectSearch(page, most)
             out == output.results
         IN  /\ Len(out) = Min({most, Len(page)})
             /\ TotalLength(out) <= MaxTotalContent
             /\ \A i \in DOMAIN out : /\ out[i].id = page[i].id
                                      /\ out[i].length <= Min({page[i].length, MaxHitContent})
                                      /\ out[i].truncated <=> out[i].length # page[i].length
             /\ output.truncated <=>
                  Len(out) # Len(page) \/ \E i \in DOMAIN out : out[i].length # page[i].length
<1> DEFINE k == Min({most, Len(page)})
           shown == SubSeq(page, 1, k)
           output == ProjectSearch(page, most)
           out == output.results
<1>1. Len(page) \in Nat /\ \A i \in 1..Len(page) : page[i] \in Hits
  OBVIOUS
<1>2. k = (IF most <= Len(page) THEN most ELSE Len(page)) /\ k \in Nat /\ k <= Len(page)
  <2>1. k = IF most <= Len(page) THEN most ELSE Len(page)
    BY <1>1, TwoIntegers
  <2>. QED BY <1>1, <2>1
<1>3. shown \in Seq(Hits) /\ Len(shown) = k /\ \A i \in 1..k : shown[i] = page[i]
  <2> HIDE DEF k
  <2>1. \A i \in 1..k : page[i] \in Hits
    BY <1>1, <1>2
  <2>2. /\ SubSeq(page, 1, k) \in Seq(Hits)
        /\ Len(SubSeq(page, 1, k)) = IF 1 <= k THEN k - 1 + 1 ELSE 0
        /\ \A i \in 1..(k - 1 + 1) : SubSeq(page, 1, k)[i] = page[1 + i - 1]
    BY <1>2, <2>1, SubSeqProperties
  <2>3. k - 1 + 1 = k /\ (IF 1 <= k THEN k - 1 + 1 ELSE 0) = k /\ \A i \in 1..k : 1 + i - 1 = i
    BY <1>2
  <2>. QED BY <2>2, <2>3
<1>4. PICK f : /\ ProjectLoop(f, shown) /\ out = f[Len(shown)].results
               /\ output.truncated = (Len(page) > Len(out) \/ \E i \in DOMAIN out : out[i].truncated)
  <2>1. \E f : ProjectLoop(f, shown)
    <3> HIDE DEF shown
    <3>. QED BY <1>3, ProjectLoopRuns
  <2>2. \E f : /\ ProjectLoop(f, shown)
               /\ output = [results |-> f[Len(shown)].results,
                            truncated |-> Len(page) > Len(f[Len(shown)].results)
                                            \/ \E i \in DOMAIN f[Len(shown)].results :
                                                 f[Len(shown)].results[i].truncated]
    BY <2>1 DEF ProjectSearch, ProjectLoop
  <2> HIDE DEF shown, output
  <2>. QED BY <2>2
<1> HIDE DEF shown, output, out, k
<1>5. \A n \in 0..k : Projected(f, shown, n)
  BY <1>3, <1>4, HitsAreProjected
<1>6. /\ f[k] \in Projections /\ Len(out) = k
      /\ \A i \in 1..k : /\ out[i].id = page[i].id /\ out[i].length = f[i - 1].remaining - f[i].remaining
                         /\ out[i].length <= page[i].length /\ out[i].length <= MaxHitContent
                         /\ out[i].truncated = (out[i].length # page[i].length)
  <2>1. Projected(f, shown, k) /\ out = f[k].results
    BY <1>2, <1>3, <1>4, <1>5
  <2>. QED BY <1>3, <2>1 DEF Projected
<1>7. out \in Seq(Outputs) /\ DOMAIN out = 1..k
  <2>1. out \in Seq(Outputs)
    BY <1>3, <1>4, <1>6 DEF Projections
  <2>. QED BY <1>6, <2>1
<1>8. TotalLength(out) <= MaxTotalContent
  <2> DEFINE left == [n \in 0..k |-> f[n].remaining]
  <2>1. \A n \in 0..k : f[n].remaining \in Nat
    <3>1. \A n \in 0..k : f[n] \in Projections
      BY <1>5 DEF Projected
    <3>. QED BY <3>1 DEF Projections
  <2>2. left \in [0..k -> Nat] /\ \A n \in 0..k : left[n] = f[n].remaining
    BY <2>1
  <2>3. \A i \in 1..k : i \in 0..k /\ i - 1 \in 0..k
    BY <1>2
  <2>4. 0 \in 0..k /\ k \in 0..k
    BY <1>2
  <2> HIDE DEF left
  <2>5. \A i \in 1..k : out[i].length = left[i - 1] - left[i]
    BY <1>6, <2>2, <2>3
  <2>6. TotalLength(out) = left[0] - left[k]
    BY <1>6, <1>7, <2>2, <2>5, TotalIs
  <2>7. left[0] = MaxTotalContent
    <3>1. f[0] = [remaining |-> MaxTotalContent, results |-> <<>>]
      <4>1. 0 \in 0..Len(shown)
        BY <1>3, <2>4
      <4>. QED BY <1>4, <4>1 DEF ProjectLoop
    <3>. QED BY <2>2, <2>4, <3>1
  <2>8. left[k] \in Nat /\ MaxTotalContent \in Nat
    BY <2>2, <2>4, ToolsAssumption
  <2>. QED BY <2>6, <2>7, <2>8
<1>9. \A i \in 1..k : out[i].length <= Min({page[i].length, MaxHitContent})
  <2> SUFFICES ASSUME NEW i \in 1..k PROVE out[i].length <= Min({page[i].length, MaxHitContent})
    OBVIOUS
  <2>1. i \in 1..Len(page)
    BY <1>1, <1>2
  <2>2. page[i].length \in Int /\ MaxHitContent \in Int
    BY <1>1, <2>1, ToolsAssumption
  <2>3. Min({page[i].length, MaxHitContent}) =
          IF page[i].length <= MaxHitContent THEN page[i].length ELSE MaxHitContent
    BY <2>2, TwoIntegers
  <2>. QED BY <1>6, <2>3
<1>10. Len(page) > Len(out) <=> Len(out) # Len(page)
  BY <1>1, <1>2, <1>6
<1>11. \A i \in 1..k : out[i].truncated <=> out[i].length # page[i].length
  BY <1>6
<1>12. output.truncated <=> Len(out) # Len(page) \/ \E i \in DOMAIN out : out[i].length # page[i].length
  BY <1>4, <1>7, <1>10, <1>11
<1>. QED BY <1>6, <1>7, <1>8, <1>9, <1>11, <1>12 DEF out, output, k

LEMMA ToolAnswersAll ==
  ASSUME NEW tool, NEW args, NEW client, NEW page \in Seq(Hits)
  PROVE  ToolAnswers(tool, args, client, page, Execute(tool, args, client, page))
<1> DEFINE answer == Execute(tool, args, client, page)
           most == LimitOf(args)
<1>1. /\ answer.called = Accepted(tool, args)
      /\ answer.error = None => answer.called
  <2>1. answer.called = Accepted(tool, args)
    BY DEF Execute
  <2>2. ~answer.called => answer.error = "MemoryToolError"
    BY DEF Execute
  <2>. QED BY <2>1, <2>2, ToolsAssumption
<1>2. ASSUME answer.output # None
      PROVE  answer.output = ProjectSearch(page, most) /\ most \in Nat
  <2>1. /\ answer.output = ProjectSearch(page, most) /\ tool = "search" /\ answer.error = None
    BY <1>2 DEF Execute
  <2>2. SearchAccepted(args)
    BY <1>1, <2>1 DEF Accepted
  <2>3. most \in Nat
    BY <2>2, ToolsAssumption DEF SearchAccepted, LimitOf
  <2>. QED BY <2>1, <2>3
<1> HIDE DEF answer
<1>3. CASE answer.output = None
  BY <1>1, <1>3 DEF ToolAnswers, answer
<1>4. CASE answer.output # None
  <2> DEFINE output == ProjectSearch(page, most)
  <2>1. answer.output = output /\ most \in Nat
    BY <1>2, <1>4
  <2> HIDE DEF most, output
  <2>2. /\ Len(output.results) = Min({most, Len(page)})
        /\ TotalLength(output.results) <= MaxTotalContent
        /\ \A i \in DOMAIN output.results :
             /\ output.results[i].id = page[i].id
             /\ output.results[i].length <= Min({page[i].length, MaxHitContent})
             /\ output.results[i].truncated <=> output.results[i].length # page[i].length
        /\ output.truncated <=>
             Len(output.results) # Len(page)
               \/ \E i \in DOMAIN output.results : output.results[i].length # page[i].length
    BY <2>1, PageIsProjected DEF output
  <2>3. ToolAnswers(tool, args, client, page, answer)
    BY <1>1, <2>1, <2>2 DEF ToolAnswers, most
  <2>. QED BY <2>3 DEF answer
<1>. QED BY <1>3, <1>4

Filterings == [kept : Seq(Facts), drops : Seq(Int)]

\* The loop of filter_meta_facts(), as the recursion of FilterMetaFacts has it.
FilterLoop(f, items, patterns, onDrop) ==
  f = [n \in 0..Len(items) |->
         IF n = 0 THEN [kept |-> <<>>, drops |-> <<>>]
         ELSE FilterItem(f[n - 1], items[n], patterns, onDrop)]

\* The first n items without those that a pattern matches.
Plain(items, active, n) == {j \in 1..n : items[j] \cap active = {}}

LEMMA ItemIsFiltered ==
  ASSUME NEW state \in Filterings, NEW item \in Facts, NEW T, NEW patterns \in Seq(T), NEW onDrop
  PROVE  LET next == FilterItem(state, item, patterns, onDrop) IN
         /\ next \in Filterings
         /\ item \cap ToSet(patterns) = {} =>
              next.kept = Append(state.kept, item) /\ next.drops = state.drops
         /\ item \cap ToSet(patterns) # {} =>
              /\ next.kept = state.kept
              /\ onDrop # None => Len(next.drops) = Len(state.drops) + 1
<1> DEFINE hits == {i \in DOMAIN patterns : patterns[i] \in item}
           next == FilterItem(state, item, patterns, onDrop)
<1>1. hits = {} <=> item \cap ToSet(patterns) = {}
  BY DEF ToSet
<1>2. hits # {} => Min(hits) \in Int
  <2>1. hits \subseteq Nat
    OBVIOUS
  <2> HIDE DEF hits
  <2>2. ASSUME hits # {} PROVE Min(hits) \in hits
    BY <2>1, <2>2, MinIsLeast
  <2>3. ASSUME hits # {} PROVE Min(hits) \in Int
    <3>1. Min(hits) \in Nat
      BY <2>1, <2>2, <2>3
    <3>. QED BY <3>1
  <2>. QED BY <2>3
<1>3. next = IF hits = {} THEN [state EXCEPT !.kept = Append(state.kept, item)]
             ELSE [state EXCEPT !.drops = IF onDrop = None THEN state.drops
                                          ELSE Append(state.drops, Min(hits))]
  BY DEF FilterItem
<1>4. state.kept \in Seq(Facts) /\ state.drops \in Seq(Int)
  BY DEF Filterings
<1> HIDE DEF hits, next
<1>5. CASE hits = {}
  <2> DEFINE kept == Append(state.kept, item)
  <2>1. kept \in Seq(Facts)
    BY <1>4
  <2> HIDE DEF kept
  <2>2. next = [state EXCEPT !.kept = kept]
    BY <1>3, <1>5 DEF kept
  <2>3. next \in Filterings /\ next.kept = kept /\ next.drops = state.drops
    BY <2>1, <2>2 DEF Filterings
  <2>. QED BY <1>1, <1>5, <2>3 DEF kept, next
<1>6. CASE hits # {}
  <2> DEFINE drops == IF onDrop = None THEN state.drops ELSE Append(state.drops, Min(hits))
  <2>1. /\ drops \in Seq(Int)
        /\ onDrop # None => Len(drops) = Len(state.drops) + 1
    BY <1>2, <1>4, <1>6
  <2> HIDE DEF drops
  <2>2. next = [state EXCEPT !.drops = drops]
    BY <1>3, <1>6 DEF drops
  <2>3. next \in Filterings /\ next.drops = drops /\ next.kept = state.kept
    BY <2>1, <2>2 DEF Filterings
  <2>. QED BY <1>1, <1>6, <2>1, <2>3 DEF next
<1>. QED BY <1>5, <1>6

LEMMA FilterLoopRuns ==
  ASSUME NEW items \in Seq(Facts), NEW T, NEW patterns \in Seq(T), NEW onDrop
  PROVE  \E f : FilterLoop(f, items, patterns, onDrop)
<1> DEFINE N == Len(items)
           S == Filterings
           a == [kept |-> <<>>, drops |-> <<>>]
           next == [x \in (1..N) \X S |-> FilterItem(x[2], items[x[1]], patterns, onDrop)]
<1>1. N \in Nat /\ \A n \in 1..N : items[n] \in Facts
  OBVIOUS
<1>2. a \in S
  BY DEF Filterings
<1>3. ASSUME NEW n \in 1..N, NEW s \in S
      PROVE  next[<<n, s>>] = FilterItem(s, items[n], patterns, onDrop) /\ next[<<n, s>>] \in S
  <2>1. next[<<n, s>>] = FilterItem(s, items[n], patterns, onDrop)
    OBVIOUS
  <2>2. FilterItem(s, items[n], patterns, onDrop) \in S
    BY <1>1, ItemIsFiltered
  <2>. QED BY <2>1, <2>2
<1>4. next \in TurnOf(S, N)
  <2>1. \A x \in (1..N) \X S : x = <<x[1], x[2]>> /\ x[1] \in 1..N /\ x[2] \in S
    OBVIOUS
  <2>2. next = [x \in (1..N) \X S |-> next[x]]
    OBVIOUS
  <2> HIDE DEF next, N, S
  <2>. QED BY <1>3, <2>1, <2>2 DEF TurnOf
<1> HIDE DEF next, S, a, N
<1>5. PICK f : Turns(f, S, N, a, next)
  BY <1>1, <1>2, <1>4, LoopTurns
<1>6. f \in [0..N -> S] /\ f[0] = a /\ \A n \in 1..N : f[n] = next[<<n, f[n - 1]>>]
  BY <1>5 DEF Turns
<1>7. \A n \in 1..N : f[n] = FilterItem(f[n - 1], items[n], patterns, onDrop)
  <2>1. \A n \in 1..N : f[n - 1] \in S
    BY <1>1, <1>6
  <2>. QED BY <1>3, <1>6, <2>1
<1>8. FilterLoop(f, items, patterns, onDrop)
  <2>1. f = [n \in 0..N |-> f[n]]
    BY <1>6
  <2>2. \A n \in 0..N : f[n] = IF n = 0 THEN a ELSE FilterItem(f[n - 1], items[n], patterns, onDrop)
    <3>1. \A n \in 0..N : n = 0 \/ (n # 0 /\ n \in 1..N)
      BY <1>1
    <3>. QED BY <1>6, <1>7, <3>1
  <2>3. f = [n \in 0..N |-> IF n = 0 THEN a ELSE FilterItem(f[n - 1], items[n], patterns, onDrop)]
    BY <2>1, <2>2
  <2>. QED BY <2>3 DEF FilterLoop, N, a
<1>. QED BY <1>8

\* What the first n items became: the plain ones kept in their order, every other told.
Filtered(f, items, active, onDrop, n) ==
  /\ f[n] \in Filterings
  /\ Len(f[n].kept) = Cardinality(Plain(items, active, n))
  /\ \A i \in Plain(items, active, n) : f[n].kept[Cardinality(Plain(items, active, i))] = items[i]
  /\ onDrop # None => Len(f[n].drops) = n - Len(f[n].kept)

\* The plain items are finitely many, and each has its place among them.
LEMMA PlainCounts ==
  ASSUME NEW items, NEW active, NEW n \in Nat
  PROVE  /\ IsFiniteSet(Plain(items, active, n)) /\ Cardinality(Plain(items, active, n)) \in Nat
         /\ \A i \in Plain(items, active, n) :
              Cardinality(Plain(items, active, i)) \in 1..Cardinality(Plain(items, active, n))
<1> DEFINE P(m) == Plain(items, active, m)
<1>1. \A m \in Nat : IsFiniteSet(P(m)) /\ Cardinality(P(m)) \in Nat
  <2> SUFFICES ASSUME NEW m \in Nat PROVE IsFiniteSet(P(m)) /\ Cardinality(P(m)) \in Nat
    OBVIOUS
  <2>1. IsFiniteSet(1..m)
    BY FS_Interval
  <2>2. P(m) \subseteq 1..m
    BY DEF Plain
  <2> HIDE DEF P
  <2>3. IsFiniteSet(P(m))
    BY <2>1, <2>2, FS_Subset
  <2>. QED BY <2>3, FS_CardinalityType
<1>2. ASSUME NEW i \in P(n)
      PROVE  Cardinality(P(i)) \in 1..Cardinality(P(n))
  <2>1. i \in Nat /\ i \in P(i) /\ P(i) \subseteq P(n)
    BY DEF Plain
  <2> HIDE DEF P
  <2>2. Cardinality(P(i)) <= Cardinality(P(n))
    BY <1>1, <2>1, FS_Subset
  <2>3. Cardinality(P(i)) # 0
    BY <1>1, <2>1, FS_EmptySet
  <2>. QED BY <1>1, <2>1, <2>2, <2>3
<1>. QED BY <1>1, <1>2

\* The state after one more item.
LEMMA OneMoreFiltered ==
  ASSUME NEW items \in Seq(Facts), NEW T, NEW patterns \in Seq(T), NEW onDrop, NEW f,
         NEW n \in 1..Len(items), f[n] = FilterItem(f[n - 1], items[n], patterns, onDrop),
         Filtered(f, items, ToSet(patterns), onDrop, n - 1)
  PROVE  Filtered(f, items, ToSet(patterns), onDrop, n)
<1> DEFINE active == ToSet(patterns)
           P(m) == Plain(items, active, m)
           old == f[n - 1]
           new == f[n]
<1>1. n \in Nat /\ n - 1 \in Nat /\ items[n] \in Facts
  OBVIOUS
<1>2. /\ old \in Filterings /\ Len(old.kept) = Cardinality(P(n - 1))
      /\ \A i \in P(n - 1) : old.kept[Cardinality(P(i))] = items[i]
      /\ onDrop # None => Len(old.drops) = (n - 1) - Len(old.kept)
  BY DEF Filtered
<1>3. /\ new \in Filterings
      /\ items[n] \cap active = {} =>
           new.kept = Append(old.kept, items[n]) /\ new.drops = old.drops
      /\ items[n] \cap active # {} =>
           /\ new.kept = old.kept
           /\ onDrop # None => Len(new.drops) = Len(old.drops) + 1
  <2> HIDE DEF old
  <2>1. new = FilterItem(old, items[n], patterns, onDrop)
    BY DEF old
  <2> HIDE DEF new
  <2>. QED BY <1>1, <1>2, <2>1, ItemIsFiltered
<1>4. /\ old.kept \in Seq(Facts) /\ old.drops \in Seq(Int)
      /\ new.kept \in Seq(Facts) /\ new.drops \in Seq(Int)
  <2> HIDE DEF old, new
  <2>. QED BY <1>2, <1>3 DEF Filterings
<1>5. /\ IsFiniteSet(P(n - 1)) /\ Cardinality(P(n - 1)) \in Nat
      /\ \A i \in P(n - 1) : Cardinality(P(i)) \in 1..Cardinality(P(n - 1))
  BY <1>1, PlainCounts
<1>6. /\ items[n] \cap active = {} => P(n) = P(n - 1) \cup {n}
      /\ items[n] \cap active # {} => P(n) = P(n - 1)
      /\ n \notin P(n - 1)
  <2>1. 1..n = 1..(n - 1) \cup {n} /\ n \notin 1..(n - 1)
    BY <1>1
  <2> HIDE DEF active
  <2>. QED BY <2>1 DEF Plain
<1> HIDE DEF old, new, P, active
<1>7. CASE items[n] \cap active = {}
  <2> DEFINE c == Cardinality(P(n - 1))
  <2>1. P(n) = P(n - 1) \cup {n} /\ new.kept = Append(old.kept, items[n]) /\ new.drops = old.drops
    BY <1>3, <1>6, <1>7
  <2>2. Cardinality(P(n)) = c + 1
    BY <1>5, <1>6, <2>1, FS_AddElement
  <2>3. /\ Len(new.kept) = c + 1 /\ new.kept[c + 1] = items[n]
        /\ \A k \in 1..c : new.kept[k] = old.kept[k]
    <3> DEFINE kept == old.kept
               item == items[n]
    <3>1. kept \in Seq(Facts) /\ Len(kept) = c /\ new.kept = Append(kept, item)
      BY <1>2, <1>4, <2>1
    <3> HIDE DEF kept, item, c
    <3>2. /\ Len(Append(kept, item)) = Len(kept) + 1 /\ Append(kept, item)[Len(kept) + 1] = item
          /\ \A k \in 1..Len(kept) : Append(kept, item)[k] = kept[k]
      BY <3>1
    <3>. QED BY <3>1, <3>2 DEF kept, item
  <2>4. \A i \in P(n) : new.kept[Cardinality(P(i))] = items[i]
    <3> SUFFICES ASSUME NEW i \in P(n) PROVE new.kept[Cardinality(P(i))] = items[i]
      OBVIOUS
    <3>1. CASE i = n
      BY <2>2, <2>3, <3>1
    <3>2. CASE i \in P(n - 1)
      <4>1. Cardinality(P(i)) \in 1..c /\ old.kept[Cardinality(P(i))] = items[i]
        BY <1>2, <1>5, <3>2
      <4>. QED BY <2>3, <4>1
    <3>. QED BY <2>1, <3>1, <3>2
  <2>5. onDrop # None => Len(new.drops) = n - Len(new.kept)
    <3>1. onDrop # None => Len(new.drops) = (n - 1) - c
      BY <1>2, <2>1
    <3>2. (n - 1) - c = n - (c + 1)
      BY <1>1, <1>5
    <3>. QED BY <2>3, <3>1, <3>2
  <2>. QED BY <1>3, <2>2, <2>3, <2>4, <2>5 DEF Filtered, P, new, active
<1>8. CASE items[n] \cap active # {}
  <2>1. P(n) = P(n - 1) /\ new.kept = old.kept
    BY <1>3, <1>6, <1>8
  <2>2. onDrop # None => Len(new.drops) = n - Len(new.kept)
    <3>1. onDrop # None => Len(new.drops) = (n - 1) - Len(old.kept) + 1
      BY <1>2, <1>3, <1>8
    <3>2. (n - 1) - Len(old.kept) + 1 = n - Len(old.kept)
      BY <1>1, <1>4
    <3>. QED BY <2>1, <3>1, <3>2
  <2>3. /\ new \in Filterings /\ Len(new.kept) = Cardinality(P(n))
        /\ \A i \in P(n) : new.kept[Cardinality(P(i))] = items[i]
    BY <1>2, <1>3, <2>1
  <2>. QED BY <2>2, <2>3 DEF Filtered, P, new, active
<1>. QED BY <1>7, <1>8

\* The filter of meta-facts, for any items, patterns and callback.
LEMMA FilterDropsAll ==
  ASSUME NEW items \in Seq(Facts), NEW config, NEW T, NEW defaults \in Seq(T),
         config.patterns \in Seq(T) \cup {None}
  PROVE  FilterDrops(items, config, defaults, FilterMetaFacts(items, config, defaults))
<1> DEFINE patterns == ResolvePatterns(config, defaults)
           active == IF config.enabled THEN ToSet(patterns) ELSE {}
           P(m) == Plain(items, active, m)
           N == Len(items)
           answer == FilterMetaFacts(items, config, defaults)
<1>1. patterns \in Seq(T) /\ N \in Nat /\ DOMAIN items = 1..N
  BY DEF ResolvePatterns
<1>2. /\ P(N) = {i \in DOMAIN items : items[i] \cap active = {}}
      /\ \A i \in P(N) : P(i) = {j \in P(N) : j <= i}
  <2> HIDE DEF active, N
  <2>1. P(N) = {i \in DOMAIN items : items[i] \cap active = {}}
    BY <1>1 DEF Plain
  <2>2. \A i \in 1..N, j \in 1..N : j \in 1..i <=> j <= i
    BY <1>1
  <2>3. \A i \in 1..N : 1..i \subseteq 1..N
    BY <1>1
  <2>. QED BY <2>1, <2>2, <2>3 DEF Plain
<1>3. SUFFICES /\ Len(answer.kept) = Cardinality(P(N))
               /\ \A i \in P(N) : answer.kept[Cardinality(P(i))] = items[i]
               /\ config.onDrop # None => Len(answer.drops) = N - Len(answer.kept)
  <2> DEFINE plain == {i \in DOMAIN items : items[i] \cap active = {}}
  <2> HIDE DEF answer, P, N, plain, active
  <2>1. plain = P(N) /\ \A i \in P(N) : P(i) = {j \in P(N) : j <= i}
    BY <1>2 DEF plain
  <2>2. /\ Len(answer.kept) = Cardinality(plain)
        /\ \A i \in plain : answer.kept[Cardinality({j \in plain : j <= i})] = items[i]
        /\ config.onDrop # None => Len(answer.drops) = Len(items) - Len(answer.kept)
    BY <1>3, <2>1, Zenon DEF N
  <2>3. FilterDrops(items, config, defaults, answer)
    BY <2>2, Zenon DEF FilterDrops, plain, active
  <2>. QED BY <2>3 DEF answer
<1> HIDE DEF N, P
<1>4. CASE ~config.enabled \/ patterns = <<>>
  <2>1. answer = [kept |-> items, drops |-> <<>>]
    BY <1>4 DEF FilterMetaFacts
  <2>2. active = {}
    BY <1>4 DEF ToSet
  <2> HIDE DEF answer, active, patterns
  <2>3. \A m \in Nat : P(m) = 1..m /\ Cardinality(P(m)) = m
    <3> SUFFICES ASSUME NEW m \in Nat PROVE P(m) = 1..m /\ Cardinality(P(m)) = m
      OBVIOUS
    <3>1. P(m) = 1..m
      BY <2>2 DEF P, Plain
    <3>2. Cardinality(1..m) = IF 1 > m THEN 0 ELSE m - 1 + 1
      BY FS_Interval
    <3>. QED BY <3>1, <3>2
  <2>4. answer.kept = items /\ answer.drops = <<>>
    BY <2>1
  <2>5. Len(answer.kept) = N /\ Len(answer.drops) = N - N
    BY <1>1, <2>4 DEF N
  <2>6. \A i \in P(N) : i \in Nat
    BY <1>1, <2>3
  <2>. QED BY <1>1, <2>3, <2>4, <2>5, <2>6
<1>5. CASE config.enabled /\ patterns # <<>>
  <2>1. active = ToSet(patterns)
    BY <1>5
  <2>2. \E f : FilterLoop(f, items, patterns, config.onDrop) /\ answer = f[N]
    <3>1. \E f : FilterLoop(f, items, patterns, config.onDrop)
      <4> HIDE DEF patterns
      <4>. QED BY <1>1, FilterLoopRuns
    <3>. QED BY <1>5, <3>1 DEF FilterMetaFacts, FilterLoop, N
  <2> HIDE DEF answer, active, patterns
  <2>3. PICK f : FilterLoop(f, items, patterns, config.onDrop) /\ answer = f[N]
    BY <2>2
  <2> DEFINE D == {n \in 0..N : Filtered(f, items, active, config.onDrop, n)}
             a == [kept |-> <<>>, drops |-> <<>>]
             Turn(n) == FilterItem(f[n - 1], items[n], patterns, config.onDrop)
  <2>4. f[0] = a /\ \A n \in 1..N : f[n] = Turn(n)
    <3>1. f = [n \in 0..N |-> IF n = 0 THEN a ELSE Turn(n)]
      BY <2>3 DEF FilterLoop, N
    <3>2. 0 \in 0..N /\ \A n \in 1..N : n \in 0..N /\ n # 0
      BY <1>1
    <3> HIDE DEF a, Turn
    <3>3. f[0] = a
      BY <3>1, <3>2
    <3>. QED BY <3>1, <3>2, <3>3
  <2>5. 0 \in D
    <3>1. a \in Filterings /\ Len(a.kept) = 0 /\ Len(a.drops) = 0
      BY DEF Filterings
    <3>2. Plain(items, active, 0) = {} /\ Cardinality({}) = 0
      BY FS_EmptySet DEF Plain
    <3> HIDE DEF a
    <3>3. Filtered(f, items, active, config.onDrop, 0)
      <4>1. f[0] \in Filterings /\ Len(f[0].kept) = 0 /\ Len(f[0].drops) = 0 - 0
        BY <2>4, <3>1
      <4>. QED BY <3>2, <4>1 DEF Filtered
    <3>. QED BY <1>1, <3>3
  <2>6. ASSUME NEW n \in 1..N, n - 1 \in D PROVE n \in D
    <3>1. Filtered(f, items, ToSet(patterns), config.onDrop, n - 1) /\ n \in 1..Len(items)
      BY <2>1, <2>6 DEF N
    <3>2. f[n] = Turn(n)
      BY <2>4
    <3>3. Filtered(f, items, active, config.onDrop, n)
      BY <1>1, <2>1, <3>1, <3>2, OneMoreFiltered
    <3>4. n \in 0..N
      BY <1>1
    <3>. QED BY <3>3, <3>4
  <2> HIDE DEF D
  <2>7. \A n \in 0..N : n \in D
    BY <1>1, <2>5, <2>6, NumbersUpTo
  <2>8. Filtered(f, items, active, config.onDrop, N)
    BY <1>1, <2>7 DEF D
  <2>. QED BY <2>3, <2>8 DEF Filtered, P
<1>6. config.enabled \/ ~config.enabled
  OBVIOUS
<1>. QED BY <1>4, <1>5

-----------------------------------------------------------------------------
(* SemanticSearch. *)

\* What a sort by descending key gives of a set.
Sorts(r, key, S) ==
  /\ r \in [1..Cardinality(S) -> S]
  /\ \A m, n \in 1..Cardinality(S) : r[m] = r[n] => m = n
  /\ \A i \in S : \E n \in 1..Cardinality(S) : r[n] = i
  /\ \A m, n \in 1..Cardinality(S) : m < n => key[r[m]] >= key[r[n]]

\* The numbers of those ahead are the places of a sort.
LEMMA ByKeySorts ==
  ASSUME NEW S, IsFiniteSet(S), S \subseteq Int, NEW key, \A i \in S : key[i] \in Int
  PROVE  Sorts(ByKey(key, S), key, S)
<1> DEFINE N == Cardinality(S)
           A(i) == Ahead(key, S, i)
           rank == [i \in S |-> Cardinality(A(i))]
           r == ByKey(key, S)
<1>1. N \in Nat
  BY FS_CardinalityType
<1>2. \A i \in S : A(i) \subseteq S /\ i \notin A(i)
  BY DEF Ahead
<1>3. \A i, j \in S : /\ j \in A(i) => A(j) \subseteq A(i)
                      /\ i # j => j \in A(i) \/ i \in A(j)
                      /\ j \in A(i) => key[j] >= key[i]
  <2> SUFFICES ASSUME NEW i \in S, NEW j \in S
               PROVE  /\ j \in A(i) => A(j) \subseteq A(i)
                      /\ i # j => j \in A(i) \/ i \in A(j)
                      /\ j \in A(i) => key[j] >= key[i]
    OBVIOUS
  <2>1. key[i] \in Int /\ key[j] \in Int /\ i \in Int /\ j \in Int
    OBVIOUS
  <2>2. j \in A(i) <=> key[j] > key[i] \/ (key[j] = key[i] /\ j < i)
    BY DEF Ahead
  <2>3. i \in A(j) <=> key[i] > key[j] \/ (key[i] = key[j] /\ i < j)
    BY DEF Ahead
  <2>4. ASSUME j \in A(i) PROVE A(j) \subseteq A(i)
    <3> SUFFICES ASSUME NEW k \in A(j) PROVE k \in A(i)
      OBVIOUS
    <3>1. k \in S /\ (key[k] > key[j] \/ (key[k] = key[j] /\ k < j))
      BY DEF Ahead
    <3>2. key[k] \in Int /\ k \in Int
      BY <3>1
    <3>3. key[k] > key[i] \/ (key[k] = key[i] /\ k < i)
      BY <2>1, <2>2, <2>4, <3>1, <3>2
    <3>. QED BY <3>1, <3>3 DEF Ahead
  <2> HIDE DEF A
  <2>. QED BY <2>1, <2>2, <2>3, <2>4
<1> HIDE DEF A
<1>4. \A i \in S : IsFiniteSet(A(i)) /\ rank[i] = Cardinality(A(i)) /\ rank[i] \in 0..(N - 1)
  <2> SUFFICES ASSUME NEW i \in S
               PROVE  IsFiniteSet(A(i)) /\ Cardinality(A(i)) \in 0..(N - 1)
    OBVIOUS
  <2>1. IsFiniteSet(A(i)) /\ Cardinality(A(i)) \in Nat
    BY <1>2, FS_Subset, FS_CardinalityType
  <2>2. A(i) \subseteq S \ {i} /\ IsFiniteSet(S \ {i}) /\ Cardinality(S \ {i}) = N - 1
    BY <1>2, FS_RemoveElement
  <2>3. Cardinality(A(i)) <= N - 1
    BY <2>2, FS_Subset
  <2>. QED BY <1>1, <2>1, <2>3
<1>5. \A i, j \in S : j \in A(i) => rank[j] < rank[i]
  <2> SUFFICES ASSUME NEW i \in S, NEW j \in S, j \in A(i) PROVE rank[j] < rank[i]
    OBVIOUS
  <2>1. A(j) \subseteq A(i) \ {j} /\ IsFiniteSet(A(i))
    BY <1>2, <1>3, <1>4
  <2>2. IsFiniteSet(A(i) \ {j}) /\ Cardinality(A(i) \ {j}) = Cardinality(A(i)) - 1
    BY <2>1, FS_RemoveElement
  <2>3. Cardinality(A(j)) <= Cardinality(A(i)) - 1
    BY <2>1, <2>2, FS_Subset
  <2>4. rank[i] = Cardinality(A(i)) /\ rank[j] = Cardinality(A(j)) /\ rank[i] \in Int /\ rank[j] \in Int
    BY <1>4
  <2> HIDE DEF rank
  <2>. QED BY <2>3, <2>4
<1>6. \A i, j \in S : rank[i] = rank[j] => i = j
  <2> SUFFICES ASSUME NEW i \in S, NEW j \in S, rank[i] = rank[j], i # j PROVE FALSE
    OBVIOUS
  <2>1. rank[i] \in Int /\ rank[j] \in Int /\ (rank[j] < rank[i] \/ rank[i] < rank[j])
    BY <1>3, <1>4, <1>5
  <2> HIDE DEF rank
  <2>. QED BY <2>1
<1>7. \A n \in 1..N : \E i \in S : rank[i] = n - 1
  <2> DEFINE T == 0..(N - 1)
  <2>1. rank \in Injection(S, T)
    BY <1>4, <1>6 DEF Injection, IsInjective
  <2>2. IsFiniteSet(T) /\ Cardinality(T) = N
    <3>1. /\ IsFiniteSet(0..(N - 1))
          /\ Cardinality(0..(N - 1)) = IF 0 > N - 1 THEN 0 ELSE N - 1 - 0 + 1
      <4>1. 0 \in Int /\ N - 1 \in Int
        BY <1>1
      <4> DEFINE b == N - 1
      <4> HIDE DEF b
      <4>2. b \in Int
        BY <4>1 DEF b
      <4>3. /\ IsFiniteSet(0..b) /\ Cardinality(0..b) = IF 0 > b THEN 0 ELSE b - 0 + 1
        BY <4>2, FS_Interval
      <4>. QED BY <4>3 DEF b
    <3>2. (IF 0 > N - 1 THEN 0 ELSE N - 1 - 0 + 1) = N
      BY <1>1
    <3>. QED BY <3>1, <3>2
  <2> HIDE DEF T, rank
  <2>3. rank \in Surjection(S, T)
    BY <2>1, <2>2, FS_Injection
  <2>4. \A n \in 1..N : n - 1 \in T
    BY <1>1 DEF T
  <2>. QED BY <2>3, <2>4 DEF Surjection
<1>8. \A n \in 1..N : r[n] \in S /\ rank[r[n]] = n - 1
  <2> SUFFICES ASSUME NEW n \in 1..N PROVE r[n] \in S /\ rank[r[n]] = n - 1
    OBVIOUS
  <2> DEFINE At(i) == Cardinality(A(i)) = n - 1
  <2>1. r[n] = CHOOSE i \in S : At(i)
    BY DEF ByKey, A
  <2>2. PICK i \in S : rank[i] = n - 1
    BY <1>7
  <2>3. At(i)
    BY <1>4, <2>2
  <2> HIDE DEF At, r, rank
  <2>4. r[n] \in S /\ At(r[n])
    BY <2>1, <2>3
  <2>. QED BY <1>4, <2>4 DEF At
<1>9. r \in [1..N -> S]
  <2>1. r = [n \in 1..N |-> r[n]]
    BY DEF ByKey
  <2> HIDE DEF r, rank
  <2>. QED BY <1>8, <2>1
<1> HIDE DEF r, rank
<1>10. \A m, n \in 1..N : r[m] = r[n] => m = n
  BY <1>8
<1>11. \A i \in S : \E n \in 1..N : r[n] = i
  <2> SUFFICES ASSUME NEW i \in S PROVE \E n \in 1..N : r[n] = i
    OBVIOUS
  <2> DEFINE n == rank[i] + 1
  <2>1. n \in 1..N /\ n - 1 = rank[i]
    BY <1>1, <1>4
  <2> HIDE DEF n
  <2>. QED BY <1>6, <1>8, <2>1
<1>12. \A m, n \in 1..N : m < n => key[r[m]] >= key[r[n]]
  <2> SUFFICES ASSUME NEW m \in 1..N, NEW n \in 1..N, m < n PROVE key[r[m]] >= key[r[n]]
    OBVIOUS
  <2>1. rank[r[m]] = m - 1 /\ rank[r[n]] = n - 1 /\ ~(n - 1 < m - 1) /\ m # n
    BY <1>8
  <2>2. r[m] \in S /\ r[n] \in S /\ r[n] \notin A(r[m]) /\ r[m] # r[n]
    BY <1>5, <1>8, <1>10, <2>1
  <2>. QED BY <1>3, <2>2
<1>. QED BY <1>9, <1>10, <1>11, <1>12 DEF Sorts, r

LEMMA UptoIs ==
  ASSUME NEW T, NEW s \in Seq(T), NEW k \in Int
  PROVE  LET r == Upto(s, k) IN
         /\ r \in Seq(T) /\ Len(r) <= Len(s) /\ \A i \in 1..Len(r) : r[i] = s[i]
         /\ k >= 0 => Len(r) = Min({k, Len(s)})
<1> DEFINE N == Len(s)
           l == IF k >= 0 THEN Min({k, N}) ELSE N + k
           r == Upto(s, k)
<1>1. N \in Nat /\ \A i \in 1..N : s[i] \in T
  OBVIOUS
<1>2. l \in Int /\ l <= N /\ (k >= 0 => l = Min({k, N}) /\ l >= 0)
  <2>1. Min({k, N}) = IF k <= N THEN k ELSE N
    BY <1>1, TwoIntegers
  <2>. QED BY <1>1, <2>1
<1>3. r = SubSeq(s, 1, l)
  BY DEF Upto
<1> HIDE DEF l, r
<1>4. \A i \in 1..l : s[i] \in T
  BY <1>1, <1>2
<1>5. /\ SubSeq(s, 1, l) \in Seq(T)
      /\ Len(SubSeq(s, 1, l)) = IF 1 <= l THEN l - 1 + 1 ELSE 0
      /\ \A i \in 1..(l - 1 + 1) : SubSeq(s, 1, l)[i] = s[1 + i - 1]
  <2> HIDE DEF N
  <2>. QED BY <1>2, <1>4, SubSeqProperties
<1>6. (l >= 0 => (IF 1 <= l THEN l - 1 + 1 ELSE 0) = l) /\ (IF 1 <= l THEN l - 1 + 1 ELSE 0) <= N
  BY <1>1, <1>2
<1>7. \A i \in 1..(IF 1 <= l THEN l - 1 + 1 ELSE 0) : i \in 1..(l - 1 + 1) /\ 1 + i - 1 = i
  BY <1>2
<1>8. Len(r) = (IF 1 <= l THEN l - 1 + 1 ELSE 0) /\ r \in Seq(T)
  BY <1>3, <1>5
<1>9. \A i \in 1..Len(r) : r[i] = s[i]
  BY <1>3, <1>5, <1>7, <1>8
<1>. QED BY <1>2, <1>6, <1>8, <1>9 DEF r

\* p picks of E by descending sim: none twice, none while a better one is left out, and as
\* many as k and E allow.
Picks(p, sim, E, k) ==
  /\ p \in Seq(E)
  /\ \A m, n \in 1..Len(p) : p[m] = p[n] => m = n
  /\ k >= 0 => Len(p) = Min({k, Cardinality(E)})
  /\ \A n \in 1..Len(p), j \in E : sim[p[n]] >= sim[j] \/ \E m \in 1..Len(p) : p[m] = j
  /\ \A m, n \in 1..Len(p) : m < n => sim[p[m]] >= sim[p[n]]

\* The best k of the candidates as far as they reach the threshold.
Ranked(sims, threshold, k) == Upto(RankBySimilarity(sims, threshold), k)

\* The positions that ranked candidates have.
At(order, ranked) == [n \in 1..Len(ranked) |-> order[ranked[n]]]

AtLeast(E, sim, threshold) == {i \in E : threshold = None \/ sim[i] >= threshold}

\* The candidates are some positions in any order; those picked are positions again.
LEMMA SelectionPicks ==
  ASSUME NEW E0, NEW M \in Nat, NEW order \in [1..M -> E0],
         \A m, n \in 1..M : order[m] = order[n] => m = n,
         \A i \in E0 : \E n \in 1..M : order[n] = i,
         NEW sim, NEW sims \in [1..M -> Int], \A n \in 1..M : sims[n] = sim[order[n]],
         NEW threshold, NEW k \in Int
  PROVE  /\ Ranked(sims, threshold, k) \in Seq(1..M)
         /\ Picks(At(order, Ranked(sims, threshold, k)), sim, AtLeast(E0, sim, threshold), k)
<1> DEFINE R == {n \in DOMAIN sims : threshold = None \/ sims[n] >= threshold}
           s == RankBySimilarity(sims, threshold)
           ranked == Upto(s, k)
           p == [n \in 1..Len(ranked) |-> order[ranked[n]]]
           E == {i \in E0 : threshold = None \/ sim[i] >= threshold}
           N == Cardinality(R)
<1>1. R \subseteq 1..M /\ IsFiniteSet(R) /\ N \in Nat
  <2>1. R \subseteq 1..M /\ IsFiniteSet(1..M)
    BY FS_Interval
  <2> HIDE DEF R
  <2>. QED BY <2>1, FS_Subset, FS_CardinalityType
<1>2. Sorts(s, sims, R)
  <2>1. s = ByKey(sims, R)
    BY DEF RankBySimilarity
  <2>2. R \subseteq Int /\ \A n \in R : sims[n] \in Int
    BY <1>1
  <2> HIDE DEF s, R
  <2>. QED BY <1>1, <2>1, <2>2, ByKeySorts
<1>3. \A n \in 1..M : n \in R <=> order[n] \in E
  OBVIOUS
<1>4. E \subseteq E0 /\ \A i \in E : sim[i] \in Int
  OBVIOUS
<1> HIDE DEF R, s, E
<1>5. \A i \in E : \E n \in R : order[n] = i
  BY <1>3, <1>4
<1>6. Cardinality(E) = N
  <2> DEFINE f == [n \in R |-> order[n]]
  <2>1. f \in [R -> E] /\ \A n \in R : f[n] = order[n]
    BY <1>1, <1>3
  <2> HIDE DEF f
  <2>2. \A m, n \in R : f[m] = f[n] => m = n
    BY <1>1, <2>1
  <2>3. \A i \in E : \E n \in R : f[n] = i
    BY <1>5, <2>1
  <2>4. f \in Bijection(R, E)
    BY <2>1, <2>2, <2>3 DEF Bijection, Injection, Surjection, IsInjective
  <2>5. ExistsBijection(R, E)
    BY <2>4 DEF ExistsBijection
  <2>. QED BY <1>1, <2>5, FS_Bijection
<1>7. /\ s \in [1..N -> R] /\ \A m, n \in 1..N : s[m] = s[n] => m = n
      /\ \A i \in R : \E n \in 1..N : s[n] = i
      /\ \A m, n \in 1..N : m < n => sims[s[m]] >= sims[s[n]]
  BY <1>2 DEF Sorts
<1>8. s \in Seq(R) /\ Len(s) = N
  <2> HIDE DEF N
  <2>. QED BY <1>1, <1>7
<1>9. /\ ranked \in Seq(R) /\ Len(ranked) <= N /\ \A i \in 1..Len(ranked) : ranked[i] = s[i]
      /\ k >= 0 => Len(ranked) = Min({k, N})
  <2>1. LET r == Upto(s, k) IN
        /\ r \in Seq(R) /\ Len(r) <= Len(s) /\ \A i \in 1..Len(r) : r[i] = s[i]
        /\ k >= 0 => Len(r) = Min({k, Len(s)})
    BY <1>8, UptoIs
  <2> HIDE DEF N
  <2>. QED BY <1>8, <2>1
<1> HIDE DEF ranked, N
<1> DEFINE L == Len(ranked)
<1>10. L \in Nat /\ \A n \in 1..L : n \in 1..N /\ ranked[n] = s[n] /\ ranked[n] \in R
  BY <1>1, <1>9
<1> HIDE DEF L
<1>11. ranked \in Seq(1..M)
  <2>1. \A n \in 1..L : ranked[n] \in 1..M
    BY <1>1, <1>10
  <2>2. ranked \in [1..L -> 1..M]
    <3>1. DOMAIN ranked = 1..L /\ ranked = [n \in DOMAIN ranked |-> ranked[n]]
      BY <1>9 DEF L
    <3>. QED BY <2>1, <3>1
  <2>. QED BY <1>10, <2>2
<1>12. p \in Seq(E) /\ Len(p) = L /\ \A n \in 1..L : p[n] = order[s[n]]
  <2>1. \A n \in 1..L : order[ranked[n]] \in E
    BY <1>1, <1>3, <1>10
  <2>2. p \in [1..L -> E]
    BY <2>1 DEF L
  <2>3. \A n \in 1..L : p[n] = order[s[n]]
    BY <1>10 DEF L
  <2> HIDE DEF p
  <2>. QED BY <1>10, <2>2, <2>3
<1> HIDE DEF p
<1>13. \A n \in 1..N : s[n] \in R /\ s[n] \in 1..M
  BY <1>1, <1>7
<1>14. \A m, n \in 1..L : p[m] = p[n] => m = n
  BY <1>7, <1>10, <1>12, <1>13
<1>15. \A m, n \in 1..N : m < n => sim[order[s[m]]] >= sim[order[s[n]]]
  BY <1>7, <1>13
<1>16. ASSUME NEW n \in 1..L, NEW j \in E
       PROVE  sim[p[n]] >= sim[j] \/ \E m \in 1..L : p[m] = j
  <2>1. PICK i \in R : order[i] = j
    BY <1>5
  <2>2. PICK m \in 1..N : s[m] = i
    BY <1>7
  <2>3. CASE m \in 1..L
    BY <1>12, <2>1, <2>2, <2>3
  <2>4. CASE m \notin 1..L
    <3>1. n < m /\ n \in 1..N
      BY <1>1, <1>10, <2>4
    <3>. QED BY <1>12, <1>15, <2>1, <2>2, <3>1
  <2>. QED BY <2>3, <2>4
<1>17. Picks(p, sim, E, k)
  <2>1. k >= 0 => L = Min({k, Cardinality(E)})
    BY <1>6, <1>9 DEF L
  <2>2. \A m, n \in 1..L : m < n => sim[p[m]] >= sim[p[n]]
    BY <1>10, <1>12, <1>15
  <2>. QED BY <1>12, <1>14, <1>16, <2>1, <2>2 DEF Picks
<1>. QED BY <1>11, <1>17 DEF p, s, E, ranked, Ranked, At, AtLeast

\* The positions a filter lets pass, and their order.
Passing(pool, filtered) == {i \in DOMAIN pool : filtered => pool[i].passes}

Order(pool, filtered) == ByKey([i \in DOMAIN pool |-> 0], Passing(pool, filtered))

LEMMA CandidatesAre ==
  ASSUME NEW pool \in Seq(StoredContexts), NEW filtered
  PROVE  LET E0 == Passing(pool, filtered)
             M == Cardinality(E0)
             order == Order(pool, filtered)
             c == Candidates(pool, filtered)
         IN  /\ M \in Nat /\ order \in [1..M -> E0]
             /\ \A m, n \in 1..M : order[m] = order[n] => m = n
             /\ \A i \in E0 : \E n \in 1..M : order[n] = i
             /\ c \in Seq(StoredContexts) /\ Len(c) = M
             /\ \A n \in 1..M : /\ c[n].id = order[n] /\ c[n].similarity = pool[order[n]].similarity
                                /\ c[n].length = pool[order[n]].length /\ c[n].age = pool[order[n]].age
<1> DEFINE E0 == Passing(pool, filtered)
           M == Cardinality(E0)
           key == [i \in DOMAIN pool |-> 0]
           order == Order(pool, filtered)
           c == Candidates(pool, filtered)
<1>1. DOMAIN pool = 1..Len(pool) /\ Len(pool) \in Nat
  OBVIOUS
<1>2. E0 \subseteq 1..Len(pool) /\ IsFiniteSet(E0) /\ M \in Nat
  <2>1. E0 \subseteq 1..Len(pool) /\ IsFiniteSet(1..Len(pool))
    BY <1>1, FS_Interval DEF Passing
  <2> HIDE DEF E0
  <2>. QED BY <2>1, FS_Subset, FS_CardinalityType
<1>3. Sorts(order, key, E0)
  <2>1. \A i \in E0 : key[i] = 0
    BY <1>1, <1>2
  <2>2. order = ByKey(key, E0)
    BY DEF Order
  <2> HIDE DEF order, key, E0
  <2>3. E0 \subseteq Int /\ \A i \in E0 : key[i] \in Int
    BY <1>2, <2>1
  <2>. QED BY <1>2, <2>2, <2>3, ByKeySorts
<1>4. /\ order \in [1..M -> E0]
      /\ \A m, n \in 1..M : order[m] = order[n] => m = n
      /\ \A i \in E0 : \E n \in 1..M : order[n] = i
  BY <1>3 DEF Sorts
<1>5. c = [n \in DOMAIN order |-> [pool[order[n]] EXCEPT !.id = order[n]]]
  BY DEF Candidates, Order, Passing
<1> HIDE DEF E0, M, key, order, c
<1>6. ASSUME NEW n \in 1..M
      PROVE  /\ c[n] \in StoredContexts
             /\ c[n].id = order[n] /\ c[n].similarity = pool[order[n]].similarity
             /\ c[n].length = pool[order[n]].length /\ c[n].age = pool[order[n]].age
  <2> DEFINE i == order[n]
             x == pool[i]
  <2>1. i \in Nat /\ x \in StoredContexts
    <3>1. i \in E0
      BY <1>4
    <3>2. i \in 1..Len(pool)
      BY <1>2, <3>1
    <3> HIDE DEF i
    <3>. QED BY <1>1, <3>2
  <2>2. c[n] = [x EXCEPT !.id = i]
    BY <1>4, <1>5
  <2> HIDE DEF i, x
  <2>3. /\ [x EXCEPT !.id = i] \in StoredContexts
        /\ [x EXCEPT !.id = i].id = i /\ [x EXCEPT !.id = i].similarity = x.similarity
        /\ [x EXCEPT !.id = i].length = x.length /\ [x EXCEPT !.id = i].age = x.age
    BY <2>1 DEF StoredContexts
  <2>. QED BY <2>2, <2>3 DEF i, x
<1>7. c \in Seq(StoredContexts) /\ Len(c) = M
  <2>1. c \in [1..M -> StoredContexts]
    <3>1. DOMAIN order = 1..M
      BY <1>4
    <3>2. c = [n \in 1..M |-> c[n]]
      BY <1>5, <3>1
    <3>. QED BY <1>6, <3>2
  <2>. QED BY <1>2, <2>1
<1>. QED BY <1>2, <1>4, <1>6, <1>7 DEF E0, M, order, c

LEMMA Adjusts ==
  ASSUME NEW c \in StoredContexts, NEW d, NEW score \in Int, c.length = d.length, c.age = d.age
  PROVE  AdjustedScore(c, score) \in Int /\ AdjustedScore(c, score) = AdjustedScore(d, score)
<1>1. LengthFactor(c) \in {9, 10, 11} /\ LengthFactor(d) = LengthFactor(c)
  <2>1. CASE c.length = "short"
    <3>1. LengthFactor(c) = 11 /\ LengthFactor(d) = 11
      BY <2>1, Zenon DEF LengthFactor
    <3>. QED BY <3>1
  <2>2. CASE c.length = "long"
    <3>1. c.length # "short" /\ d.length # "short"
      BY <2>2
    <3>2. LengthFactor(c) = 9 /\ LengthFactor(d) = 9
      BY <2>2, <3>1, Zenon DEF LengthFactor
    <3>. QED BY <3>2
  <2>3. CASE c.length \notin {"short", "long"}
    <3>1. c.length # "short" /\ d.length # "short" /\ c.length # "long" /\ d.length # "long"
      BY <2>3
    <3>2. LengthFactor(c) = 10 /\ LengthFactor(d) = 10
      BY <3>1, Zenon DEF LengthFactor
    <3>. QED BY <3>2
  <2>. QED BY <2>1, <2>2, <2>3
<1>2. RecencyFactor(c) \in {100, 105} /\ RecencyFactor(d) = RecencyFactor(c)
  BY DEF RecencyFactor
<1>3. AdjustedScore(d, score) = AdjustedScore(c, score)
  BY <1>1, <1>2 DEF AdjustedScore
<1>4. AdjustedScore(c, score) \in Int
  <2> DEFINE a == score * LengthFactor(c) * RecencyFactor(c)
  <2>1. a \in Int /\ ScoreCap \in Int
    BY <1>1, <1>2 DEF ScoreCap, FactorScale
  <2> HIDE DEF a
  <2>2. Min({a, ScoreCap}) \in Int
    BY <2>1, TwoIntegers
  <2>. QED BY <2>2 DEF AdjustedScore, a
<1>. QED BY <1>3, <1>4

Scored == [context : StoredContexts, score : Int]

\* The results in an order by descending scores that are what each is worth.
Reorders(r, perm, results) ==
  LET L == Len(results) IN
  /\ perm \in [1..L -> 1..L] /\ \A m, n \in 1..L : perm[m] = perm[n] => m = n
  /\ \A i \in 1..L : \E n \in 1..L : perm[n] = i
  /\ DOMAIN r = 1..L /\ Len(r) = L
  /\ \A n \in 1..L : r[n].context = results[perm[n]].context
  /\ \A m, n \in 1..L : m < n => r[m].score >= r[n].score

LEMMA RerankReorders ==
  ASSUME NEW results \in Seq(Scored)
  PROVE  \E perm : /\ Reorders(Rerank(results), perm, results)
                   /\ \A n \in 1..Len(results) :
                        Rerank(results)[n].score =
                          AdjustedScore(results[perm[n]].context, results[perm[n]].score)
<1> DEFINE L == Len(results)
           key == [i \in DOMAIN results |-> AdjustedScore(results[i].context, results[i].score)]
           perm == ByKey(key, DOMAIN results)
           r == Rerank(results)
<1>1. L \in Nat /\ DOMAIN results = 1..L /\ \A i \in 1..L : results[i] \in Scored
  OBVIOUS
<1>2. \A i \in 1..L : key[i] \in Int
  <2> SUFFICES ASSUME NEW i \in 1..L PROVE key[i] \in Int
    OBVIOUS
  <2>1. results[i].context \in StoredContexts /\ results[i].score \in Int
    BY <1>1 DEF Scored
  <2>2. AdjustedScore(results[i].context, results[i].score) \in Int
    BY <2>1, Adjusts
  <2>. QED BY <1>1, <2>2
<1>3. IsFiniteSet(1..L) /\ Cardinality(1..L) = L
  <2> HIDE DEF L
  <2>1. /\ IsFiniteSet(1..L) /\ Cardinality(1..L) = IF 1 > L THEN 0 ELSE L - 1 + 1
    BY <1>1, FS_Interval
  <2>. QED BY <1>1, <2>1
<1>4. Sorts(perm, key, 1..L)
  <2>1. perm = ByKey(key, 1..L)
    BY <1>1
  <2> HIDE DEF perm, key, L
  <2>2. 1..L \subseteq Int
    BY <1>1
  <2>. QED BY <1>2, <1>3, <2>1, <2>2, ByKeySorts
<1>5. r = [n \in 1..L |-> [context |-> results[perm[n]].context, score |-> key[perm[n]]]]
  BY <1>1 DEF Rerank
<1>6. \A i \in 1..L : key[i] = AdjustedScore(results[i].context, results[i].score)
  BY <1>1
<1> HIDE DEF perm, key, L, r
<1>7. /\ perm \in [1..L -> 1..L] /\ \A m, n \in 1..L : perm[m] = perm[n] => m = n
      /\ \A i \in 1..L : \E n \in 1..L : perm[n] = i
      /\ \A m, n \in 1..L : m < n => key[perm[m]] >= key[perm[n]]
  BY <1>3, <1>4 DEF Sorts
<1>8. \A n \in 1..L : r[n].context = results[perm[n]].context /\ r[n].score = key[perm[n]]
  BY <1>5
<1>9. DOMAIN r = 1..L /\ Len(r) = L
  BY <1>1, <1>5
<1>10. \A m, n \in 1..L : m < n => r[m].score >= r[n].score
  BY <1>7, <1>8
<1>11. Reorders(r, perm, results)
  BY <1>7, <1>8, <1>9, <1>10 DEF Reorders, L
<1>12. \A n \in 1..L : r[n].score = AdjustedScore(results[perm[n]].context, results[perm[n]].score)
  BY <1>6, <1>7, <1>8
<1>. QED BY <1>11, <1>12 DEF r, L

\* The similarity search() gives each position of the pool.
Similar(pool, query) ==
  [i \in DOMAIN pool |-> IF query \in {"empty", "zero"} THEN 0 ELSE pool[i].similarity]

LEMMA PoolPicks ==
  ASSUME NEW pool \in Seq(StoredContexts), NEW query, NEW filtered, NEW threshold, NEW k \in Int
  PROVE  LET c == Candidates(pool, filtered)
             sims == Similarities(query, c)
             sim == Similar(pool, query)
             ranked == Ranked(sims, threshold, k)
             E == AtLeast(Passing(pool, filtered), sim, threshold)
         IN  /\ ranked \in Seq(1..Len(c))
             /\ Picks(At(Order(pool, filtered), ranked), sim, E, k)
             /\ \A n \in 1..Len(c) : sims[n] = sim[Order(pool, filtered)[n]] /\ sims[n] \in Int
<1> DEFINE E0 == Passing(pool, filtered)
           M == Cardinality(E0)
           order == Order(pool, filtered)
           c == Candidates(pool, filtered)
           sims == Similarities(query, c)
           sim == Similar(pool, query)
           ranked == Ranked(sims, threshold, k)
           E == AtLeast(E0, sim, threshold)
<1>1. /\ M \in Nat /\ order \in [1..M -> E0]
      /\ \A m, n \in 1..M : order[m] = order[n] => m = n
      /\ \A i \in E0 : \E n \in 1..M : order[n] = i
      /\ c \in Seq(StoredContexts) /\ Len(c) = M
      /\ \A n \in 1..M : c[n].similarity = pool[order[n]].similarity
  BY CandidatesAre
<1>2. E0 \subseteq DOMAIN pool
  BY DEF Passing
<1>3. \A n \in 1..M : sims[n] = (IF query \in {"empty", "zero"} THEN 0 ELSE c[n].similarity)
  <2> HIDE DEF c, M
  <2>1. DOMAIN c = 1..M
    BY <1>1
  <2>. QED BY <2>1 DEF Similarities
<1>4. DOMAIN sims = 1..M /\ sims = [n \in DOMAIN sims |-> sims[n]]
  <2> HIDE DEF c, M
  <2>1. DOMAIN c = 1..M
    BY <1>1
  <2>. QED BY <2>1 DEF Similarities
<1>5. \A i \in E0 : sim[i] = (IF query \in {"empty", "zero"} THEN 0 ELSE pool[i].similarity)
  <2> HIDE DEF E0
  <2>. QED BY <1>2 DEF Similar
<1> HIDE DEF E0, M, order, c, sims, sim
<1>6. \A n \in 1..M : sims[n] = sim[order[n]] /\ sims[n] \in Int
  <2> SUFFICES ASSUME NEW n \in 1..M PROVE sims[n] = sim[order[n]] /\ sims[n] \in Int
    OBVIOUS
  <2>1. order[n] \in E0 /\ c[n] \in StoredContexts
    BY <1>1
  <2>2. c[n].similarity \in Int
    BY <2>1 DEF StoredContexts
  <2>. QED BY <1>1, <1>3, <1>5, <2>1, <2>2
<1>7. sims \in [1..M -> Int]
  BY <1>4, <1>6
<1>8. ranked \in Seq(1..M) /\ Picks(At(order, ranked), sim, E, k)
  <2>1. /\ M \in Nat /\ order \in [1..M -> E0]
        /\ \A m, n \in 1..M : order[m] = order[n] => m = n
        /\ \A i \in E0 : \E n \in 1..M : order[n] = i
    BY <1>1
  <2>2. sims \in [1..M -> Int] /\ \A n \in 1..M : sims[n] = sim[order[n]]
    BY <1>6, <1>7
  <2>. QED BY <2>1, <2>2, SelectionPicks
<1> HIDE DEF ranked, E
<1>. QED BY <1>1, <1>6, <1>8 DEF E, E0, ranked, sims, sim, c, order

\* What search() finds before it reranks.
Primary(pool, call) ==
  LET c == Candidates(pool, call.filtered)
      sims == Similarities(call.query, c)
      ranked == Ranked(sims, Given(call.threshold, DefaultThreshold),
                       Min({Given(call.topK, DefaultTopK), MaxResults}))
  IN  [n \in DOMAIN ranked |-> [context |-> c[ranked[n]], score |-> sims[ranked[n]]]]

\* The positions of what it finds, and that each result is what its position says.
LEMMA PrimaryIs ==
  ASSUME NEW pool \in Seq(StoredContexts), NEW call,
         Min({Given(call.topK, DefaultTopK), MaxResults}) \in Int
  PROVE  LET r == Primary(pool, call)
             sim == Similar(pool, call.query)
             threshold == Given(call.threshold, DefaultThreshold)
             E == AtLeast(Passing(pool, call.filtered), sim, threshold)
         IN  /\ r \in Seq(Scored)
             /\ \E p : /\ Picks(p, sim, E, Min({Given(call.topK, DefaultTopK), MaxResults}))
                       /\ Len(p) = Len(r)
                       /\ \A n \in 1..Len(r) :
                            /\ r[n].context.id = p[n] /\ r[n].score = sim[p[n]]
                            /\ r[n].context.length = pool[p[n]].length
                            /\ r[n].context.age = pool[p[n]].age
<1> DEFINE k == Min({Given(call.topK, DefaultTopK), MaxResults})
           threshold == Given(call.threshold, DefaultThreshold)
           filtered == call.filtered
           query == call.query
           c == Candidates(pool, filtered)
           sims == Similarities(query, c)
           sim == Similar(pool, query)
           order == Order(pool, filtered)
           ranked == Ranked(sims, threshold, k)
           E == AtLeast(Passing(pool, filtered), sim, threshold)
           p == At(Order(pool, filtered), ranked)
           r == Primary(pool, call)
<1>1. /\ ranked \in Seq(1..Len(c)) /\ Picks(p, sim, E, k)
      /\ \A n \in 1..Len(c) : sims[n] = sim[order[n]] /\ sims[n] \in Int
  <2> HIDE DEF k, threshold, filtered, query
  <2>. QED BY PoolPicks DEF k
<1>2. /\ c \in Seq(StoredContexts)
      /\ \A n \in 1..Len(c) : /\ c[n].id = order[n]
                              /\ c[n].length = pool[order[n]].length /\ c[n].age = pool[order[n]].age
  BY CandidatesAre
<1>3. r = [n \in DOMAIN ranked |-> [context |-> c[ranked[n]], score |-> sims[ranked[n]]]]
  BY DEF Primary
<1>4. p = [n \in 1..Len(ranked) |-> order[ranked[n]]]
  BY DEF At, p
<1> HIDE DEF c, sims, sim, order, ranked, E, p, r, k
<1>5. Len(ranked) \in Nat /\ DOMAIN ranked = 1..Len(ranked) /\ \A n \in 1..Len(ranked) : ranked[n] \in 1..Len(c)
  BY <1>1
<1>6. \A n \in 1..Len(c) : c[n] \in StoredContexts
  BY <1>2
<1>7. ASSUME NEW n \in 1..Len(ranked)
      PROVE  /\ r[n] \in Scored /\ r[n].context.id = p[n] /\ r[n].score = sim[p[n]]
             /\ r[n].context.length = pool[p[n]].length /\ r[n].context.age = pool[p[n]].age
  <2>1. r[n] = [context |-> c[ranked[n]], score |-> sims[ranked[n]]] /\ p[n] = order[ranked[n]]
    BY <1>3, <1>4, <1>5
  <2>2. r[n].context = c[ranked[n]] /\ r[n].score = sims[ranked[n]]
    BY <2>1
  <2>3. r[n] \in Scored
    BY <1>1, <1>5, <1>6, <2>1 DEF Scored
  <2>. QED BY <1>1, <1>2, <1>5, <2>1, <2>2, <2>3
<1>8. r \in Seq(Scored) /\ Len(r) = Len(ranked)
  <2>1. r \in [1..Len(ranked) -> Scored]
    BY <1>3, <1>5, <1>7
  <2>. QED BY <1>5, <2>1
<1>9. Len(p) = Len(ranked)
  BY <1>4, <1>5
<1>10. \E q : /\ Picks(q, sim, E, k) /\ Len(q) = Len(r)
               /\ \A n \in 1..Len(r) : /\ r[n].context.id = q[n] /\ r[n].score = sim[q[n]]
                                       /\ r[n].context.length = pool[q[n]].length
                                       /\ r[n].context.age = pool[q[n]].age
  <2>1. \A n \in 1..Len(r) : /\ r[n].context.id = p[n] /\ r[n].score = sim[p[n]]
                             /\ r[n].context.length = pool[p[n]].length
                             /\ r[n].context.age = pool[p[n]].age
    BY <1>7, <1>8
  <2>2. Picks(p, sim, E, k) /\ Len(p) = Len(r)
    BY <1>1, <1>8, <1>9
  <2>. QED BY <2>1, <2>2
<1>. QED BY <1>8, <1>10, Zenon DEF r, sim, E, k

\* search() reorders what it found, or leaves it.
LEMMA SearchReorders ==
  ASSUME NEW pool, NEW call, Primary(pool, call) \in Seq(Scored),
         \A m, n \in 1..Len(Primary(pool, call)) :
           m < n => Primary(pool, call)[m].score >= Primary(pool, call)[n].score
  PROVE  LET r == Search(pool, call)
             found == Primary(pool, call)
         IN  \E perm :
               /\ Reorders(r, perm, found)
               /\ \A n \in 1..Len(found) :
                    r[n].score = IF Given(call.reranked, RerankingEnabled)
                                 THEN AdjustedScore(found[perm[n]].context, found[perm[n]].score)
                                 ELSE found[perm[n]].score
<1> DEFINE r == Search(pool, call)
           found == Primary(pool, call)
           reranked == Given(call.reranked, RerankingEnabled)
           L == Len(found)
<1>1. r = IF reranked THEN Rerank(found) ELSE found
  BY DEF Search, Primary, Ranked
<1>2. L \in Nat /\ DOMAIN found = 1..L
  OBVIOUS
<1> HIDE DEF r, found, reranked
<1>3. CASE reranked
  <2>1. r = Rerank(found)
    BY <1>1, <1>3
  <2>2. PICK perm : /\ Reorders(Rerank(found), perm, found)
                    /\ \A n \in 1..Len(found) :
                         Rerank(found)[n].score = AdjustedScore(found[perm[n]].context, found[perm[n]].score)
    BY RerankReorders DEF found
  <2>3. /\ Reorders(r, perm, found)
        /\ \A n \in 1..Len(found) :
             r[n].score = IF reranked THEN AdjustedScore(found[perm[n]].context, found[perm[n]].score)
                          ELSE found[perm[n]].score
    BY <1>3, <2>1, <2>2
  <2>. QED BY <2>3, Zenon DEF r, found, reranked
<1>4. CASE ~reranked
  <2> DEFINE perm == [n \in 1..L |-> n]
  <2>1. r = found
    BY <1>1, <1>4
  <2>2. \A n \in 1..L : perm[n] = n
    OBVIOUS
  <2>3. perm \in [1..L -> 1..L]
    OBVIOUS
  <2> HIDE DEF perm
  <2>4. \A m, n \in 1..L : m < n => found[m].score >= found[n].score
    BY DEF found
  <2>5. Reorders(r, perm, found)
    <3> HIDE DEF L
    <3>1. /\ perm \in [1..L -> 1..L] /\ \A m, n \in 1..L : perm[m] = perm[n] => m = n
          /\ \A i \in 1..L : \E n \in 1..L : perm[n] = i
      BY <2>2, <2>3
    <3>2. DOMAIN r = 1..L /\ Len(r) = L /\ \A n \in 1..L : r[n].context = found[perm[n]].context
      BY <1>2, <2>1, <2>2 DEF L
    <3>. QED BY <2>1, <2>4, <3>1, <3>2 DEF Reorders, L
  <2>6. \A n \in 1..Len(found) :
          r[n].score = IF reranked THEN AdjustedScore(found[perm[n]].context, found[perm[n]].score)
                       ELSE found[perm[n]].score
    BY <1>4, <2>1, <2>2
  <2>. QED BY <2>5, <2>6, Zenon DEF r, found, reranked
<1>. QED BY <1>3, <1>4

LEMMA SearchReturns ==
  ASSUME NEW pool \in Seq(StoredContexts), NEW call,
         call.topK \in Int \cup {None}, call.threshold \in Int \cup {None}
  PROVE  ReturnsTheBest(pool, call, Search(pool, call))
<1> DEFINE k == Min({Given(call.topK, DefaultTopK), MaxResults})
           threshold == Given(call.threshold, DefaultThreshold)
           reranked == Given(call.reranked, RerankingEnabled)
           found == Primary(pool, call)
           sim == Similar(pool, call.query)
           E == AtLeast(Passing(pool, call.filtered), sim, threshold)
           results == Search(pool, call)
           L == Len(found)
           Similarity(i) == IF call.query \in {"empty", "zero"} THEN 0 ELSE pool[i].similarity
           eligible == {i \in DOMAIN pool : /\ call.filtered => pool[i].passes
                                            /\ Similarity(i) >= Given(call.threshold, DefaultThreshold)}
           returned == {results[n].context.id : n \in DOMAIN results}
<1>1. threshold \in Int /\ threshold # None /\ k \in Int
  <2>1. Given(call.threshold, DefaultThreshold) \in Int /\ Given(call.topK, DefaultTopK) \in Int
    BY SearchAssumption DEF Given
  <2>2. k \in Int
    BY <2>1, SearchAssumption, TwoIntegers
  <2>. QED BY <2>1, <2>2, SearchAssumption
<1>2. /\ found \in Seq(Scored)
      /\ \E p : /\ Picks(p, sim, E, k) /\ Len(p) = L
                /\ \A n \in 1..L : /\ found[n].context.id = p[n] /\ found[n].score = sim[p[n]]
                                   /\ found[n].context.length = pool[p[n]].length
                                   /\ found[n].context.age = pool[p[n]].age
  BY <1>1, PrimaryIs
<1>3. PICK p : /\ Picks(p, sim, E, k) /\ Len(p) = L
               /\ \A n \in 1..L : /\ found[n].context.id = p[n] /\ found[n].score = sim[p[n]]
                                  /\ found[n].context.length = pool[p[n]].length
                                  /\ found[n].context.age = pool[p[n]].age
  BY <1>2
<1>4. \A i \in DOMAIN pool : sim[i] = Similarity(i) /\ sim[i] \in Int
  <2> SUFFICES ASSUME NEW i \in DOMAIN pool PROVE sim[i] = Similarity(i) /\ sim[i] \in Int
    OBVIOUS
  <2>1. sim[i] = Similarity(i)
    BY DEF Similar
  <2>2. pool[i] \in StoredContexts
    OBVIOUS
  <2>3. pool[i].similarity \in Int
    BY <2>2 DEF StoredContexts
  <2> HIDE DEF sim
  <2>. QED BY <2>1, <2>3
<1> HIDE DEF sim
<1>5. E = eligible /\ E \subseteq DOMAIN pool
  <2> HIDE DEF Similarity
  <2>1. E = {i \in Passing(pool, call.filtered) : sim[i] >= threshold}
    BY <1>1 DEF AtLeast
  <2>. QED BY <1>4, <2>1 DEF Passing
<1> HIDE DEF E, eligible, k, found
<1>6. /\ p \in Seq(E) /\ \A m, n \in 1..L : p[m] = p[n] => m = n
      /\ k >= 0 => L = Min({k, Cardinality(E)})
      /\ \A n \in 1..L, j \in E : sim[p[n]] >= sim[j] \/ \E m \in 1..L : p[m] = j
      /\ \A m, n \in 1..L : m < n => sim[p[m]] >= sim[p[n]]
  BY <1>3 DEF Picks
<1>7. L \in Nat /\ \A n \in 1..L : p[n] \in E
  <2>1. L \in Nat
    BY <1>2
  <2> HIDE DEF L
  <2>. QED BY <1>3, <1>6, <2>1
<1>8. PICK perm : /\ Reorders(results, perm, found)
                  /\ \A n \in 1..L :
                       results[n].score = IF reranked
                                          THEN AdjustedScore(found[perm[n]].context, found[perm[n]].score)
                                          ELSE found[perm[n]].score
  <2>1. \A m, n \in 1..L : m < n => found[m].score >= found[n].score
    BY <1>3, <1>6
  <2>2. LET r == Search(pool, call)
            f == Primary(pool, call)
        IN  \E perm :
              /\ Reorders(r, perm, f)
              /\ \A n \in 1..Len(f) :
                   r[n].score = IF Given(call.reranked, RerankingEnabled)
                                THEN AdjustedScore(f[perm[n]].context, f[perm[n]].score)
                                ELSE f[perm[n]].score
    <3>1. /\ Primary(pool, call) \in Seq(Scored)
          /\ \A m, n \in 1..Len(Primary(pool, call)) :
               m < n => Primary(pool, call)[m].score >= Primary(pool, call)[n].score
      BY <1>2, <2>1 DEF found
    <3>. QED BY <3>1, SearchReorders
  <2>. QED BY <2>2, Zenon DEF found
<1> HIDE DEF results, reranked
<1>9. /\ perm \in [1..L -> 1..L] /\ \A m, n \in 1..L : perm[m] = perm[n] => m = n
      /\ \A i \in 1..L : \E n \in 1..L : perm[n] = i
      /\ DOMAIN results = 1..L /\ Len(results) = L
      /\ \A n \in 1..L : results[n].context = found[perm[n]].context
      /\ \A m, n \in 1..L : m < n => results[m].score >= results[n].score
  BY <1>8 DEF Reorders
<1> DEFINE q == [n \in 1..L |-> p[perm[n]]]
<1>10. \A n \in 1..L : q[n] = p[perm[n]] /\ q[n] \in E /\ results[n].context.id = q[n]
  <2> HIDE DEF L
  <2>1. \A n \in 1..L : q[n] = p[perm[n]]
    OBVIOUS
  <2> HIDE DEF q
  <2>2. \A n \in 1..L : perm[n] \in 1..L
    BY <1>9
  <2>3. \A n \in 1..L : results[n].context.id = p[perm[n]]
    BY <1>3, <1>9, <2>2
  <2>. QED BY <1>7, <2>1, <2>2, <2>3
<1>11. /\ q \in [1..L -> E] /\ \A m, n \in 1..L : q[m] = q[n] => m = n
  <2> HIDE DEF L
  <2>1. q \in [1..L -> E]
    <3>1. q = [n \in 1..L |-> q[n]]
      OBVIOUS
    <3> HIDE DEF q
    <3>. QED BY <1>10, <3>1
  <2> HIDE DEF q
  <2>2. ASSUME NEW m \in 1..L, NEW n \in 1..L, q[m] = q[n] PROVE m = n
    <3>1. perm[m] \in 1..L /\ perm[n] \in 1..L /\ p[perm[m]] = p[perm[n]]
      BY <1>9, <1>10, <2>2
    <3>2. perm[m] = perm[n]
      BY <1>6, <3>1
    <3>. QED BY <1>9, <3>2
  <2>. QED BY <2>1, <2>2
<1>12. \A i \in 1..L : \E n \in 1..L : q[n] = p[i]
  <2> HIDE DEF q, L
  <2> SUFFICES ASSUME NEW i \in 1..L PROVE \E n \in 1..L : q[n] = p[i]
    OBVIOUS
  <2>1. PICK n \in 1..L : perm[n] = i
    BY <1>9
  <2>2. q[n] = p[i]
    BY <1>10, <2>1
  <2>. QED BY <2>2
<1> HIDE DEF q, L
<1>13. \A n \in 1..L : q[n] \in returned
  <2> SUFFICES ASSUME NEW n \in 1..L PROVE q[n] \in returned
    OBVIOUS
  <2>1. n \in DOMAIN results
    BY <1>9
  <2>2. results[n].context.id = q[n]
    BY <1>10
  <2>. QED BY <2>1, <2>2
<1>14. returned \subseteq E /\ \A n \in 1..L : p[n] \in returned
  <2>1. \A n \in 1..L : q[n] \in returned
    BY <1>13
  <2>2. returned \subseteq E
    <3> SUFFICES ASSUME NEW m \in DOMAIN results PROVE results[m].context.id \in E
      OBVIOUS
    <3>1. m \in 1..L
      BY <1>9
    <3>2. q[m] \in E /\ results[m].context.id = q[m]
      BY <1>10, <3>1
    <3>. QED BY <3>2
  <2> HIDE DEF returned
  <2>. QED BY <1>12, <2>1, <2>2
<1>15. \A i \in returned : \E n \in 1..L : q[n] = i
  <2> SUFFICES ASSUME NEW m \in DOMAIN results PROVE \E n \in 1..L : q[n] = results[m].context.id
    OBVIOUS
  <2>1. m \in 1..L
    BY <1>9
  <2>2. q[m] = results[m].context.id
    BY <1>10, <2>1
  <2>. QED BY <2>1, <2>2
<1> HIDE DEF returned
<1>16. Cardinality(returned) = L
  <2>1. q \in [1..L -> returned]
    <3>1. \A n \in 1..L : q[n] \in returned
      BY <1>13
    <3>. QED BY <1>11, <3>1
  <2>2. q \in Bijection(1..L, returned)
    BY <1>11, <1>15, <2>1 DEF Bijection, Injection, Surjection, IsInjective
  <2>3. ExistsBijection(1..L, returned)
    BY <2>2 DEF ExistsBijection
  <2>4. IsFiniteSet(1..L) /\ Cardinality(1..L) = IF 1 > L THEN 0 ELSE L - 1 + 1
    BY <1>7, FS_Interval
  <2>5. Cardinality(1..L) = L
    BY <1>7, <2>4
  <2>. QED BY <2>3, <2>4, <2>5, FS_Bijection
<1>17. \A i \in returned, j \in E \ returned : sim[i] >= sim[j]
  <2> SUFFICES ASSUME NEW i \in returned, NEW j \in E \ returned PROVE sim[i] >= sim[j]
    OBVIOUS
  <2>1. PICK n \in 1..L : q[n] = i
    BY <1>15
  <2>2. perm[n] \in 1..L /\ i = p[perm[n]]
    BY <1>9, <1>10, <2>1
  <2>3. ~ \E m \in 1..L : p[m] = j
    BY <1>14
  <2>. QED BY <1>6, <2>2, <2>3
<1>18. ASSUME NEW n \in 1..L
       PROVE  results[n].score = IF reranked THEN AdjustedScore(pool[q[n]], sim[q[n]]) ELSE sim[q[n]]
  <2> DEFINE i == perm[n]
             c == found[i].context
  <2>1. i \in 1..L /\ p[i] = q[n] /\ q[n] \in DOMAIN pool
    BY <1>5, <1>9, <1>10
  <2>2. c \in StoredContexts /\ c.length = pool[q[n]].length /\ c.age = pool[q[n]].age
    <3>1. found[i] \in Scored
      <4>1. i \in 1..Len(found)
        BY <2>1 DEF L
      <4> HIDE DEF i
      <4>. QED BY <1>2, <4>1
    <3>2. c \in StoredContexts
      BY <3>1 DEF Scored
    <3>. QED BY <1>3, <2>1, <3>2
  <2>3. found[i].score = sim[q[n]] /\ sim[q[n]] \in Int
    BY <1>3, <1>4, <2>1
  <2> HIDE DEF i, c
  <2>4. AdjustedScore(c, sim[q[n]]) = AdjustedScore(pool[q[n]], sim[q[n]])
    BY <2>2, <2>3, Adjusts
  <2>5. results[n].score = IF reranked THEN AdjustedScore(c, found[i].score) ELSE found[i].score
    BY <1>8 DEF i, c
  <2>. QED BY <2>3, <2>4, <2>5
<1>19. /\ \A i \in returned, j \in E \ returned : Similarity(i) >= Similarity(j)
       /\ \A n \in 1..L : LET i == results[n].context.id IN
            results[n].score = IF reranked THEN AdjustedScore(pool[i], Similarity(i)) ELSE Similarity(i)
  <2> HIDE DEF Similarity
  <2>1. \A i \in returned, j \in E \ returned : Similarity(i) >= Similarity(j)
    <3>1. \A i \in E : sim[i] = Similarity(i)
      BY <1>4, <1>5
    <3>. QED BY <1>14, <1>17, <3>1
  <2>2. ASSUME NEW n \in 1..L
        PROVE  results[n].score = IF reranked THEN AdjustedScore(pool[q[n]], Similarity(q[n]))
                                  ELSE Similarity(q[n])
    <3>1. sim[q[n]] = Similarity(q[n])
      BY <1>4, <1>5, <1>10
    <3>. QED BY <1>18, <3>1
  <2>. QED BY <1>10, <2>1, <2>2
<1>20. \A n \in 2..Len(results) : results[n - 1].score >= results[n].score
  <2> SUFFICES ASSUME NEW n \in 2..L PROVE results[n - 1].score >= results[n].score
    BY <1>9
  <2>1. n - 1 \in 1..L /\ n \in 1..L /\ n - 1 < n
    BY <1>7
  <2>. QED BY <1>9, <2>1
<1> HIDE DEF Similarity
<1>21. /\ returned \subseteq eligible
       /\ Cardinality(returned) = Len(results)
       /\ k >= 0 => Len(results) = Min({k, Cardinality(eligible)})
       /\ \A i \in returned, j \in eligible \ returned : Similarity(i) >= Similarity(j)
       /\ \A n \in DOMAIN results :
            LET i == results[n].context.id IN
            results[n].score = IF reranked THEN AdjustedScore(pool[i], Similarity(i)) ELSE Similarity(i)
       /\ \A n \in 2..Len(results) : results[n - 1].score >= results[n].score
  BY <1>5, <1>6, <1>9, <1>14, <1>16, <1>19, <1>20, Zenon
<1>22. ReturnsTheBest(pool, call, results)
  BY <1>21, Zenon DEF ReturnsTheBest, returned, eligible, Similarity, k, reranked
<1>. QED BY <1>22 DEF results

\* Without a filter the candidates are the pool.
LEMMA AllInOrder ==
  ASSUME NEW pool \in Seq(StoredContexts)
  PROVE  /\ Passing(pool, FALSE) = 1..Len(pool) /\ Len(Candidates(pool, FALSE)) = Len(pool)
         /\ \A n \in 1..Len(pool) : Order(pool, FALSE)[n] = n
<1> DEFINE N == Len(pool)
           S == Passing(pool, FALSE)
           key == [i \in DOMAIN pool |-> 0]
<1>1. N \in Nat /\ DOMAIN pool = 1..N
  OBVIOUS
<1>2. S = 1..N /\ \A i \in 1..N : key[i] = 0
  BY <1>1 DEF Passing
<1>3. \A i \in Nat : Cardinality(1..i) = i
  <2> SUFFICES ASSUME NEW i \in Nat PROVE Cardinality(1..i) = i
    OBVIOUS
  <2>1. Cardinality(1..i) = IF 1 > i THEN 0 ELSE i - 1 + 1
    BY FS_Interval
  <2>. QED BY <2>1
<1>4. Len(Candidates(pool, FALSE)) = N
  <2>1. Len(Candidates(pool, FALSE)) = Cardinality(S)
    BY CandidatesAre
  <2> HIDE DEF S, N
  <2>. QED BY <1>1, <1>2, <1>3, <2>1
<1>5. ASSUME NEW n \in 1..N PROVE Order(pool, FALSE)[n] = n
  <2> DEFINE P(i) == Cardinality(Ahead(key, S, i)) = n - 1
  <2>1. Cardinality(S) = N
    BY <1>1, <1>2, <1>3
  <2>2. Order(pool, FALSE)[n] = CHOOSE i \in S : P(i)
    BY <2>1 DEF Order, ByKey
  <2>3. \A i \in 1..N : Cardinality(Ahead(key, S, i)) = i - 1
    <3> SUFFICES ASSUME NEW i \in 1..N PROVE Cardinality(Ahead(key, S, i)) = i - 1
      OBVIOUS
    <3>1. Ahead(key, S, i) = 1..(i - 1)
      <4> HIDE DEF key, S, N
      <4>1. Ahead(key, S, i) = {j \in 1..N : j < i}
        BY <1>2 DEF Ahead
      <4>2. {j \in 1..N : j < i} = 1..(i - 1)
        BY <1>1
      <4>. QED BY <4>1, <4>2
    <3>2. i - 1 \in Nat
      BY <1>1
    <3>. QED BY <1>3, <3>1, <3>2
  <2>4. \A i \in S : P(i) <=> i = n
    <3> HIDE DEF key, S, N
    <3>1. \A i \in 1..N : i - 1 = n - 1 <=> i = n
      BY <1>1
    <3>. QED BY <1>2, <2>3, <3>1
  <2> HIDE DEF P, S, key
  <2>. QED BY <1>2, <2>2, <2>4
<1>. QED BY <1>2, <1>4, <1>5

\* No position is found while a more similar one is not found before it.
BestFirst(pool, query, out) ==
  LET Similarity(i) == IF query = "fine" THEN pool[i].similarity ELSE 0
  IN  \A n \in DOMAIN out, i \in DOMAIN pool :
        Similarity(i) > Similarity(out[n]) => \E m \in 1..n : out[m] = i

LEMMA TopKIsTheBest ==
  ASSUME NEW pool \in Seq(StoredContexts), NEW query \in {"fine", "empty", "zero"},
         NEW k \in Int, NEW threshold \in Int \cup {None}
  PROVE  BestFirst(pool, query, FindTopK(query, Candidates(pool, FALSE), k, threshold))
<1> DEFINE out == FindTopK(query, Candidates(pool, FALSE), k, threshold)
           Similarity(i) == IF query = "fine" THEN pool[i].similarity ELSE 0
           c == Candidates(pool, FALSE)
           sim == Similar(pool, query)
           order == Order(pool, FALSE)
           ranked == Ranked(Similarities(query, c), threshold, k)
           E == AtLeast(Passing(pool, FALSE), sim, threshold)
           p == At(order, ranked)
           N == Len(pool)
<1>1. Passing(pool, FALSE) = 1..N /\ Len(c) = N /\ \A n \in 1..N : order[n] = n
  BY AllInOrder
<1>2. ranked \in Seq(1..N) /\ Picks(p, sim, E, k)
  <2>1. ranked \in Seq(1..Len(c)) /\ Picks(p, sim, E, k)
    BY PoolPicks
  <2> HIDE DEF ranked, p, sim, E, c
  <2>. QED BY <1>1, <2>1
<1>3. N \in Nat /\ DOMAIN pool = 1..N
  OBVIOUS
<1>4. \A i \in 1..N : sim[i] = Similarity(i) /\ sim[i] \in Int
  <2> SUFFICES ASSUME NEW i \in 1..N PROVE sim[i] = Similarity(i) /\ sim[i] \in Int
    OBVIOUS
  <2>1. sim[i] = Similarity(i)
    BY <1>3 DEF Similar
  <2>2. pool[i] \in StoredContexts
    OBVIOUS
  <2>3. pool[i].similarity \in Int
    BY <2>2 DEF StoredContexts
  <2> HIDE DEF sim
  <2>. QED BY <2>1, <2>3
<1>5. CASE k <= 0
  <2>1. out = <<>>
    BY <1>5, Zenon DEF FindTopK
  <2> HIDE DEF out
  <2>2. DOMAIN out = {}
    BY <2>1
  <2>3. \A n \in DOMAIN out, i \in DOMAIN pool :
          Similarity(i) > Similarity(out[n]) => \E m \in 1..n : out[m] = i
    BY <2>2, Zenon
  <2>. QED BY <2>3, Zenon DEF out, BestFirst
<1>6. CASE k > 0
  <2>1. out = ranked
    <3>1. ~(k <= 0)
      BY <1>6
    <3>. QED BY <3>1, Zenon DEF FindTopK, Ranked
  <2>2. p = [n \in 1..Len(ranked) |-> order[ranked[n]]]
    BY DEF At
  <2>3. \A i \in E : threshold = None \/ sim[i] >= threshold
    BY DEF AtLeast
  <2>4. \A i \in 1..N : threshold = None \/ sim[i] >= threshold => i \in E
    BY <1>1 DEF AtLeast
  <2> HIDE DEF out, ranked, p, sim, E, c, order, N
  <2> DEFINE L == Len(ranked)
  <2>5. L \in Nat /\ DOMAIN ranked = 1..L /\ \A n \in 1..L : ranked[n] \in 1..N /\ p[n] = ranked[n]
    BY <1>1, <1>2, <2>2
  <2>6. Len(p) = L
    BY <2>2, <2>5
  <2> HIDE DEF L
  <2>7. /\ p \in Seq(E)
        /\ \A n \in 1..L, j \in E : sim[p[n]] >= sim[j] \/ \E m \in 1..L : p[m] = j
        /\ \A m, n \in 1..L : m < n => sim[p[m]] >= sim[p[n]]
    BY <1>2, <2>6 DEF Picks
  <2>8. ASSUME NEW n \in 1..L, NEW i \in 1..N, sim[i] > sim[ranked[n]]
        PROVE  \E m \in 1..n : ranked[m] = i
    <3>1. p[n] \in E /\ p[n] = ranked[n] /\ ranked[n] \in 1..N
      BY <2>5, <2>6, <2>7
    <3>2. sim[i] \in Int /\ sim[ranked[n]] \in Int /\ ~(sim[ranked[n]] >= sim[i])
      BY <1>4, <2>8, <3>1
    <3>3. i \in E
      <4>1. threshold = None \/ (threshold \in Int /\ sim[ranked[n]] >= threshold)
        BY <2>3, <3>1
      <4>2. threshold = None \/ sim[i] >= threshold
        BY <2>8, <3>2, <4>1
      <4>. QED BY <2>4, <4>2
    <3>4. PICK m \in 1..L : p[m] = i
      BY <2>7, <3>1, <3>2, <3>3
    <3>5. ~(n < m)
      BY <2>7, <3>1, <3>2, <3>4
    <3>6. m \in 1..n
      BY <2>5, <3>5
    <3>. QED BY <2>5, <3>4, <3>6
  <2>9. \A n \in DOMAIN out, i \in DOMAIN pool :
          Similarity(i) > Similarity(out[n]) => \E m \in 1..n : out[m] = i
    <3> HIDE DEF Similarity
    <3> SUFFICES ASSUME NEW n \in 1..L, NEW i \in 1..N, Similarity(i) > Similarity(ranked[n])
                 PROVE  \E m \in 1..n : ranked[m] = i
      BY <1>3, <2>1, <2>5
    <3>1. sim[i] > sim[ranked[n]]
      BY <1>4, <2>5
    <3>. QED BY <2>8, <3>1
  <2>. QED BY <2>9, Zenon DEF out, BestFirst
<1>7. k <= 0 \/ k > 0
  OBVIOUS
<1>. QED BY <1>5, <1>6, <1>7, Zenon

-----------------------------------------------------------------------------
(* Algorithms. *)

LEMMA LosesNothingStep == NothingLostUntold /\ [AlgorithmNext]_job => NothingLostUntold'
<1> SUFFICES ASSUME NothingLostUntold, [AlgorithmNext]_job PROVE NothingLostUntold'
  OBVIOUS
<1>1. CASE Chunks
  <2>1. PICK t \in Texts, o \in ChunkOptions :
          Returns("chunks", [text |-> t, options |-> o],
                  IF t # <<>> /\ OptionsRefused(o) THEN None ELSE ChunkText(t, o))
    BY <1>1 DEF Chunks
  <2> DEFINE out == IF t # <<>> /\ OptionsRefused(o) THEN None ELSE ChunkText(t, o)
  <2>2. ASSUME out # None PROVE ChunksCover(t, o, out)
    <3>1. out = ChunkText(t, o) /\ (t = <<>> \/ ~OptionsRefused(o))
      BY <2>2
    <3>2. t \in Seq(Characters) /\ o \in Options(Characters)
      BY ChunkingAssumption DEF Options
    <3>3. ChunksCover(t, o, ChunkText(t, o))
      BY <3>1, <3>2, ChunksCoverAll
    <3>. QED BY <3>1, <3>3
  <2> HIDE DEF out
  <2>3. job' = [name |-> "chunks", in |-> [text |-> t, options |-> o], out |-> out]
    BY <2>1 DEF Returns, out
  <2>4. job'.name = "chunks" /\ job'.in.text = t /\ job'.in.options = o /\ job'.out = out
    BY <2>3
  <2>. QED BY <2>2, <2>4 DEF NothingLostUntold, Did
<1>2. CASE GroupsUnits
  <2>1. PICK c \in GroupCalls : Returns("groups", c, Groups(c.n, c.max, c.overlap))
    BY <1>2 DEF GroupsUnits
  <2>2. GroupsCover(c.n, c.max, c.overlap, Groups(c.n, c.max, c.overlap))
    BY ChunkingAssumption, GroupsCoverAll
  <2>3. job'.name = "groups" /\ job'.in = c /\ job'.out = Groups(c.n, c.max, c.overlap)
    BY <2>1 DEF Returns
  <2>. QED BY <2>2, <2>3 DEF NothingLostUntold, Did
<1>3. CASE CallsTool
  <2>1. PICK c \in ToolCalls, page \in Pages :
          Returns("tool", [call |-> c, page |-> page], Execute(c.tool, c.args, c.client, page))
    BY <1>3 DEF CallsTool
  <2> DEFINE out == Execute(c.tool, c.args, c.client, page)
  <2>2. ToolAnswers(c.tool, c.args, c.client, page, out)
    BY ToolsAssumption, ToolAnswersAll
  <2> HIDE DEF out
  <2>3. job' = [name |-> "tool", in |-> [call |-> c, page |-> page], out |-> out]
    BY <2>1 DEF Returns, out
  <2>4. job'.name = "tool" /\ job'.in.call = c /\ job'.in.page = page /\ job'.out = out
    BY <2>3
  <2>. QED BY <2>2, <2>4 DEF NothingLostUntold, Did
<1>4. CASE FiltersFacts
  <2>1. PICK items \in FactLists, config \in FilterConfigs :
          Returns("facts", [items |-> items, config |-> config],
                  FilterMetaFacts(items, config, DefaultPatterns))
    BY <1>4 DEF FiltersFacts
  <2> DEFINE out == FilterMetaFacts(items, config, DefaultPatterns)
  <2>2. FilterDrops(items, config, DefaultPatterns, out)
    BY FactsAssumption, FilterDropsAll
  <2> HIDE DEF out
  <2>3. job' = [name |-> "facts", in |-> [items |-> items, config |-> config], out |-> out]
    BY <2>1 DEF Returns, out
  <2>4. job'.name = "facts" /\ job'.in.items = items /\ job'.in.config = config /\ job'.out = out
    BY <2>3
  <2>. QED BY <2>2, <2>4 DEF NothingLostUntold, Did
<1>5. CASE Searches \/ FindsTopK
  <2>1. \E input, output : Returns("search", input, output) \/ Returns("topk", input, output)
    BY <1>5, Zenon DEF Searches, FindsTopK
  <2>2. job'.name \in {"search", "topk"}
    BY <2>1 DEF Returns
  <2>. QED BY <2>2 DEF NothingLostUntold, Did
<1>6. CASE UNCHANGED job
  BY <1>6 DEF NothingLostUntold, Did
<1>. QED BY <1>1, <1>2, <1>3, <1>4, <1>5, <1>6 DEF AlgorithmNext

\* For all texts, options, pages, arguments and lists of facts there may be, not only for
\* those of a run, what chunking, the tools and the filter of meta-facts return loses
\* nothing without a sign.
THEOREM NothingLostUntoldAlways == AlgorithmSpec => []NothingLostUntold
<1>1. AlgorithmInit => NothingLostUntold
  BY DEF AlgorithmInit, NothingLostUntold, Did
<1>. QED BY <1>1, LosesNothingStep, PTL DEF AlgorithmSpec

LEMMA SearchStep == SearchReturnsTheBest /\ [AlgorithmNext]_job => SearchReturnsTheBest'
<1> SUFFICES ASSUME SearchReturnsTheBest, [AlgorithmNext]_job PROVE SearchReturnsTheBest'
  OBVIOUS
<1>1. CASE Searches
  <2>1. PICK pool \in Pools, c \in SearchCalls :
          Returns("search", [pool |-> pool, call |-> c],
                  IF SearchRaises(pool, c) THEN None ELSE Search(pool, c))
    BY <1>1 DEF Searches
  <2> DEFINE out == IF SearchRaises(pool, c) THEN None ELSE Search(pool, c)
  <2>2. ASSUME out # None PROVE ReturnsTheBest(pool, c, out)
    <3>1. out = Search(pool, c)
      BY <2>2
    <3>2. ReturnsTheBest(pool, c, Search(pool, c))
      BY SearchAssumption, SearchReturns
    <3>. QED BY <3>1, <3>2
  <2> HIDE DEF out
  <2>3. job' = [name |-> "search", in |-> [pool |-> pool, call |-> c], out |-> out]
    BY <2>1 DEF Returns, out
  <2>4. job'.name = "search" /\ job'.in.pool = pool /\ job'.in.call = c /\ job'.out = out
    BY <2>3
  <2>. QED BY <2>2, <2>4 DEF SearchReturnsTheBest, Did
<1>2. CASE FindsTopK
  <2>1. PICK pool \in Pools, c \in SearchCalls :
          /\ c.query # "wide" /\ c.topK # None
          /\ Returns("topk", [pool |-> pool, query |-> c.query, k |-> c.topK, threshold |-> c.threshold],
                     FindTopK(c.query, Candidates(pool, FALSE), c.topK, c.threshold))
    BY <1>2 DEF FindsTopK
  <2> DEFINE out == FindTopK(c.query, Candidates(pool, FALSE), c.topK, c.threshold)
  <2>2. BestFirst(pool, c.query, out)
    <3>1. /\ pool \in Seq(StoredContexts) /\ c.query \in {"fine", "empty", "zero"}
          /\ c.topK \in Int /\ c.threshold \in Int \cup {None}
      BY <2>1, SearchAssumption
    <3>. QED BY <3>1, TopKIsTheBest
  <2> HIDE DEF out
  <2>3. job' = [name |-> "topk",
                in |-> [pool |-> pool, query |-> c.query, k |-> c.topK, threshold |-> c.threshold],
                out |-> out]
    BY <2>1 DEF Returns, out
  <2>4. job'.name = "topk" /\ job'.in.pool = pool /\ job'.in.query = c.query /\ job'.out = out
    BY <2>3
  <2>5. job'.name # "search"
    BY <2>4
  <2>6. BestFirst(job'.in.pool, job'.in.query, job'.out)
    BY <2>2, <2>4
  <2>. QED BY <2>5, <2>6, Zenon DEF SearchReturnsTheBest, Did, BestFirst
<1>3. CASE Chunks \/ GroupsUnits \/ CallsTool \/ FiltersFacts
  <2>1. \E name \in {"chunks", "groups", "tool", "facts"} : \E input, output : Returns(name, input, output)
    BY <1>3, Zenon DEF Chunks, GroupsUnits, CallsTool, FiltersFacts
  <2>2. job'.name \in {"chunks", "groups", "tool", "facts"}
    BY <2>1 DEF Returns
  <2>. QED BY <2>2 DEF SearchReturnsTheBest, Did
<1>4. CASE UNCHANGED job
  BY <1>4 DEF SearchReturnsTheBest, Did
<1>. QED BY <1>1, <1>2, <1>3, <1>4 DEF AlgorithmNext

\* For pools of any size, any similarities, limits, thresholds and filters, search() and
\* find_top_k() return the best there is.
THEOREM SearchReturnsTheBestAlways == AlgorithmSpec => []SearchReturnsTheBest
<1>1. AlgorithmInit => SearchReturnsTheBest
  BY DEF AlgorithmInit, SearchReturnsTheBest, Did
<1>. QED BY <1>1, SearchStep, PTL DEF AlgorithmSpec
-----------------------------------------------------------------------------
(* WireContract. *)

\* None is neither a record, nor a sequence, nor any other function: what the code means
\* when it tells absent values by "is not None".
NoneIsNoFunction == None # [x \in DOMAIN None |-> None[x]]

LEMMA FunctionIsSomething ==
  ASSUME NoneIsNoFunction, NEW o, IsObject(o)
  PROVE  o # None
  BY DEF NoneIsNoFunction, IsObject, IsModel

LEMMA ModelIsObject ==
  ASSUME NEW m, NEW S, IsModel(m, S)
  PROVE  IsObject(m) /\ DOMAIN m = S
<1>1. DOMAIN m = S
  BY DEF IsModel
<1>. QED BY <1>1 DEF IsObject, IsModel

LEMMA DumpIs ==
  ASSUME NEW m
  PROVE  /\ IsObject(Dump(m))
         /\ DOMAIN Dump(m) = {f \in DOMAIN m : m[f] # None}
         /\ \A f \in DOMAIN Dump(m) : Dump(m)[f] = m[f]
  BY DEF Dump, IsObject, IsModel

LEMMA NamesAreApart ==
  /\ \A f, g \in MemoryFields : Name(MemoryNames, f) = Name(MemoryNames, g) => f = g
  /\ \A f, g \in ProvenanceFields : Name(ProvenanceNames, f) = Name(ProvenanceNames, g) => f = g
  /\ \A f, g \in ResultFields : Name(ResultNames, f) = Name(ResultNames, g) => f = g
  /\ \A f, g \in DOMAIN FilterNames \cup {"field"} : Name(FilterNames, f) = Name(FilterNames, g) => f = g
<1>1. \A f, g \in MemoryFields : Name(MemoryNames, f) = Name(MemoryNames, g) => f = g
  BY DEF Name, MemoryNames, MemoryFields
<1>2. \A f, g \in ProvenanceFields : Name(ProvenanceNames, f) = Name(ProvenanceNames, g) => f = g
  BY DEF Name, ProvenanceNames, ProvenanceFields
<1>3. \A f, g \in ResultFields : Name(ResultNames, f) = Name(ResultNames, g) => f = g
  BY DEF Name, ResultNames, ResultFields
<1>4. \A f, g \in DOMAIN FilterNames \cup {"field"} : Name(FilterNames, f) = Name(FilterNames, g) => f = g
  BY DEF Name, FilterNames
<1>. QED BY <1>1, <1>2, <1>3, <1>4

LEMMA NamesAreKeys ==
  /\ {Name(MemoryNames, f) : f \in MemoryFields} = MemoryKeys
  /\ {Name(ProvenanceNames, f) : f \in ProvenanceFields} = ProvenanceKeys
  /\ {Name(ResultNames, f) : f \in ResultFields} = ResultKeys
<1>1. {Name(MemoryNames, f) : f \in MemoryFields} = MemoryKeys
  BY DEF Name, MemoryNames, MemoryFields, MemoryKeys
<1>2. {Name(ProvenanceNames, f) : f \in ProvenanceFields} = ProvenanceKeys
  BY DEF Name, ProvenanceNames, ProvenanceFields, ProvenanceKeys
<1>3. {Name(ResultNames, f) : f \in ResultFields} = ResultKeys
  BY DEF Name, ResultNames, ResultFields, ResultKeys
<1>. QED BY <1>1, <1>2, <1>3

\* Renaming neither loses nor mixes up a value when no two fields get one name.
LEMMA RenamedIs ==
  ASSUME NEW data, NEW names,
         \A f, g \in DOMAIN data : Name(names, f) = Name(names, g) => f = g
  PROVE  /\ IsObject(Renamed(data, names))
         /\ DOMAIN Renamed(data, names) = {Name(names, f) : f \in DOMAIN data}
         /\ \A f \in DOMAIN data : Renamed(data, names)[Name(names, f)] = data[f]
<1>1. IsObject(Renamed(data, names)) /\ DOMAIN Renamed(data, names) = {Name(names, f) : f \in DOMAIN data}
  BY DEF Renamed, IsObject, IsModel
<1>2. ASSUME NEW f \in DOMAIN data
      PROVE  Renamed(data, names)[Name(names, f)] = data[f]
  <2>1. Name(names, f) \in {Name(names, g) : g \in DOMAIN data}
    OBVIOUS
  <2>2. Renamed(data, names)[Name(names, f)]
          = data[CHOOSE g \in DOMAIN data : Name(names, g) = Name(names, f)]
    BY <2>1 DEF Renamed
  <2>3. (CHOOSE g \in DOMAIN data : Name(names, g) = Name(names, f)) = f
    OBVIOUS
  <2>. QED BY <2>2, <2>3
<1>. QED BY <1>1, <1>2

\* A provenance that is sent has but keys of the contract, and comes back as it was.
LEMMA ProvenanceSurvives ==
  ASSUME NEW p, IsModel(p, ProvenanceFields)
  PROVE  /\ IsObject(EncodeProvenance(p))
         /\ DOMAIN EncodeProvenance(p) \subseteq ProvenanceKeys
         /\ DecodeProvenance(EncodeProvenance(p)) = p
<1> DEFINE wire == EncodeProvenance(p)
<1>1. DOMAIN p = ProvenanceFields
  BY ModelIsObject
<1>2. DOMAIN Dump(p) = {f \in ProvenanceFields : p[f] # None} /\ \A f \in DOMAIN Dump(p) : Dump(p)[f] = p[f]
  BY <1>1, DumpIs
<1>3. \A f, g \in ProvenanceFields : Name(ProvenanceNames, f) = Name(ProvenanceNames, g) => f = g
  BY NamesAreApart
<1>4. \A f, g \in DOMAIN Dump(p) : Name(ProvenanceNames, f) = Name(ProvenanceNames, g) => f = g
  BY <1>2, <1>3
<1>5. /\ IsObject(wire)
      /\ DOMAIN wire = {Name(ProvenanceNames, f) : f \in DOMAIN Dump(p)}
      /\ \A f \in DOMAIN Dump(p) : wire[Name(ProvenanceNames, f)] = Dump(p)[f]
  BY <1>4, RenamedIs DEF EncodeProvenance
<1>6. DOMAIN wire \subseteq ProvenanceKeys
  BY <1>2, <1>5, NamesAreKeys
<1>7. ASSUME NEW f \in ProvenanceFields
      PROVE  (IF Present(wire, Name(ProvenanceNames, f)) THEN wire[Name(ProvenanceNames, f)] ELSE None) = p[f]
  <2>1. CASE p[f] = None
    <3>1. Name(ProvenanceNames, f) \notin DOMAIN wire
      BY <1>2, <1>3, <1>5, <2>1
    <3>. QED BY <2>1, <3>1 DEF Present
  <2>2. CASE p[f] # None
    BY <1>2, <1>5, <2>2 DEF Present
  <2>. QED BY <2>1, <2>2
<1>8. DecodeProvenance(wire) = [f \in ProvenanceFields |-> p[f]]
  BY <1>7 DEF DecodeProvenance
<1>. QED BY <1>5, <1>6, <1>8 DEF IsModel

\* An object that is sent under other names has a name for each field that was there.
LEMMA RenamedThere ==
  ASSUME NEW data, NEW names, NEW fields, DOMAIN data \subseteq fields,
         \A f, g \in fields : Name(names, f) = Name(names, g) => f = g,
         NEW f \in fields
  PROVE  /\ Name(names, f) \in DOMAIN Renamed(data, names) <=> f \in DOMAIN data
         /\ f \in DOMAIN data => Renamed(data, names)[Name(names, f)] = data[f]
<1>1. \A g, h \in DOMAIN data : Name(names, g) = Name(names, h) => g = h
  OBVIOUS
<1>2. /\ DOMAIN Renamed(data, names) = {Name(names, g) : g \in DOMAIN data}
      /\ \A g \in DOMAIN data : Renamed(data, names)[Name(names, g)] = data[g]
  BY <1>1, RenamedIs
<1>. QED BY <1>2

\* Dates, provenances and nested values are something.
LEMMA EncodedIsSomething ==
  ASSUME NoneIsNoFunction, NEW f, NEW value, value # None,
         f = "provenance" => IsModel(value, ProvenanceFields)
  PROVE  EncodeField(f, value) # None
<1>1. ToIsoZ(value) # None
  <2>1. IsObject(ToIsoZ(value))
    BY DEF ToIsoZ, IsObject, IsModel
  <2>. QED BY <2>1, FunctionIsSomething
<1>2. Jsonify(value) # None
  <2>1. IsObject(Jsonify(value))
    BY DEF Jsonify, IsObject, IsModel
  <2>. QED BY <2>1, FunctionIsSomething
<1>3. f = "provenance" => EncodeProvenance(value) # None
  BY ProvenanceSurvives, FunctionIsSomething
<1>. QED BY <1>1, <1>2, <1>3 DEF EncodeField

\* The fields of a memory on the wire: those it has, each under its name.
LEMMA EncodedMemoryIs ==
  ASSUME NoneIsNoFunction, NEW m, IsMemory(m)
  PROVE  /\ IsObject(EncodeMemory(m))
         /\ DOMAIN EncodeMemory(m) \subseteq MemoryKeys
         /\ \A f \in MemoryFields :
              /\ Name(MemoryNames, f) \in DOMAIN EncodeMemory(m) <=> m[f] # None
              /\ m[f] # None => /\ EncodeMemory(m)[Name(MemoryNames, f)] = EncodeField(f, m[f])
                                /\ EncodeField(f, m[f]) # None
<1> DEFINE data == [f \in DOMAIN Dump(m) |-> EncodeField(f, m[f])]
<1>1. DOMAIN m = MemoryFields
  BY ModelIsObject DEF IsMemory
<1>2. DOMAIN Dump(m) = {f \in MemoryFields : m[f] # None}
  BY <1>1, DumpIs
<1>3. DOMAIN data = {f \in MemoryFields : m[f] # None} /\ \A f \in DOMAIN data : data[f] = EncodeField(f, m[f])
  BY <1>2
<1>4. EncodeMemory(m) = Renamed(data, MemoryNames)
  BY DEF EncodeMemory
<1> HIDE DEF data
<1>5. DOMAIN data \subseteq MemoryFields
  BY <1>3
<1>6. /\ IsObject(EncodeMemory(m))
      /\ DOMAIN EncodeMemory(m) = {Name(MemoryNames, f) : f \in DOMAIN data}
  <2>1. \A f, g \in DOMAIN data : Name(MemoryNames, f) = Name(MemoryNames, g) => f = g
    BY <1>5, NamesAreApart
  <2>. QED BY <1>4, <2>1, RenamedIs
<1>7. DOMAIN EncodeMemory(m) \subseteq MemoryKeys
  BY <1>5, <1>6, NamesAreKeys
<1>8. ASSUME NEW f \in MemoryFields
      PROVE  /\ Name(MemoryNames, f) \in DOMAIN EncodeMemory(m) <=> m[f] # None
             /\ m[f] # None => /\ EncodeMemory(m)[Name(MemoryNames, f)] = EncodeField(f, m[f])
                               /\ EncodeField(f, m[f]) # None
  <2>1. /\ Name(MemoryNames, f) \in DOMAIN Renamed(data, MemoryNames) <=> f \in DOMAIN data
        /\ f \in DOMAIN data => Renamed(data, MemoryNames)[Name(MemoryNames, f)] = data[f]
    <3>1. \A g, h \in MemoryFields : Name(MemoryNames, g) = Name(MemoryNames, h) => g = h
      BY NamesAreApart
    <3>. QED BY <1>5, <3>1, RenamedThere
  <2>2. m[f] # None => EncodeField(f, m[f]) # None
    <3>1. f = "provenance" /\ m[f] # None => IsModel(m[f], ProvenanceFields)
      BY DEF IsMemory, IsProvenance
    <3>. QED BY <3>1, EncodedIsSomething
  <2>. QED BY <1>3, <1>4, <2>1, <2>2
<1>. QED BY <1>6, <1>7, <1>8

\* A memory that is sent is accepted, and comes back as it was, up to the dates.
LEMMA MemorySurvives ==
  ASSUME NoneIsNoFunction, NEW m, IsMemory(m)
  PROVE  /\ ~MemoryRefused(EncodeMemory(m))
         /\ SameMemory(m, DecodeMemory(EncodeMemory(m)))
         /\ "provenance" \in DOMAIN EncodeMemory(m) =>
              DOMAIN EncodeMemory(m)["provenance"] \subseteq ProvenanceKeys
<1> DEFINE wire == EncodeMemory(m)
           back == DecodeMemory(wire)
<1>1. /\ DOMAIN wire \subseteq MemoryKeys
      /\ \A f \in MemoryFields :
              /\ Name(MemoryNames, f) \in DOMAIN wire <=> m[f] # None
              /\ m[f] # None => /\ wire[Name(MemoryNames, f)] = EncodeField(f, m[f])
                                /\ EncodeField(f, m[f]) # None
  BY EncodedMemoryIs
<1>2. ASSUME NEW f \in MemoryFields
      PROVE  back[f] = IF m[f] = None THEN None ELSE DecodeField(f, EncodeField(f, m[f]))
  <2>1. back[f] = IF Present(wire, Name(MemoryNames, f)) THEN DecodeField(f, wire[Name(MemoryNames, f)]) ELSE None
    BY DEF DecodeMemory
  <2> HIDE DEF wire, back
  <2>. QED BY <1>1, <2>1 DEF Present
<1> HIDE DEF wire, back
<1>3. m.provenance # None => IsModel(m.provenance, ProvenanceFields)
  BY DEF IsMemory, IsProvenance
<1>4. /\ {"id", "content", "scope", "kind", "provenance", "metadata", "created_at", "updated_at"} = MemoryFields
      /\ \A f \in {"id", "content", "scope", "kind", "provenance", "metadata"} : Name(MemoryNames, f) = f
      /\ Name(MemoryNames, "created_at") = "createdAt"
  BY DEF MemoryFields, Name, MemoryNames
<1>5. m["provenance"] # None => /\ wire["provenance"] = EncodeProvenance(m["provenance"])
                               /\ DOMAIN wire["provenance"] \subseteq ProvenanceKeys
                               /\ DecodeProvenance(wire["provenance"]) = m["provenance"]
  <2>1. EncodeField("provenance", m["provenance"]) = EncodeProvenance(m["provenance"])
    BY DEF EncodeField
  <2>. QED BY <1>1, <1>3, <1>4, <2>1, ProvenanceSurvives
<1>6. "provenance" \in DOMAIN wire <=> m["provenance"] # None
  BY <1>1, <1>4
<1>7. ~MemoryRefused(wire)
  <2>1. \A key \in {"id", "content", "scope"} : Present(wire, key)
    BY <1>1, <1>4 DEF IsMemory, Present
  <2>2. Present(wire, "createdAt")
    BY <1>1, <1>4 DEF IsMemory, Present
  <2>3. Present(wire, "provenance") => ~ProvenanceRefused(wire["provenance"])
    BY <1>5, <1>6 DEF Present, ProvenanceRefused
  <2>. QED BY <1>1, <2>1, <2>2, <2>3 DEF MemoryRefused
<1>8. SameMemory(m, back)
  <2>1. \A f \in {"id", "content", "scope", "kind"} : back[f] = m[f]
    BY <1>2, <1>4 DEF DecodeField, EncodeField
  <2>2. back["provenance"] = m["provenance"]
    BY <1>2, <1>3, <1>4, ProvenanceSurvives DEF DecodeField, EncodeField
  <2>3. \A f \in {"created_at", "updated_at"} : back[f] = IF m[f] = None THEN None ELSE OnTheWire(m[f])
    <3>1. \A f \in {"created_at", "updated_at"} : DecodeField(f, EncodeField(f, m[f])) = OnTheWire(m[f])
      BY DEF DecodeField, EncodeField, FromIso, ToIsoZ, OnTheWire
    <3>. QED BY <1>2, <1>4, <3>1
  <2>4. SameOptional(m["metadata"], back["metadata"])
    <3>1. back["metadata"] = IF m["metadata"] = None THEN None ELSE Jsonify(m["metadata"])
      BY <1>2, <1>4 DEF DecodeField, EncodeField
    <3>2. m["metadata"] # None => back["metadata"] # None
      BY <1>1, <1>4, <3>1 DEF EncodeField
    <3>. QED BY <3>1, <3>2 DEF SameOptional, SameValue, Jsonify, ToIsoZ, OnTheWire
  <2>5. MemoryFields \ {"created_at", "updated_at", "metadata"} \subseteq {"id", "content", "scope", "kind", "provenance"}
    BY DEF MemoryFields
  <2>. QED BY <2>1, <2>2, <2>3, <2>4, <2>5 DEF SameMemory
<1>. QED BY <1>5, <1>6, <1>7, <1>8 DEF wire, back

LEMMA SameObjects ==
  ASSUME NEW a, NEW b, IsObject(a), IsObject(b), DOMAIN a = DOMAIN b, \A k \in DOMAIN a : a[k] = b[k]
  PROVE  a = b
  BY DEF IsObject, IsModel

\* A provenance that is accepted is sent again as it was, less its nulls.
LEMMA ProvenanceReturns ==
  ASSUME NEW wire, IsObject(wire), ~ProvenanceRefused(wire)
  PROVE  /\ IsModel(DecodeProvenance(wire), ProvenanceFields)
         /\ EncodeProvenance(DecodeProvenance(wire)) = Dump(wire)
<1> DEFINE p == DecodeProvenance(wire)
           again == EncodeProvenance(p)
<1>1. /\ IsModel(p, ProvenanceFields)
      /\ \A f \in ProvenanceFields : p[f] = IF Present(wire, Name(ProvenanceNames, f))
                                            THEN wire[Name(ProvenanceNames, f)] ELSE None
  BY DEF DecodeProvenance, IsModel
<1> HIDE DEF p
<1>2. DOMAIN Dump(p) = {f \in ProvenanceFields : p[f] # None} /\ \A f \in DOMAIN Dump(p) : Dump(p)[f] = p[f]
  <2>1. DOMAIN p = ProvenanceFields
    BY <1>1, ModelIsObject
  <2>. QED BY <2>1, DumpIs
<1>3. \A f, g \in DOMAIN Dump(p) : Name(ProvenanceNames, f) = Name(ProvenanceNames, g) => f = g
  BY <1>2, NamesAreApart
<1>4. /\ IsObject(again)
      /\ DOMAIN again = {Name(ProvenanceNames, f) : f \in DOMAIN Dump(p)}
      /\ \A f \in DOMAIN Dump(p) : again[Name(ProvenanceNames, f)] = Dump(p)[f]
  BY <1>3, RenamedIs DEF EncodeProvenance
<1> HIDE DEF again
<1>5. DOMAIN Dump(wire) = {k \in DOMAIN wire : wire[k] # None} /\ \A k \in DOMAIN Dump(wire) : Dump(wire)[k] = wire[k]
  BY DumpIs
<1>6. DOMAIN wire \subseteq {Name(ProvenanceNames, f) : f \in ProvenanceFields}
  BY NamesAreKeys DEF ProvenanceRefused
<1>7. DOMAIN again = DOMAIN Dump(wire)
  <2>1. \A k \in DOMAIN again : k \in DOMAIN Dump(wire)
    BY <1>1, <1>2, <1>4, <1>5 DEF Present
  <2>2. \A k \in DOMAIN Dump(wire) : k \in DOMAIN again
    BY <1>1, <1>2, <1>4, <1>5, <1>6 DEF Present
  <2>. QED BY <2>1, <2>2
<1>8. \A k \in DOMAIN again : again[k] = Dump(wire)[k]
  BY <1>1, <1>2, <1>4, <1>5, <1>7 DEF Present
<1>9. again = Dump(wire)
  BY <1>4, <1>7, <1>8, DumpIs, SameObjects
<1>. QED BY <1>1, <1>9 DEF p, again

\* A memory that is accepted has what it must have, and is a memory of the models.
LEMMA AcceptedIsMemory ==
  ASSUME NoneIsNoFunction, NEW wire, IsWireMemory(wire), ~MemoryRefused(wire)
  PROVE  /\ IsMemory(DecodeMemory(wire))
         /\ \A f \in MemoryFields : LET key == Name(MemoryNames, f) IN
              /\ DecodeMemory(wire)[f] # None <=> Present(wire, key)
              /\ Present(wire, key) => DecodeMemory(wire)[f] = DecodeField(f, wire[key])
<1> DEFINE m == DecodeMemory(wire)
<1>1. /\ IsModel(m, MemoryFields)
      /\ \A f \in MemoryFields : m[f] = IF Present(wire, Name(MemoryNames, f))
                                        THEN DecodeField(f, wire[Name(MemoryNames, f)]) ELSE None
  BY DEF DecodeMemory, IsModel
<1> HIDE DEF m
<1>2. /\ {"id", "content", "scope", "kind", "provenance", "metadata", "created_at", "updated_at"} = MemoryFields
      /\ \A f \in {"id", "content", "scope", "kind", "provenance", "metadata"} : Name(MemoryNames, f) = f
      /\ Name(MemoryNames, "created_at") = "createdAt"
  BY DEF MemoryFields, Name, MemoryNames
<1>3. Present(wire, "provenance") =>
        IsModel(DecodeProvenance(wire["provenance"]), ProvenanceFields)
  BY ProvenanceReturns DEF IsWireMemory, Present, MemoryRefused
<1>4. ASSUME NEW f \in MemoryFields, Present(wire, Name(MemoryNames, f))
      PROVE  DecodeField(f, wire[Name(MemoryNames, f)]) # None
  <2>1. FromIso(wire[Name(MemoryNames, f)]) # None
    <3>1. IsObject(FromIso(wire[Name(MemoryNames, f)]))
      BY DEF FromIso, IsObject, IsModel
    <3>. QED BY <3>1, FunctionIsSomething
  <2>2. f = "provenance" => DecodeProvenance(wire[Name(MemoryNames, f)]) # None
    <3>1. f = "provenance" => IsObject(DecodeProvenance(wire[Name(MemoryNames, f)]))
      BY <1>2, <1>3, <1>4, ModelIsObject
    <3>. QED BY <3>1, FunctionIsSomething
  <2>. QED BY <1>4, <2>1, <2>2 DEF DecodeField, Present
<1>5. \A f \in MemoryFields : m[f] # None <=> Present(wire, Name(MemoryNames, f))
  BY <1>1, <1>4
<1>6. IsMemory(m)
  <2>1. \A f \in {"id", "content", "scope", "created_at"} : m[f] # None
    BY <1>2, <1>5 DEF MemoryRefused
  <2>2. m["provenance"] = IF Present(wire, "provenance") THEN DecodeProvenance(wire["provenance"]) ELSE None
    BY <1>1, <1>2 DEF DecodeField
  <2>. QED BY <1>1, <1>3, <2>1, <2>2 DEF IsMemory, IsProvenance
<1>. QED BY <1>1, <1>5, <1>6 DEF m

\* A memory that is accepted is sent again as it was, less its nulls.
LEMMA MemoryReturnsAlways ==
  ASSUME NoneIsNoFunction, None # 0, NEW wire, IsWireMemory(wire)
  PROVE  MemoryReturns(wire)
<1> SUFFICES ASSUME ~MemoryRefused(wire) PROVE MemoryReturns(wire)
  BY DEF MemoryReturns
<1> DEFINE m == DecodeMemory(wire)
           again == EncodeMemory(m)
<1>1. /\ IsMemory(m)
      /\ \A f \in MemoryFields :
              /\ m[f] # None <=> Present(wire, Name(MemoryNames, f))
              /\ Present(wire, Name(MemoryNames, f)) => m[f] = DecodeField(f, wire[Name(MemoryNames, f)])
  BY AcceptedIsMemory
<1> HIDE DEF m
<1>2. /\ DOMAIN again \subseteq MemoryKeys
      /\ \A f \in MemoryFields :
              /\ Name(MemoryNames, f) \in DOMAIN again <=> m[f] # None
              /\ m[f] # None => again[Name(MemoryNames, f)] = EncodeField(f, m[f])
  BY <1>1, EncodedMemoryIs
<1> HIDE DEF again
<1>3. DOMAIN wire \subseteq MemoryKeys /\ (Present(wire, "provenance") => ~ProvenanceRefused(wire["provenance"]))
  BY DEF MemoryRefused
<1>4. DOMAIN again = {k \in DOMAIN wire : wire[k] # None}
  <2>1. ASSUME NEW k \in MemoryKeys PROVE k \in DOMAIN again <=> Present(wire, k)
    <3>1. PICK f \in MemoryFields : k = Name(MemoryNames, f)
      BY NamesAreKeys
    <3>. QED BY <1>1, <1>2, <3>1
  <2>. QED BY <1>2, <1>3, <2>1 DEF Present
<1>5. ASSUME NEW k \in DOMAIN again
      PROVE  again[k] = IF k = "provenance" THEN Dump(wire[k]) ELSE wire[k]
  <2>1. PICK f \in MemoryFields : k = Name(MemoryNames, f)
    BY <1>2, NamesAreKeys
  <2>2. /\ Present(wire, k)
        /\ again[k] = EncodeField(f, DecodeField(f, wire[k]))
    BY <1>1, <1>2, <2>1
  <2>3. CASE f \in {"created_at", "updated_at"}
    <3>1. k \in {"createdAt", "updatedAt"}
      BY <2>1, <2>3 DEF Name, MemoryNames
    <3>2. wire[k] \in [tag : {"iso"}, ms : Int]
      BY <2>2, <3>1 DEF IsWireMemory, Present
    <3>3. EncodeField(f, DecodeField(f, wire[k])) = [tag |-> "iso", ms |-> wire[k].ms - 0]
      BY <2>3 DEF EncodeField, DecodeField, ToIsoZ, FromIso
    <3>4. [tag |-> "iso", ms |-> wire[k].ms - 0] = wire[k]
      BY <3>2
    <3>. QED BY <2>2, <3>1, <3>3, <3>4
  <2>4. CASE f = "provenance"
    <3>1. k = "provenance"
      BY <2>1, <2>4 DEF Name, MemoryNames
    <3>2. IsObject(wire[k]) /\ ~ProvenanceRefused(wire[k])
      BY <1>3, <2>2, <3>1 DEF IsWireMemory, Present
    <3>3. EncodeField(f, DecodeField(f, wire[k])) = EncodeProvenance(DecodeProvenance(wire[k]))
      BY <2>4 DEF EncodeField, DecodeField
    <3>. QED BY <2>2, <3>1, <3>2, <3>3, ProvenanceReturns
  <2>5. CASE f = "metadata"
    <3>1. k = "metadata"
      BY <2>1, <2>5 DEF Name, MemoryNames
    <3>2. IsObject(wire[k]) /\ \A p \in DOMAIN wire[k] : ~IsDate(wire[k][p])
      BY <2>2, <3>1 DEF IsWireMemory, Present
    <3>3. EncodeField(f, DecodeField(f, wire[k])) = Jsonify(wire[k])
      BY <2>5 DEF EncodeField, DecodeField
    <3>4. Jsonify(wire[k]) = wire[k]
      BY <3>2 DEF Jsonify, IsObject, IsModel
    <3>. QED BY <2>2, <3>1, <3>3, <3>4
  <2>6. CASE f \notin {"created_at", "updated_at", "provenance", "metadata"}
    <3>1. k = f
      BY <2>1, <2>6 DEF Name, MemoryNames
    <3>2. EncodeField(f, DecodeField(f, wire[k])) = wire[k]
      BY <2>6 DEF EncodeField, DecodeField
    <3>. QED BY <2>2, <2>6, <3>1, <3>2
  <2>. QED BY <2>3, <2>4, <2>5, <2>6
<1>6. Present(wire, "provenance") => DOMAIN wire["provenance"] \subseteq ProvenanceKeys
  BY <1>3 DEF ProvenanceRefused
<1>. QED BY <1>3, <1>4, <1>5, <1>6 DEF MemoryReturns, m, again

\* A result that is sent is accepted, and comes back as it was, up to the dates.
LEMMA ResultSurvives ==
  ASSUME NoneIsNoFunction, NEW r, IsResult(r)
  PROVE  /\ DOMAIN EncodeResult(r) \subseteq ResultKeys
         /\ EncodeResult(r)["memory"] = EncodeMemory(r.memory)
         /\ ~ResultRefused(EncodeResult(r))
         /\ DecodeResult(EncodeResult(r)).memory = DecodeMemory(EncodeMemory(r.memory))
         /\ \A f \in ResultFields \ {"memory"} : DecodeResult(EncodeResult(r))[f] = r[f]
<1> DEFINE data == [f \in DOMAIN Dump(r) |-> IF f = "memory" THEN EncodeMemory(r[f]) ELSE r[f]]
           wire == EncodeResult(r)
           back == DecodeResult(wire)
<1>1. DOMAIN r = ResultFields /\ r["memory"] # None /\ r["score"] # None /\ IsMemory(r["memory"])
  BY ModelIsObject DEF IsResult
<1>2. DOMAIN Dump(r) = {f \in ResultFields : r[f] # None}
  BY <1>1, DumpIs
<1>3. /\ DOMAIN data = {f \in ResultFields : r[f] # None}
      /\ \A f \in DOMAIN data : data[f] = IF f = "memory" THEN EncodeMemory(r[f]) ELSE r[f]
  BY <1>2
<1>4. wire = Renamed(data, ResultNames)
  BY DEF EncodeResult
<1>5. /\ \A f \in ResultFields : back[f] = IF ~Present(wire, Name(ResultNames, f)) THEN None
                                           ELSE IF f = "memory" THEN DecodeMemory(wire[Name(ResultNames, f)])
                                           ELSE wire[Name(ResultNames, f)]
  BY DEF DecodeResult
<1> HIDE DEF data, wire, back
<1>6. \A f, g \in ResultFields : Name(ResultNames, f) = Name(ResultNames, g) => f = g
  BY NamesAreApart
<1>7. DOMAIN wire \subseteq ResultKeys
  <2>1. \A f, g \in DOMAIN data : Name(ResultNames, f) = Name(ResultNames, g) => f = g
    BY <1>3, <1>6
  <2>2. DOMAIN wire = {Name(ResultNames, f) : f \in DOMAIN data}
    BY <1>4, <2>1, RenamedIs
  <2>. QED BY <1>3, <2>2, NamesAreKeys
<1>8. ASSUME NEW f \in ResultFields
      PROVE  /\ Name(ResultNames, f) \in DOMAIN wire <=> r[f] # None
             /\ r[f] # None => wire[Name(ResultNames, f)] = IF f = "memory" THEN EncodeMemory(r[f]) ELSE r[f]
  <2>1. DOMAIN data \subseteq ResultFields
    BY <1>3
  <2>. QED BY <1>3, <1>4, <1>6, <2>1, RenamedThere
<1>9. "memory" \in ResultFields /\ "score" \in ResultFields
      /\ Name(ResultNames, "memory") = "memory" /\ Name(ResultNames, "score") = "score"
  BY DEF ResultFields, Name, ResultNames
<1>10. wire["memory"] = EncodeMemory(r["memory"])
  BY <1>1, <1>8, <1>9
<1>11. EncodeMemory(r["memory"]) # None
  BY <1>1, EncodedMemoryIs, FunctionIsSomething
<1>12. ~ResultRefused(wire)
  <2>1. Present(wire, "memory") /\ Present(wire, "score")
    BY <1>1, <1>8, <1>9, <1>10, <1>11 DEF Present
  <2>2. ~MemoryRefused(wire["memory"])
    BY <1>1, <1>10, MemorySurvives
  <2>. QED BY <1>7, <2>1, <2>2 DEF ResultRefused
<1>13. back["memory"] = DecodeMemory(EncodeMemory(r["memory"]))
  BY <1>1, <1>5, <1>8, <1>9, <1>10, <1>11 DEF Present
<1>14. \A f \in ResultFields \ {"memory"} : back[f] = r[f]
  BY <1>5, <1>8 DEF Present
<1>. QED BY <1>7, <1>10, <1>12, <1>13, <1>14 DEF wire, back

\* A receipt passes as it is.
LEMMA ReceiptSurvives ==
  ASSUME NoneIsNoFunction, NEW receipt, IsModel(receipt, ReceiptFields), receipt.trace_id # None
  PROVE  /\ Dump(receipt) # None
         /\ Present(Dump(receipt), "trace_id")
         /\ Validated(Dump(receipt), ReceiptFields) = receipt
<1>1. DOMAIN receipt = ReceiptFields
  BY ModelIsObject
<1>2. /\ IsObject(Dump(receipt))
      /\ DOMAIN Dump(receipt) = {f \in ReceiptFields : receipt[f] # None}
      /\ \A f \in DOMAIN Dump(receipt) : Dump(receipt)[f] = receipt[f]
  BY <1>1, DumpIs
<1>3. Validated(Dump(receipt), ReceiptFields) = [f \in ReceiptFields |-> receipt[f]]
  BY <1>2 DEF Validated
<1>4. "trace_id" \in ReceiptFields /\ receipt["trace_id"] # None
  BY DEF ReceiptFields
<1>5. Present(Dump(receipt), "trace_id")
  BY <1>2, <1>4 DEF Present
<1>. QED BY <1>2, <1>3, <1>5, FunctionIsSomething DEF IsModel

\* A page that is sent is accepted, and comes back as it was, up to the dates.
LEMMA PageSurvivesAlways ==
  ASSUME NoneIsNoFunction, NEW page, IsPage(page)
  PROVE  PageSurvives(page, EncodePage(page))
<1> DEFINE wire == EncodePage(page)
           back == DecodePage(wire)
<1>1. /\ DOMAIN page = PageKeys
      /\ \A i \in DOMAIN page["results"] : IsResult(page["results"][i])
      /\ page["retrieval"] # None => IsModel(page["retrieval"], ReceiptFields) /\ page["retrieval"].trace_id # None
  BY ModelIsObject DEF IsPage, PageKeys
<1>2. DOMAIN Dump(page) = {f \in PageKeys : page[f] # None}
  BY <1>1, DumpIs
<1>3. /\ DOMAIN wire = {"results"} \cup {f \in PageKeys : page[f] # None}
      /\ wire["results"] = [i \in DOMAIN page["results"] |-> EncodeResult(page["results"][i])]
      /\ page["retrieval"] # None => wire["retrieval"] = Dump(page["retrieval"])
      /\ page["cursor"] # None => wire["cursor"] = page["cursor"]
  BY <1>2 DEF EncodePage, PageKeys
<1>4. /\ back["results"] = IF "results" \in DOMAIN wire
               THEN [i \in DOMAIN wire["results"] |-> DecodeResult(wire["results"][i])] ELSE <<>>
      /\ back["cursor"] = IF Present(wire, "cursor") THEN wire["cursor"] ELSE None
      /\ back["retrieval"] = IF Present(wire, "retrieval") THEN Validated(wire["retrieval"], ReceiptFields) ELSE None
  BY DEF DecodePage
<1> HIDE DEF wire, back
<1>5. DOMAIN wire \subseteq PageKeys
  BY <1>3 DEF PageKeys
<1>6. /\ DOMAIN wire["results"] = DOMAIN page["results"]
      /\ \A i \in DOMAIN page["results"] : wire["results"][i] = EncodeResult(page["results"][i])
  BY <1>3
<1>7. ASSUME NEW i \in DOMAIN page["results"]
      PROVE  LET r == wire["results"][i] IN
             /\ DOMAIN r \subseteq ResultKeys /\ DOMAIN r["memory"] \subseteq MemoryKeys
             /\ "provenance" \in DOMAIN r["memory"] => DOMAIN r["memory"]["provenance"] \subseteq ProvenanceKeys
             /\ ~ResultRefused(r)
  <2>1. IsResult(page["results"][i]) /\ IsMemory(page["results"][i].memory)
    BY <1>1 DEF IsResult
  <2>. QED BY <1>6, <2>1, ResultSurvives, EncodedMemoryIs, MemorySurvives
<1>8. wire["results"] # None
  <2>1. IsObject(wire["results"])
    BY <1>3 DEF IsObject, IsModel
  <2>. QED BY <2>1, FunctionIsSomething
<1>9. Present(wire, "retrieval") <=> page["retrieval"] # None
  BY <1>1, <1>3, ReceiptSurvives DEF Present, PageKeys
<1>10. ~PageRefused(wire)
  <2>1. Present(wire, "retrieval") => Present(wire["retrieval"], "trace_id")
    BY <1>1, <1>3, <1>9, ReceiptSurvives
  <2>. QED BY <1>5, <1>6, <1>7, <1>8, <2>1 DEF PageRefused
<1>11. back["cursor"] = page["cursor"]
  BY <1>3, <1>4 DEF Present, PageKeys
<1>12. back["retrieval"] = page["retrieval"]
  BY <1>1, <1>3, <1>4, <1>9, ReceiptSurvives
<1>13. /\ DOMAIN back["results"] = DOMAIN page["results"]
       /\ \A i \in DOMAIN page["results"] : back["results"][i] = DecodeResult(EncodeResult(page["results"][i]))
  BY <1>3, <1>4, <1>6
<1>14. ASSUME NEW i \in DOMAIN page["results"]
       PROVE  /\ SameMemory(page["results"][i].memory, back["results"][i].memory)
              /\ \A f \in ResultFields \ {"memory"} : back["results"][i][f] = page["results"][i][f]
  <2>1. IsResult(page["results"][i]) /\ IsMemory(page["results"][i].memory)
    BY <1>1 DEF IsResult
  <2>. QED BY <1>13, <2>1, ResultSurvives, MemorySurvives
<1>. QED BY <1>5, <1>7, <1>10, <1>11, <1>12, <1>13, <1>14 DEF PageSurvives, wire, back

\* A nested value keeps its shape, and its leaves but for the dates.
LEMMA JsonifiedIsSame ==
  ASSUME NoneIsNoFunction, NEW v
  PROVE  SameValue(v, Jsonify(v)) /\ Jsonify(v) # None
<1>1. IsObject(Jsonify(v))
  BY DEF Jsonify, IsObject, IsModel
<1>2. SameValue(v, Jsonify(v))
  BY DEF SameValue, Jsonify, ToIsoZ, OnTheWire
<1>. QED BY <1>1, <1>2, FunctionIsSomething

\* A filter comes back with the same nodes at the same places.
LEMMA FilterSurvives ==
  ASSUME NoneIsNoFunction, NEW f, \A p \in DOMAIN f : f[p].op \in DOMAIN FilterNames \cup {"field"}
  PROVE  SameFilter(f, DecodeFilter(EncodeFilter(f))) /\ EncodeFilter(f) # None
<1> DEFINE wire == EncodeFilter(f)
           back == DecodeFilter(wire)
<1>1. /\ DOMAIN wire = DOMAIN f
      /\ \A p \in DOMAIN f : /\ wire[p].op = Name(FilterNames, f[p].op)
                             /\ wire[p].value = IF f[p].value = None THEN None ELSE Jsonify(f[p].value)
  BY DEF EncodeFilter
<1>2. wire # None
  <2>1. IsObject(wire)
    BY DEF EncodeFilter, IsObject, IsModel
  <2>. QED BY <2>1, FunctionIsSomething
<1>3. /\ DOMAIN back = DOMAIN wire
      /\ \A p \in DOMAIN wire : back[p].op = NodeOf(wire[p].op) /\ back[p].value = wire[p].value
  BY DEF DecodeFilter
<1> HIDE DEF wire, back
<1>4. ASSUME NEW n \in DOMAIN FilterNames \cup {"field"} PROVE NodeOf(Name(FilterNames, n)) = n
  BY NamesAreApart DEF NodeOf
<1>5. ASSUME NEW p \in DOMAIN f PROVE SameOptional(f[p].value, back[p].value)
  BY <1>1, <1>3, JsonifiedIsSame DEF SameOptional
<1>6. \A p \in DOMAIN f : back[p].op = f[p].op
  BY <1>1, <1>3, <1>4
<1>. QED BY <1>1, <1>2, <1>3, <1>5, <1>6 DEF SameFilter, wire, back

LEMMA RequestSurvivesAlways ==
  ASSUME NoneIsNoFunction, NEW r, IsRequest(r)
  PROVE  RequestSurvives(r, EncodeRequest(r))
<1> DEFINE wire == EncodeRequest(r)
           back == DecodeRequest(wire)
<1>1. DOMAIN r = RequestFields
  BY ModelIsObject DEF IsRequest
<1>2. DOMAIN Dump(r) = {f \in RequestFields : r[f] # None}
  BY <1>1, DumpIs
<1>3. /\ DOMAIN wire = {f \in RequestFields : r[f] # None}
      /\ \A f \in DOMAIN wire : wire[f] = IF f = "filter" THEN EncodeFilter(r[f]) ELSE r[f]
  BY <1>2 DEF EncodeRequest
<1>4. \A f \in RequestFields : back[f] = IF ~Present(wire, f) THEN None
                                         ELSE IF f = "filter" THEN DecodeFilter(wire[f]) ELSE wire[f]
  BY DEF DecodeRequest
<1> HIDE DEF wire, back
<1>5. \A f \in RequestFields \ {"filter"} : back[f] = r[f]
  BY <1>3, <1>4 DEF Present
<1>6. "filter" \in RequestFields
  BY DEF RequestFields
<1>7. CASE r["filter"] = None
  <2>1. back["filter"] = None
    BY <1>3, <1>4, <1>6, <1>7 DEF Present
  <2>. QED BY <1>5, <1>7, <2>1 DEF RequestSurvives, wire, back
<1>8. CASE r["filter"] # None
  <2>1. SameFilter(r["filter"], DecodeFilter(EncodeFilter(r["filter"]))) /\ EncodeFilter(r["filter"]) # None
    BY <1>8, FilterSurvives DEF IsRequest
  <2>2. back["filter"] = DecodeFilter(EncodeFilter(r["filter"]))
    BY <1>3, <1>4, <1>6, <1>8, <2>1 DEF Present
  <2>. QED BY <1>5, <1>8, <2>1, <2>2 DEF RequestSurvives, wire, back
<1>. QED BY <1>7, <1>8

\* An ingest is sent with all it has, or refused because its schema would not know it.
LEMMA IngestSurvivesAlways ==
  ASSUME NoneIsNoFunction, NEW i, IsIngest(i)
  PROVE  IngestSurvives(i)
<1> DEFINE wire == EncodeIngest(i)
<1>1. DOMAIN i = IngestFields(i.mode) /\ IsProvenance(i["provenance"])
  BY ModelIsObject DEF IsIngest
<1>2. DOMAIN Dump(i) = {f \in DOMAIN i : i[f] # None}
  BY DumpIs
<1>3. /\ DOMAIN wire = {f \in DOMAIN i : i[f] # None}
      /\ \A f \in DOMAIN wire : wire[f] = EncodeField(f, i[f])
  BY <1>2 DEF EncodeIngest
<1> HIDE DEF wire
<1>4. CASE IngestRefused(i)
  <2>1. i["content_class"] # None /\ "content_class" \in DOMAIN i /\ "content_class" \notin IngestKeys(i.mode)
    BY <1>1, <1>4 DEF IngestRefused, IngestFields, IngestKeys
  <2>. QED BY <1>4, <2>1 DEF IngestSurvives
<1>5. CASE ~IngestRefused(i)
  <2>1. DOMAIN wire \subseteq IngestKeys(i.mode)
    <3>1. CASE i["mode"] = "verbatim"
      BY <1>1, <1>3, <3>1 DEF IngestFields, IngestKeys
    <3>2. CASE i["mode"] # "verbatim"
      <4>1. i["content_class"] = None
        BY <1>5, <3>2 DEF IngestRefused
      <4>. QED BY <1>1, <1>3, <3>2, <4>1 DEF IngestFields, IngestKeys
    <3>. QED BY <3>1, <3>2
  <2>2. \A f \in DOMAIN i : (i[f] # None) <=> f \in DOMAIN wire
    BY <1>3
  <2>3. "provenance" \in DOMAIN i /\ "metadata" \in DOMAIN i
    BY <1>1 DEF IngestFields
  <2>4. i["provenance"] # None => DecodeProvenance(wire["provenance"]) = i["provenance"]
    <3>1. EncodeField("provenance", i["provenance"]) = EncodeProvenance(i["provenance"])
      BY DEF EncodeField
    <3>. QED BY <1>1, <1>3, <2>3, <3>1, ProvenanceSurvives DEF IsProvenance
  <2>5. i["metadata"] # None => SameValue(i["metadata"], wire["metadata"])
    <3>1. EncodeField("metadata", i["metadata"]) = Jsonify(i["metadata"])
      BY DEF EncodeField
    <3>. QED BY <1>3, <2>3, <3>1, JsonifiedIsSame
  <2>. QED BY <1>5, <2>1, <2>2, <2>4, <2>5 DEF IngestSurvives, wire
<1>. QED BY <1>4, <1>5
-----------------------------------------------------------------------------
(* LocalParts: the parts together. *)

LEMMA AlgorithmReturns ==
  AlgorithmNext => \E name \in {"chunks", "groups", "search", "topk", "tool", "facts"} :
                     \E input, output : Returns(name, input, output)
  BY Zenon DEF AlgorithmNext, Chunks, GroupsUnits, Searches, FindsTopK, CallsTool, FiltersFacts

LEMMA CodecReturns ==
  CodecNext => \E name \in {"page", "memory", "request", "ingest", "answer"} :
                 \E input, output : Returns(name, input, output)
  BY Zenon DEF CodecNext, EncodesPage, DecodesMemory, EncodesRequest, EncodesIngest, DecodesAnswer

\* A step of one part leaves the variables of the others alone.
LEMMA StepIsOfOnePart ==
  ASSUME [LocalNext]_allVars
  PROVE  /\ [EventsNext]_eventVars
         /\ [WalkNext]_walkVars
         /\ [AlgorithmNext \/ CodecNext]_job
  BY DEF LocalNext, Walks, Emits, Calculates, allVars, localVars

\* The emitter is Events.
THEOREM EmitterIsEvents == LocalSpec => EventsSpec
<1>1. LocalInit => EventsInit
  BY DEF LocalInit
<1>2. [LocalNext]_allVars => [EventsNext]_eventVars
  BY StepIsOfOnePart
<1>. QED BY <1>1, <1>2, PTL DEF LocalSpec, EventsSpec

\* EmitReachesAll of emit(), for the parts together.
THEOREM EmitReachesAllInParts == LocalSpec => []EmitReachesAll
BY EmitterIsEvents, EmitReachesAllAlways, PTL

LEMMA NoWalkIsFine == NoWalk => WalkInv
<1> SUFFICES ASSUME NoWalk PROVE WalkInv
  OBVIOUS
<1>1. /\ rows = <<>> /\ limit = None /\ cursor = None
      /\ over = TRUE /\ seen = {} /\ repeats = 0 /\ added = {} /\ deleted = {}
  BY DEF NoWalk
<1>2. rows \in Seq(Memories) /\ IsInjective(rows) /\ ToSet(rows) = {}
  <2>1. rows \in Seq(Memories) /\ DOMAIN rows = {}
    BY <1>1
  <2>. QED BY <2>1 DEF IsInjective, ToSet
<1>3. IsFiniteSet({}) /\ Cardinality({}) = 0
  BY FS_EmptySet
<1>4. WalkTypes
  BY <1>1, <1>2, <1>3 DEF WalkTypes
<1>5. WalkAligned
  BY <1>1 DEF WalkAligned
<1>6. WalkCounts
  <2>1. ToSet(rows) \ (added \cup seen) = {}
    BY <1>2
  <2>2. /\ Cardinality(ToSet(rows) \ (added \cup seen)) = 0
        /\ Cardinality(deleted) = 0 /\ Cardinality(added) = 0
    BY <1>1, <1>3, <2>1
  <2>3. /\ Cardinality(ToSet(rows) \ (added \cup seen)) <= Cardinality(deleted)
        /\ repeats <= Cardinality(added)
    BY <1>1, <2>2
  <2>. QED BY <1>1, <2>3 DEF WalkCounts
<1>. QED BY <1>4, <1>5, <1>6 DEF WalkInv

\* EachRowOnce of a walk through list(), for the parts together.
THEOREM EachRowOnceInParts ==
  ASSUME "mem0" \in OneLimit
  PROVE  LocalSpec => []EachRowOnce
<1>1. LocalInit => WalkInv
  BY WalkBegins, NoWalkIsFine DEF LocalInit
<1>2. WalkInv /\ [LocalNext]_allVars => WalkInv'
  BY WalkStep, StepIsOfOnePart
<1>. QED BY <1>1, <1>2, WalkInvImplies, PTL DEF LocalSpec

\* NothingLostUntold of chunking, the tools and the filter of meta-facts, for the parts
\* together.
THEOREM NothingLostUntoldInParts == LocalSpec => []NothingLostUntold
<1>1. LocalInit => NothingLostUntold
  BY DEF LocalInit, AlgorithmInit, NothingLostUntold, Did
<1>2. ASSUME NothingLostUntold, [LocalNext]_allVars PROVE NothingLostUntold'
  <2>1. CASE CodecNext
    <3>1. job'.name \in {"page", "memory", "request", "ingest", "answer"}
      BY <2>1, CodecReturns DEF Returns
    <3>. QED BY <3>1 DEF NothingLostUntold, Did
  <2>2. CASE [AlgorithmNext]_job
    BY <1>2, <2>2, LosesNothingStep
  <2>. QED BY <1>2, <2>1, <2>2, StepIsOfOnePart
<1>. QED BY <1>1, <1>2, PTL DEF LocalSpec

\* SearchReturnsTheBest of search() and find_top_k(), for the parts together.
THEOREM SearchReturnsTheBestInParts == LocalSpec => []SearchReturnsTheBest
<1>1. LocalInit => SearchReturnsTheBest
  BY DEF LocalInit, AlgorithmInit, SearchReturnsTheBest, Did
<1>2. ASSUME SearchReturnsTheBest, [LocalNext]_allVars PROVE SearchReturnsTheBest'
  <2>1. CASE CodecNext
    <3>1. job'.name \in {"page", "memory", "request", "ingest", "answer"}
      BY <2>1, CodecReturns DEF Returns
    <3>. QED BY <3>1 DEF SearchReturnsTheBest, Did
  <2>2. CASE [AlgorithmNext]_job
    BY <1>2, <2>2, SearchStep
  <2>. QED BY <1>2, <2>1, <2>2, StepIsOfOnePart
<1>. QED BY <1>1, <1>2, PTL DEF LocalSpec

\* One call of the codec does what CodecRoundTrips says.
LEMMA CodecStep ==
  ASSUME NoneIsNoFunction, CodecNext
  PROVE  CodecRoundTrips'
<1>1. CASE EncodesPage
  <2>1. PICK page \in ResultPages : Returns("page", page, EncodePage(page))
    BY <1>1 DEF EncodesPage
  <2>2. job'.name = "page" /\ job'.in = page /\ job'.out = EncodePage(page)
    BY <2>1 DEF Returns
  <2>3. PageSurvives(page, EncodePage(page))
    BY CodecAssumption, PageSurvivesAlways
  <2>. QED BY <2>2, <2>3 DEF CodecRoundTrips, Did
<1>2. CASE DecodesMemory
  <2>1. PICK wire \in WireMemories : \E out : Returns("memory", wire, out)
    BY <1>2, Zenon DEF DecodesMemory
  <2>2. job'.name = "memory" /\ job'.in = wire
    BY <2>1 DEF Returns
  <2>3. MemoryReturns(wire)
    BY CodecAssumption, NoneAssumption, MemoryReturnsAlways
  <2>. QED BY <2>2, <2>3 DEF CodecRoundTrips, Did
<1>3. CASE EncodesRequest
  <2>1. PICK r \in Requests : Returns("request", r, EncodeRequest(r))
    BY <1>3 DEF EncodesRequest
  <2>2. job'.name = "request" /\ job'.in = r /\ job'.out = EncodeRequest(r)
    BY <2>1 DEF Returns
  <2>3. RequestSurvives(r, EncodeRequest(r))
    BY CodecAssumption, RequestSurvivesAlways
  <2>. QED BY <2>2, <2>3 DEF CodecRoundTrips, Did
<1>4. CASE EncodesIngest
  <2>1. PICK i \in Ingests : \E out : Returns("ingest", i, out)
    BY <1>4, Zenon DEF EncodesIngest
  <2>2. job'.name = "ingest" /\ job'.in = i
    BY <2>1 DEF Returns
  <2>3. IngestSurvives(i)
    BY CodecAssumption, IngestSurvivesAlways
  <2>. QED BY <2>2, <2>3 DEF CodecRoundTrips, Did
<1>5. CASE DecodesAnswer
  <2>1. PICK wire \in IngestAnswers :
          Returns("answer", wire, IF IngestResultRefused(wire) THEN None ELSE DecodeIngestResult(wire))
    BY <1>5 DEF DecodesAnswer
  <2>2. /\ job'.name = "answer" /\ job'.in = wire
        /\ job'.out = IF IngestResultRefused(wire) THEN None ELSE DecodeIngestResult(wire)
    BY <2>1 DEF Returns
  <2>3. ~IngestResultRefused(wire) => \A k \in DOMAIN wire : DecodeIngestResult(wire)[k] = wire[k]
    BY DEF IngestResultRefused, DecodeIngestResult
  <2>. QED BY <2>2, <2>3 DEF CodecRoundTrips, Did
<1>. QED BY <1>1, <1>2, <1>3, <1>4, <1>5 DEF CodecNext

\* For any pages, memories, requests, filters, ingests and answers, of any size and nested
\* to any depth, what goes over the wire comes back, up to the dates, and what the contract
\* does not know is neither sent nor accepted.
THEOREM CodecRoundTripsAlways ==
  ASSUME NoneIsNoFunction
  PROVE  LocalSpec => []CodecRoundTrips
<1>1. LocalInit => CodecRoundTrips
  BY DEF LocalInit, AlgorithmInit, CodecRoundTrips, Did
<1>2. ASSUME CodecRoundTrips, [LocalNext]_allVars PROVE CodecRoundTrips'
  <2>1. CASE CodecNext
    BY <2>1, CodecStep
  <2>2. CASE AlgorithmNext
    <3>1. job'.name \in {"chunks", "groups", "search", "topk", "tool", "facts"}
      BY <2>2, AlgorithmReturns DEF Returns
    <3>. QED BY <3>1 DEF CodecRoundTrips, Did
  <2>3. CASE UNCHANGED job
    BY <1>2, <2>3 DEF CodecRoundTrips, Did
  <2>. QED BY <1>2, <2>1, <2>2, <2>3, StepIsOfOnePart
<1>. QED BY <1>1, <1>2, PTL DEF LocalSpec
=============================================================================
