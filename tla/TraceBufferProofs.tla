-------------------------- MODULE TraceBufferProofs --------------------------
(***************************************************************************)
(* Proofs about TraceBuffer, for every size of the buffer and of its       *)
(* events, any number of events and a fault at any store.                  *)
(*                                                                         *)
(* The inductive invariant TraceInv says which words hold whole events,    *)
(* one behind the other (Tiled): those of the present lap, from 0 to the   *)
(* head, and, from the tail on, those a reader can still find. The rest of *)
(* it is what keeps the two apart: where the head and the tail can be in   *)
(* each phase of an allocation. The fault handler starts from whatever     *)
(* the interrupted allocation left, so some of it depends on the handler.  *)
(***************************************************************************)
EXTENDS TraceBuffer, FiniteSetTheorems, SequenceTheorems, TLAPS

(* At least the largest event: four of them leave a word of the buffer.    *)
Largest == (Size - 1) \div 4

(* The words from a to b - 1 are covered by whole events inside of them.   *)
TiledBy(whole, a, b) ==
  \A w \in a .. b - 1 : \E e \in whole :
    a <= e.at /\ e.at <= w /\ w < e.at + e.size /\ e.at + e.size <= b

Tiled(a, b) == TiledBy(events, a, b)

TypeInv ==
  /\ head \in 0 .. Size /\ nextHead \in 0 .. Size
  /\ tail \in 0 .. Size - 1 /\ slack \in 0 .. Largest
  /\ events \subseteq [at : Nat, size : EventSizes, no : Nat]
  /\ eventCounter \in Nat /\ newest \in 0 .. eventCounter
  /\ phase \in Phases
  /\ size \in EventSizes \cup {0} /\ (size = 0 <=> phase = "idle")
  /\ handler \in {"off", "recording", "stopped"} /\ left \in Nat

(* Events lie inside the buffer and apart from each other.                 *)
EventsInv ==
  /\ \A e \in events : e.at + e.size <= Size
  /\ \A d, e \in events : d = e \/ d.at + d.size <= e.at \/ e.at + e.size <= d.at

(* What can be read back: the lap the head is in; from a tail behind the   *)
(* head; and from a tail in the old lap up to its slack.                   *)
TiledInv ==
  /\ Tiled(0, head)
  /\ tail <= head => Tiled(tail, head)
  /\ tail > head /\ ~InSlack(tail) => Tiled(tail, Size - slack)

(* A tail behind the head is at 0, but for the events that an allocation   *)
(* has popped, or had popped when the fault handler took over.             *)
TailBound ==
  IF phase \in {"idle", "claim", "claimAhead", "write", "commit", "popToWrap"}
  THEN IF handler = "off" THEN 0 ELSE 2 * Largest
  ELSE IF phase = "popFront"
  THEN IF handler = "off" THEN size ELSE 2 * Largest
  ELSE IF phase \in {"slackFront", "wrapFront"}
  THEN IF handler = "off" THEN size + Largest ELSE 3 * Largest
  ELSE Largest

TailInv == tail <= head => tail <= TailBound

(* Where the head and the tail are in each phase of an allocation.         *)
PhaseInv ==
  /\ phase \in {"popFront", "slackFront", "wrapFront"} =>
       tail <= head /\ Size - head <= size
  /\ phase \in {"popToWrap", "slackToWrap", "wrapToPop"} => Size - head < size
  /\ phase = "popToWrap" => tail = 0 \/ tail > head
  /\ phase \in {"slackFront", "wrapFront"} => tail > size
  /\ phase \in {"slackToWrap", "wrapToPop"} => tail # 0
  /\ phase \in {"wrapFront", "wrapToPop"} => slack = Size - head
  /\ phase = "popAhead" => tail > head /\ head + size <= Size
  /\ phase = "claim" =>
       head + size < Size /\ (tail > head => head + size < tail)
  /\ phase = "claimAhead" =>
       head + size <= Size /\ (tail > head => head + size < tail)
  /\ phase \in {"write", "commit"} =>
       /\ nextHead = head + size /\ head + size <= Size
       /\ tail > head => head + size < tail
  /\ phase = "commit" => \E e \in events : e.at = head /\ e.size = size

TraceInv == TypeInv /\ EventsInv /\ TiledInv /\ TailInv /\ PhaseInv

-----------------------------------------------------------------------------
(* Arithmetic.                                                             *)

\* Four events of any size, and one word more, fit the buffer.
LEMMA LargestFacts ==
  /\ Largest \in Nat /\ Size \in Nat /\ 4 * Largest + 1 <= Size
  /\ \A n \in EventSizes : n \in Nat /\ 1 <= n /\ n <= Largest
  /\ Size < WordRange /\ WordRange \in Nat
  BY SizesAssumption DEF Largest, WordRange

\* The modulo of an offset in the buffer, and of its end.
LEMMA ModFacts ==
  /\ \A a \in 0 .. Size - 1 : a % Size = a
  /\ Size % Size = 0
  BY SizesAssumption

-----------------------------------------------------------------------------
(* Tilings.                                                                *)

\* The event at the start of a tiling is the only one there, it ends inside,
\* and what is behind it is a tiling again.
LEMMA PopTile ==
  ASSUME TypeInv, EventsInv, NEW a \in Nat, NEW b \in Nat, a < b, Tiled(a, b),
         NEW n \in SizesAt(a)
  PROVE  /\ \E e \in events : e.at = a /\ e.size = n
         /\ n \in EventSizes /\ a + n <= b /\ Tiled(a + n, b)
  <1>1. PICK e \in events : a <= e.at /\ e.at <= a /\ a < e.at + e.size /\ e.at + e.size <= b
    BY DEF Tiled, TiledBy
  <1>2. \A d \in events : d.at \in Nat /\ d.size \in EventSizes /\ d.size \in Nat /\ 1 <= d.size
    BY LargestFacts DEF TypeInv
  <1>3. e.at = a
    BY <1>1, <1>2
  <1>4. \A d \in events : d.at = a => d = e
    BY <1>2, <1>3 DEF EventsInv
  <1>5. {d \in events : d.at = a} = {e}
    BY <1>3, <1>4
  <1>6. n = e.size
    BY <1>5 DEF SizesAt
  <1>7. ASSUME NEW w \in a + n .. b - 1
        PROVE  \E d \in events : a + n <= d.at /\ d.at <= w /\ w < d.at + d.size /\ d.at + d.size <= b
    <2>1. PICK d \in events : a <= d.at /\ d.at <= w /\ w < d.at + d.size /\ d.at + d.size <= b
      BY <1>2, <1>6 DEF Tiled, TiledBy
    <2>2. d # e
      BY <2>1, <1>2, <1>3, <1>6
    <2>3. a + n <= d.at
      BY <2>1, <2>2, <1>2, <1>3, <1>6 DEF EventsInv
    <2> QED
      BY <2>1, <2>3
  <1> QED
    BY <1>1, <1>2, <1>3, <1>6, <1>7 DEF Tiled, TiledBy

\* The words of a tiling are exactly the words of the events that start in it.
LEMMA TiledIsReadable ==
  ASSUME TypeInv, EventsInv, NEW a \in Nat, NEW b \in Nat, Tiled(a, b)
  PROVE  UNION {WordsOf(e) : e \in Within(a .. b - 1)} = a .. b - 1
  <1>1. \A d \in events : d.at \in Nat /\ d.size \in Nat /\ 1 <= d.size
    BY LargestFacts DEF TypeInv
  <1>2. ASSUME NEW e \in Within(a .. b - 1)
        PROVE  WordsOf(e) \subseteq a .. b - 1
    <2>1. e \in events /\ e.at \in a .. b - 1
      BY DEF Within
    <2>2. PICK d \in events : a <= d.at /\ d.at <= e.at /\ e.at < d.at + d.size /\ d.at + d.size <= b
      BY <2>1 DEF Tiled, TiledBy
    <2>3. d = e
      BY <2>1, <2>2, <1>1 DEF EventsInv
    <2> QED
      BY <2>1, <2>2, <2>3, <1>1 DEF WordsOf
  <1>3. ASSUME NEW w \in a .. b - 1
        PROVE  \E e \in Within(a .. b - 1) : w \in WordsOf(e)
    <2>1. PICK e \in events : a <= e.at /\ e.at <= w /\ w < e.at + e.size /\ e.at + e.size <= b
      BY DEF Tiled, TiledBy
    <2> QED
      BY <2>1, <1>1 DEF Within, WordsOf
  <1> QED
    BY <1>2, <1>3

\* Nothing is missing between a and a.
LEMMA EmptyTile ==
  ASSUME NEW a \in Nat
  PROVE  Tiled(a, a)
  BY DEF Tiled, TiledBy

\* An event at the end of a tiling makes it longer.
LEMMA PushTile ==
  ASSUME TypeInv, NEW a \in Nat, NEW b \in Nat, a <= b, Tiled(a, b),
         NEW n \in Nat, \E e \in events : e.at = b /\ e.size = n
  PROVE  Tiled(a, b + n)
  <1>1. ASSUME NEW w \in a .. b + n - 1
        PROVE  \E e \in events : a <= e.at /\ e.at <= w /\ w < e.at + e.size /\ e.at + e.size <= b + n
    <2>1. CASE w < b
      <3>1. PICK e \in events : a <= e.at /\ e.at <= w /\ w < e.at + e.size /\ e.at + e.size <= b
        BY <2>1 DEF Tiled, TiledBy
      <3>2. e.at \in Nat /\ e.size \in Nat
        BY LargestFacts DEF TypeInv
      <3> QED
        BY <3>1, <3>2
    <2>2. CASE w >= b
      BY <2>2
    <2> QED
      BY <2>1, <2>2
  <1> QED
    BY <1>1 DEF Tiled, TiledBy

-----------------------------------------------------------------------------
(* The steps.                                                              *)

LEMMA InitTraceInv == Init => TraceInv
  <1> SUFFICES ASSUME Init PROVE TraceInv
    OBVIOUS
  <1>1. TypeInv
    BY LargestFacts DEF Init, TypeInv, Phases, PopPhases
  <1>2. EventsInv
    BY DEF Init, EventsInv
  <1>3. TiledInv
    BY DEF Init, TiledInv, Tiled, TiledBy
  <1>4. TailInv /\ PhaseInv
    BY LargestFacts DEF Init, TailInv, TailBound, PhaseInv
  <1> QED
    BY <1>1, <1>2, <1>3, <1>4 DEF TraceInv

\* A tail behind the head is never in the slack, which belongs to the words
\* that the largest event did not fit in.
LEMMA TailBehindHead ==
  ASSUME TraceInv, tail <= head, phase \in PopPhases
  PROVE  ~InSlack(tail) /\ tail < head
  BY LargestFacts DEF TraceInv, TypeInv, TailInv, TailBound, PhaseInv, PopPhases, InSlack

\* A pop meets a whole event, or is done with the old lap.
LEMMA PopStep ==
  ASSUME TraceInv, phase \in PopPhases, AllocPop
  PROVE  /\ tail' \in 0 .. Size - 1
         /\ \/ /\ tail < head /\ tail' <= head
               /\ \E n \in EventSizes : tail' = tail + n
               /\ Tiled(tail', head)
            \/ /\ tail > head /\ tail' > tail
               /\ \E n \in EventSizes : tail' = tail + n
               /\ ~InSlack(tail') => Tiled(tail', Size - slack)
            \/ tail > head /\ tail' = 0
  <1>1. CASE InSlack(tail)
    BY <1>1, TailBehindHead, LargestFacts DEF AllocPop, TraceInv, TypeInv
  <1>2. CASE ~InSlack(tail)
    <2> DEFINE b == IF tail < head THEN head ELSE Size - slack
    <2>1. tail \in Nat /\ b \in Nat /\ b <= Size /\ tail < b /\ Tiled(tail, b)
      <3>1. CASE tail <= head
        BY <3>1, <1>2, TailBehindHead, LargestFacts DEF TraceInv, TypeInv, TiledInv, InSlack
      <3>2. CASE tail > head
        BY <3>2, <1>2, LargestFacts DEF TraceInv, TypeInv, TiledInv, InSlack
      <3> QED
        BY <3>1, <3>2, LargestFacts DEF TraceInv, TypeInv
    <2>2. PICK n \in SizesAt(tail) : tail' = (tail + n) % Size
      BY <1>2 DEF AllocPop
    <2> HIDE DEF b
    <2>3. n \in EventSizes /\ tail + n <= b /\ Tiled(tail + n, b)
      BY <2>1, PopTile DEF TraceInv
    <2>4. n \in Nat /\ 1 <= n
      BY <2>3, LargestFacts
    <2>5. \/ tail + n < Size /\ tail' = tail + n
          \/ tail + n = Size /\ tail' = 0
      <3>1. tail + n \in 0 .. Size
        BY <2>1, <2>3, <2>4, LargestFacts
      <3> QED
        BY <3>1, <2>2, ModFacts, LargestFacts
    <2>6. tail # head
      BY <1>2, TailBehindHead DEF TraceInv, TypeInv
    <2>7. CASE tail < head
      <3>1. b = head /\ head <= Size
        BY <2>7, LargestFacts DEF b, TraceInv, TypeInv
      <3>2. tail' = tail + n
        BY <2>7, <3>1, <2>1, <2>3, <2>4, <2>5, LargestFacts
           DEF TraceInv, TypeInv, TailInv, TailBound, PhaseInv, PopPhases
      <3> QED
        BY <2>7, <3>1, <3>2, <2>1, <2>3, <2>4, <2>5, LargestFacts
    <2>8. CASE tail > head
      <3>1. b = Size - slack
        BY <2>8 DEF b, TraceInv, TypeInv
      <3> QED
        BY <2>8, <3>1, <2>1, <2>3, <2>4, <2>5, LargestFacts DEF TraceInv, TypeInv
    <2> QED
      BY <2>6, <2>7, <2>8, LargestFacts DEF TraceInv, TypeInv
  <1> QED
    BY <1>1, <1>2

LEMMA StartEventStep ==
  ASSUME TraceInv, NEW n \in EventSizes, StartEvent(n)
  PROVE  TraceInv'
  <1>1. /\ phase = "idle" /\ size' = n /\ phase' = Branch(n)
        /\ UNCHANGED <<head, tail, slack, nextHead, events, handler, newest>>
        /\ left' \in Nat /\ eventCounter' = eventCounter + 1
    BY DEF StartEvent, bufferVars, TraceInv, TypeInv
  <1>2. phase' \in {"claim", "popFront", "claimAhead", "popToWrap", "popAhead"}
    BY <1>1 DEF Branch
  <1>3. TypeInv'
    BY <1>1, <1>2, LargestFacts DEF TraceInv, TypeInv, Phases, PopPhases
  <1>4. EventsInv' /\ TiledInv'
    BY <1>1 DEF TraceInv, EventsInv, TiledInv, Tiled, TiledBy, InSlack
  <1>5. TailInv'
    <2> SUFFICES ASSUME tail <= head
                 PROVE  tail <= TailBound'
      BY <1>1 DEF TailInv
    <2>1. tail <= IF handler = "off" THEN 0 ELSE 2 * Largest
      BY <1>1 DEF TraceInv, TailInv, TailBound
    <2>2. phase' \in {"claim", "popFront"}
      BY <1>1 DEF Branch, TraceInv, TypeInv
    <2> QED
      BY <1>1, <2>1, <2>2, LargestFacts DEF TailBound, TraceInv, TypeInv
  <1>6. PhaseInv'
    <2>1. CASE head >= tail
      BY <2>1, <1>1, LargestFacts DEF Branch, TraceInv, TypeInv, TailInv, TailBound, PhaseInv
    <2>2. CASE head < tail
      <3>1. FreeAhead(tail) = tail - head - 1
        BY <2>2 DEF FreeAhead, Minus, TraceInv, TypeInv
      <3> QED
        BY <2>2, <3>1, <1>1, LargestFacts DEF Branch, TraceInv, TypeInv, PhaseInv
    <2> QED
      BY <2>1, <2>2 DEF TraceInv, TypeInv
  <1> QED
    BY <1>3, <1>4, <1>5, <1>6 DEF TraceInv

\* What the three loops share: only the tail and the phase change.
LEMMA PopKeeps ==
  ASSUME TraceInv, phase \in PopPhases, AllocPop, phase' \in Phases \ {"idle"},
         UNCHANGED <<head, slack, nextHead, events, eventCounter, size, handlerVars, newest>>
  PROVE  TypeInv' /\ EventsInv' /\ TiledInv'
  <1>1. TypeInv'
    BY PopStep DEF TraceInv, TypeInv, PopPhases, handlerVars
  <1>2. EventsInv'
    BY DEF TraceInv, EventsInv
  <1>3. TiledInv'
    <2>1. Tiled(0, head)'
      BY DEF TraceInv, TiledInv, Tiled, TiledBy
    <2>2. (tail <= head => Tiled(tail, head))'
      <3>1. CASE tail' = 0
        BY <3>1, <2>1 DEF Tiled, TiledBy
      <3>2. CASE tail < head /\ Tiled(tail', head)
        BY <3>2 DEF Tiled, TiledBy
      <3> QED
        BY <3>1, <3>2, PopStep, LargestFacts DEF TraceInv, TypeInv
    <2>3. (tail > head /\ ~InSlack(tail) => Tiled(tail, Size - slack))'
      <3> SUFFICES ASSUME tail' > head, ~InSlack(tail')
                   PROVE  Tiled(tail', Size - slack)
        BY DEF InSlack, Tiled, TiledBy
      <3> QED
        BY PopStep, LargestFacts DEF TraceInv, TypeInv
    <2> QED
      BY <2>1, <2>2, <2>3 DEF TiledInv
  <1> QED
    BY <1>1, <1>2, <1>3

LEMMA PopFrontStep ==
  ASSUME TraceInv, PopFront
  PROVE  TraceInv'
  <1>1. /\ phase = "popFront" /\ phase \in PopPhases /\ AllocPop
        /\ phase' = IF FreeFront(tail') < size THEN "popFront" ELSE "slackFront"
        /\ UNCHANGED <<head, slack, nextHead, events, eventCounter, size, handlerVars, newest>>
    BY DEF PopFront, PopPhases
  <1>2. TypeInv' /\ EventsInv' /\ TiledInv'
    BY <1>1, PopKeeps DEF Phases, PopPhases
  <1>3. PICK n \in EventSizes : tail' = tail + n /\ tail < head /\ tail' <= head
    BY <1>1, PopStep, LargestFacts DEF TraceInv, TypeInv, PhaseInv
  <1>4. n \in Nat /\ 1 <= n /\ n <= Largest
    BY <1>3, LargestFacts
  <1>5. FreeFront(tail') = tail' - 1
    BY <1>3, <1>4 DEF FreeFront, Minus, TraceInv, TypeInv
  <1>6. TailInv'
    BY <1>1, <1>3, <1>4, <1>5, LargestFacts
       DEF TraceInv, TypeInv, TailInv, TailBound, PhaseInv, handlerVars
  <1>7. PhaseInv'
    BY <1>1, <1>3, <1>4, <1>5, LargestFacts DEF TraceInv, TypeInv, PhaseInv
  <1> QED
    BY <1>2, <1>6, <1>7 DEF TraceInv

LEMMA PopToWrapStep ==
  ASSUME TraceInv, PopToWrap
  PROVE  TraceInv'
  <1>1. /\ phase = "popToWrap" /\ phase \in PopPhases /\ AllocPop
        /\ phase' = IF tail' = 0 THEN "popToWrap" ELSE "slackToWrap"
        /\ UNCHANGED <<head, slack, nextHead, events, eventCounter, size, handlerVars, newest>>
    BY DEF PopToWrap, PopPhases
  <1>2. TypeInv' /\ EventsInv' /\ TiledInv'
    BY <1>1, PopKeeps DEF Phases, PopPhases
  <1>3. tail = 0 \/ tail > head
    BY <1>1 DEF TraceInv, PhaseInv
  <1>4. TailInv'
    BY <1>1, <1>3, PopStep, LargestFacts DEF TraceInv, TypeInv, TailInv, TailBound, handlerVars
  <1>5. PhaseInv'
    BY <1>1, LargestFacts DEF TraceInv, TypeInv, PhaseInv
  <1> QED
    BY <1>2, <1>4, <1>5 DEF TraceInv

LEMMA PopAheadStep ==
  ASSUME TraceInv, PopAhead
  PROVE  TraceInv'
  <1>1. /\ phase = "popAhead" /\ phase \in PopPhases /\ AllocPop
        /\ phase' = IF FreeAhead(tail') < size THEN "popAhead" ELSE "claimAhead"
        /\ UNCHANGED <<head, slack, nextHead, events, eventCounter, size, handlerVars, newest>>
    BY DEF PopAhead, PopPhases
  <1>2. TypeInv' /\ EventsInv' /\ TiledInv'
    BY <1>1, PopKeeps DEF Phases, PopPhases
  <1>3. tail > head /\ head + size <= Size /\ size \in Nat
    BY <1>1, LargestFacts DEF TraceInv, PhaseInv, TypeInv
  <1>4. \/ tail' > head /\ tail' \in Nat /\ FreeAhead(tail') = tail' - head - 1
        \/ tail' = 0 /\ ~(FreeAhead(tail') < size)
    <2>1. CASE tail' > head
      BY <1>1, <2>1, PopStep DEF FreeAhead, Minus, TraceInv, TypeInv
    <2>2. CASE tail' = 0
      BY <1>3, <2>2, LargestFacts DEF FreeAhead, Minus, TraceInv, TypeInv
    <2> QED
      BY <1>1, <1>3, <2>1, <2>2, PopStep, LargestFacts DEF TraceInv, TypeInv
  <1>5. TailInv'
    BY <1>1, <1>4, LargestFacts DEF TraceInv, TypeInv, TailInv, TailBound, handlerVars
  <1>6. PhaseInv'
    BY <1>1, <1>3, <1>4, LargestFacts DEF TraceInv, TypeInv, PhaseInv
  <1> QED
    BY <1>2, <1>5, <1>6 DEF TraceInv

LEMMA SetSlackStep ==
  ASSUME TraceInv, SetSlack
  PROVE  TraceInv'
  <1>1. /\ slack' = Size - head
        /\ \/ phase = "slackFront" /\ phase' = "wrapFront"
           \/ phase = "slackToWrap" /\ phase' = "wrapToPop"
        /\ UNCHANGED <<head, tail, nextHead, events, eventCounter, size, handlerVars, newest>>
    BY DEF SetSlack
  <1>2. Size - head \in 0 .. Largest
    BY <1>1, LargestFacts DEF TraceInv, TypeInv, PhaseInv
  <1>3. TypeInv'
    BY <1>1, <1>2 DEF TraceInv, TypeInv, Phases, PopPhases, handlerVars
  <1>4. EventsInv'
    BY <1>1 DEF TraceInv, EventsInv
  <1>5. TiledInv'
    <2>1. Tiled(0, head)' /\ (tail <= head => Tiled(tail, head))'
      BY <1>1 DEF TraceInv, TiledInv, Tiled, TiledBy
    <2>2. (tail > head => InSlack(tail))'
      BY <1>1, LargestFacts DEF TraceInv, TypeInv, InSlack
    <2> QED
      BY <2>1, <2>2 DEF TiledInv
  <1>6. TailInv'
    BY <1>1 DEF TraceInv, TailInv, TailBound, handlerVars
  <1>7. PhaseInv'
    BY <1>1 DEF TraceInv, PhaseInv
  <1> QED
    BY <1>3, <1>4, <1>5, <1>6, <1>7 DEF TraceInv

LEMMA WrapHeadStep ==
  ASSUME TraceInv, WrapHead
  PROVE  TraceInv'
  <1>1. /\ head' = 0
        /\ \/ phase = "wrapFront" /\ phase' = "claim"
           \/ phase = "wrapToPop" /\ phase' = "popAhead"
        /\ UNCHANGED <<tail, slack, nextHead, events, eventCounter, size, handlerVars, newest>>
    BY DEF WrapHead
  <1>2. TypeInv'
    BY <1>1, LargestFacts DEF TraceInv, TypeInv, Phases, PopPhases, handlerVars
  <1>3. EventsInv'
    BY <1>1 DEF TraceInv, EventsInv
  <1>4. tail > 0 /\ slack = Size - head /\ size \in Nat /\ size <= Largest
    BY <1>1, LargestFacts DEF TraceInv, TypeInv, PhaseInv
  <1>5. TiledInv'
    <2>1. Tiled(0, head)'
      BY <1>1, EmptyTile DEF Tiled, TiledBy
    <2>2. ASSUME ~InSlack(tail)
          PROVE  Tiled(tail, Size - slack)'
      <3>1. tail < head /\ Size - slack = head
        BY <1>4, <2>2, LargestFacts DEF TraceInv, TypeInv, InSlack
      <3> QED
        BY <3>1, <1>1 DEF TraceInv, TiledInv, Tiled, TiledBy, TypeInv
    <2> QED
      BY <1>1, <1>4, <2>1, <2>2 DEF TiledInv, InSlack, TraceInv, TypeInv
  <1>6. TailInv'
    BY <1>1, <1>4 DEF TailInv, TraceInv, TypeInv
  <1>7. PhaseInv'
    BY <1>1, <1>4, LargestFacts DEF TraceInv, PhaseInv, TypeInv
  <1> QED
    BY <1>2, <1>3, <1>5, <1>6, <1>7 DEF TraceInv

LEMMA ClaimStep ==
  ASSUME TraceInv, Claim
  PROVE  TraceInv'
  <1>1. /\ phase \in {"claim", "claimAhead"} /\ phase' = "write"
        /\ UNCHANGED <<head, tail, slack, events, eventCounter, size, handlerVars, newest>>
    BY DEF Claim
  <1>2. /\ nextHead' = head + size /\ head + size \in 0 .. Size
        /\ tail > head => head + size < tail
    <2>1. size \in Nat
      BY LargestFacts DEF TraceInv, TypeInv
    <2>2. CASE phase = "claim"
      BY <2>1, <2>2, ModFacts, LargestFacts DEF Claim, TraceInv, TypeInv, PhaseInv
    <2>3. CASE phase = "claimAhead"
      BY <2>1, <2>3 DEF Claim, TraceInv, TypeInv, PhaseInv
    <2> QED
      BY <1>1, <2>2, <2>3
  <1>3. TypeInv'
    BY <1>1, <1>2 DEF TraceInv, TypeInv, Phases, PopPhases, handlerVars
  <1>4. EventsInv' /\ TiledInv'
    BY <1>1 DEF TraceInv, EventsInv, TiledInv, Tiled, TiledBy, InSlack
  <1>5. TailInv'
    BY <1>1 DEF TraceInv, TailInv, TailBound, handlerVars
  <1>6. PhaseInv'
    BY <1>1, <1>2, LargestFacts DEF TraceInv, TypeInv, PhaseInv
  <1> QED
    BY <1>3, <1>4, <1>5, <1>6 DEF TraceInv

LEMMA WriteEventStep ==
  ASSUME TraceInv, WriteEvent
  PROVE  TraceInv'
  <1> DEFINE new == [at |-> head, size |-> size, no |-> eventCounter]
  <1>1. /\ phase = "write" /\ phase' = "commit"
        /\ events' = {e \in events : e.at >= head + size \/ e.at + e.size <= head} \cup {new}
        /\ UNCHANGED <<head, tail, slack, nextHead, eventCounter, size, handlerVars, newest>>
    BY DEF WriteEvent, bufferVars
  <1>2. head \in Nat /\ size \in EventSizes /\ size \in Nat /\ 1 <= size /\ head + size <= Size
    BY <1>1, LargestFacts DEF TraceInv, TypeInv, PhaseInv
  <1>3. new \in [at : Nat, size : EventSizes, no : Nat] /\ new.at = head /\ new.size = size
    BY <1>2 DEF TraceInv, TypeInv
  <1> HIDE DEF new
  <1>4. \A e \in events : e.at \in Nat /\ e.size \in Nat /\ 1 <= e.size
    BY LargestFacts DEF TraceInv, TypeInv
  <1>5. TypeInv'
    <2>1. events' \subseteq [at : Nat, size : EventSizes, no : Nat]
      BY <1>1, <1>3 DEF TraceInv, TypeInv
    <2> QED
      BY <1>1, <2>1 DEF TraceInv, TypeInv, Phases, PopPhases, handlerVars
  <1>6. EventsInv'
    <2>1. \A e \in events' : e = new \/ (e \in events /\ (e.at >= head + size \/ e.at + e.size <= head))
      BY <1>1
    <2> QED
      BY <2>1, <1>2, <1>3, <1>4 DEF TraceInv, EventsInv
  <1>7. ASSUME NEW a \in Nat, NEW b \in Nat, Tiled(a, b), b <= head \/ head + size <= a
        PROVE  TiledBy(events', a, b)
    <2>1. ASSUME NEW w \in a .. b - 1
          PROVE  \E e \in events' : a <= e.at /\ e.at <= w /\ w < e.at + e.size /\ e.at + e.size <= b
      <3>1. PICK e \in events : a <= e.at /\ e.at <= w /\ w < e.at + e.size /\ e.at + e.size <= b
        BY <1>7 DEF Tiled, TiledBy
      <3>2. e \in events'
        BY <3>1, <1>1, <1>2, <1>4, <1>7
      <3> QED
        BY <3>1, <3>2
    <2> QED
      BY <2>1 DEF TiledBy
  <1>8. TiledInv'
    <2>1. TiledBy(events', 0, head) /\ (tail <= head => TiledBy(events', tail, head))
      <3>1. Tiled(0, head) /\ tail \in Nat /\ (tail <= head => Tiled(tail, head))
        BY DEF TraceInv, TiledInv, TypeInv
      <3> QED
        BY <3>1, <1>2, <1>7
    <2>2. tail > head /\ ~InSlack(tail) => TiledBy(events', tail, Size - slack)
      <3> SUFFICES ASSUME tail > head, ~InSlack(tail)
                   PROVE  TiledBy(events', tail, Size - slack)
        OBVIOUS
      <3>1. Tiled(tail, Size - slack) /\ tail \in Nat /\ Size - slack \in Nat /\ head + size <= tail
        BY <1>1, <1>2, LargestFacts DEF TraceInv, TiledInv, TypeInv, PhaseInv
      <3> QED
        BY <3>1, <1>7
    <2> QED
      BY <1>1, <2>1, <2>2 DEF TiledInv, InSlack, Tiled, TiledBy
  <1>9. TailInv'
    BY <1>1 DEF TraceInv, TailInv, TailBound, handlerVars
  <1>10. PhaseInv'
    <2>1. \E e \in events' : e.at = head /\ e.size = size
      BY <1>1, <1>3
    <2> QED
      BY <1>1, <2>1 DEF TraceInv, PhaseInv
  <1> QED
    BY <1>5, <1>6, <1>8, <1>9, <1>10 DEF TraceInv

LEMMA CommitStep ==
  ASSUME TraceInv, Commit
  PROVE  TraceInv'
  <1>1. /\ phase = "commit" /\ phase' = "idle" /\ head' = head + size
        /\ size' = 0 /\ newest' = eventCounter
        /\ UNCHANGED <<tail, slack, nextHead, events, eventCounter, handlerVars>>
    BY DEF Commit, TraceInv, PhaseInv
  <1>2. head \in Nat /\ tail \in Nat /\ size \in Nat /\ 1 <= size /\ head + size <= Size
    BY <1>1, LargestFacts DEF TraceInv, TypeInv, PhaseInv
  <1>3. tail > head => head + size < tail
    BY <1>1 DEF TraceInv, PhaseInv
  <1>4. TypeInv'
    BY <1>1, <1>2, LargestFacts DEF TraceInv, TypeInv, Phases, handlerVars
  <1>5. EventsInv'
    BY <1>1 DEF TraceInv, EventsInv
  <1>6. TiledInv'
    <2>1. \E e \in events : e.at = head /\ e.size = size
      BY <1>1 DEF TraceInv, PhaseInv
    <2>2. Tiled(0, head + size)
      BY <2>1, <1>2, PushTile DEF TraceInv, TiledInv
    <2>3. tail <= head => Tiled(tail, head + size)
      BY <2>1, <1>2, PushTile DEF TraceInv, TiledInv
    <2>4. tail > head /\ ~InSlack(tail) => Tiled(tail, Size - slack)
      BY DEF TraceInv, TiledInv
    <2>5. tail <= head + size <=> tail <= head
      BY <1>2, <1>3
    <2> QED
      BY <1>1, <1>2, <2>2, <2>3, <2>4, <2>5 DEF TiledInv, Tiled, InSlack
  <1>7. TailInv'
    BY <1>1, <1>2, <1>3 DEF TraceInv, TailInv, TailBound, handlerVars
  <1>8. PhaseInv'
    BY <1>1 DEF PhaseInv
  <1> QED
    BY <1>4, <1>5, <1>6, <1>7, <1>8 DEF TraceInv

LEMMA FaultStep ==
  ASSUME TraceInv, Fault
  PROVE  TraceInv'
  <1>1. /\ handler = "off" /\ handler' = "recording" /\ phase' = "idle" /\ size' = 0
        /\ UNCHANGED <<head, tail, slack, nextHead, events, eventCounter, newest>>
        /\ left' \in Nat
    BY SizesAssumption DEF Fault, bufferVars
  <1>2. TypeInv'
    BY <1>1, LargestFacts DEF TraceInv, TypeInv, Phases
  <1>3. EventsInv' /\ TiledInv'
    BY <1>1 DEF TraceInv, EventsInv, TiledInv, Tiled, TiledBy, InSlack
  <1>4. TailInv'
    BY <1>1, LargestFacts DEF TraceInv, TypeInv, TailInv, TailBound, PhaseInv
  <1>5. PhaseInv'
    BY <1>1 DEF PhaseInv
  <1> QED
    BY <1>2, <1>3, <1>4, <1>5 DEF TraceInv

LEMMA AddTracePayloadStep ==
  ASSUME TraceInv, AddTracePayload
  PROVE  TraceInv'
  <1>1. /\ phase = "idle" /\ handler = "recording" /\ handler' = "stopped"
        /\ UNCHANGED <<head, tail, slack, nextHead, events, eventCounter, phase, size, left, newest>>
    BY DEF AddTracePayload, bufferVars
  <1>2. TypeInv' /\ EventsInv' /\ TiledInv'
    BY <1>1 DEF TraceInv, TypeInv, EventsInv, TiledInv, Tiled, TiledBy, InSlack
  <1>3. TailInv' /\ PhaseInv'
    BY <1>1 DEF TraceInv, TailInv, TailBound, PhaseInv
  <1> QED
    BY <1>2, <1>3 DEF TraceInv

\* The invariant of the event buffer.
THEOREM TraceInvInductive == Spec => []TraceInv
  <1>1. TraceInv /\ [Next]_vars => TraceInv'
    <2> SUFFICES ASSUME TraceInv, [Next]_vars PROVE TraceInv'
      OBVIOUS
    <2>1. ASSUME NEW n \in EventSizes, StartEvent(n) PROVE TraceInv'
      BY <2>1, StartEventStep
    <2>2. CASE PopFront \/ PopToWrap \/ PopAhead
      BY <2>2, PopFrontStep, PopToWrapStep, PopAheadStep
    <2>3. CASE SetSlack \/ WrapHead
      BY <2>3, SetSlackStep, WrapHeadStep
    <2>4. CASE Claim \/ WriteEvent \/ Commit
      BY <2>4, ClaimStep, WriteEventStep, CommitStep
    <2>5. CASE Fault \/ AddTracePayload
      BY <2>5, FaultStep, AddTracePayloadStep
    <2>6. CASE UNCHANGED vars
      <3>1. UNCHANGED <<head, tail, slack, nextHead, events, eventCounter, phase, size,
                        handler, left, newest>>
        BY <2>6 DEF vars, bufferVars, handlerVars
      <3>2. TypeInv' /\ EventsInv' /\ TiledInv'
        BY <3>1 DEF TraceInv, TypeInv, EventsInv, TiledInv, Tiled, TiledBy, InSlack
      <3>3. TailInv' /\ PhaseInv'
        BY <3>1 DEF TraceInv, TailInv, TailBound, PhaseInv
      <3> QED
        BY <3>2, <3>3 DEF TraceInv
    <2> QED
      BY <2>1, <2>2, <2>3, <2>4, <2>5, <2>6 DEF Next
  <1> QED
    BY <1>1, InitTraceInv, PTL DEF Spec

-----------------------------------------------------------------------------
(* What follows from it.                                                   *)

\* The offsets stay inside the buffer, as do the events, whatever the fault
\* handler interrupts.
THEOREM TraceTypeCorrect == Spec => []TraceTypeOK
  <1>1. TraceInv => TraceTypeOK
    <2> SUFFICES ASSUME TraceInv PROVE TraceTypeOK
      OBVIOUS
    <2>1. \A e \in events : e.size \in EventSizes /\ WordsOf(e) \subseteq 0 .. Size - 1
      BY LargestFacts DEF TraceInv, TypeInv, EventsInv, WordsOf
    <2> QED
      BY <2>1, LargestFacts DEF TraceInv, TypeInv, TraceTypeOK
  <1> QED
    BY <1>1, TraceInvInductive, PTL

\* From the tail to the head a reader finds whole events and nothing else, at
\* every store of every allocation.
THEOREM Readable == Spec => []ReadableAtAnyInstant
  <1>1. TraceInv => ReadableAtAnyInstant
    <2> SUFFICES ASSUME TraceInv, NEW words \in {OldLap, NewLap}
                 PROVE  UNION {WordsOf(e) : e \in Within(words)} = words
      BY DEF ReadableAtAnyInstant
    <2>1. head \in Nat /\ tail \in Nat /\ Size - slack \in Nat
      BY LargestFacts DEF TraceInv, TypeInv
    <2>2. CASE words = {}
      <3>1. Within({}) = {}
        BY DEF Within
      <3> QED
        BY <2>2, <3>1
    <2>3. CASE words = OldLap /\ OldLap # {}
      <3>1. words = tail .. (Size - slack) - 1 /\ Tiled(tail, Size - slack)
        BY <2>1, <2>3 DEF OldLap, TraceInv, TiledInv
      <3> QED
        BY <2>1, <3>1, TiledIsReadable DEF TraceInv
    <2>4. CASE words = NewLap
      <3> DEFINE a == IF tail <= head THEN tail ELSE 0
      <3>1. words = a .. head - 1 /\ a \in Nat /\ Tiled(a, head)
        BY <2>1, <2>4 DEF NewLap, TraceInv, TiledInv
      <3> HIDE DEF a
      <3> QED
        BY <2>1, <3>1, TiledIsReadable DEF TraceInv
    <2> QED
      BY <2>2, <2>3, <2>4
  <1> QED
    BY <1>1, TraceInvInductive, PTL

\* The loops that make room read the size of a whole event that a reader would
\* find, never garbage; and they stop before the tail meets the head.
THEOREM PopsWholeEvents == Spec => []PopsOnlyWholeEvents
  <1>1. TraceInv => PopsOnlyWholeEvents
    <2> SUFFICES ASSUME TraceInv, phase \in PopPhases, ~InSlack(tail)
                 PROVE  tail # head /\ \E e \in Within(OldLap \cup NewLap) : e.at = tail
      BY DEF PopsOnlyWholeEvents
    <2>1. head \in Nat /\ tail \in Nat /\ Size - slack \in Nat
          /\ tail < Size - slack
      BY LargestFacts DEF TraceInv, TypeInv, InSlack
    <2>2. PICK b \in Nat : tail < b /\ Tiled(tail, b)
      BY <2>1, TailBehindHead DEF TraceInv, TiledInv
    <2>3. \E e \in events : e.at = tail
      <3>1. PICK n \in SizesAt(tail) : TRUE
        <4>1. Size \in Nat /\ Size >= 1
          BY SizesAssumption
        <4> QED
          BY <4>1 DEF SizesAt
      <3> QED
        BY <2>1, <2>2, <3>1, PopTile DEF TraceInv
    <2>4. tail \in OldLap \cup NewLap
      BY <2>1, TailBehindHead DEF OldLap, NewLap
    <2>5. tail # head
      BY <2>1, TailBehindHead
    <2> QED
      BY <2>3, <2>4, <2>5 DEF Within
  <1> QED
    BY <1>1, TraceInvInductive, PTL

\* An event is written inside the buffer, over no event a reader can find.
THEOREM ClaimedWordsFree == Spec => []ClaimedWordsAreFree
  <1>1. TraceInv => ClaimedWordsAreFree
    <2> SUFFICES ASSUME TraceInv, phase \in {"write", "commit"}
                 PROVE  /\ head + size <= Size
                        /\ (head .. head + size - 1) \cap (OldLap \cup NewLap) = {}
      BY DEF ClaimedWordsAreFree
    <2>1. head \in Nat /\ tail \in Nat /\ size \in Nat /\ Size - slack \in Nat
      BY LargestFacts DEF TraceInv, TypeInv
    <2>2. head + size <= Size /\ (tail > head => head + size < tail)
      BY DEF TraceInv, PhaseInv
    <2> QED
      BY <2>1, <2>2 DEF OldLap, NewLap
  <1> QED
    BY <1>1, TraceInvInductive, PTL

-----------------------------------------------------------------------------
(* The refinement of TraceWindow: the buffer keeps the newest events in    *)
(* their order, whatever a fault cuts short.                               *)
(*                                                                         *)
(* The window is a sequence, the events lie in memory: what puts one in    *)
(* place of the other is the rank of an event among those that can be      *)
(* read, the number of them that lie before it (InOrder). The lemmas on    *)
(* ranks are about any set of events at different places.                  *)

(* Ranks.                                                                  *)

(* Events at different places.                                             *)
Placed(found) ==
  /\ IsFiniteSet(found)
  /\ \A e \in found : e.at \in Nat /\ e.no \in Nat
  /\ \A d, e \in found : d.at = e.at => d = e

\* An event has a rank below the number of events, and a later one a higher.
LEMMA RankFacts ==
  ASSUME NEW S, Placed(S)
  PROVE  /\ Cardinality(S) \in Nat
         /\ \A e \in S : Rank(S, e) \in 0 .. Cardinality(S) - 1
         /\ \A d, e \in S : d.at < e.at => Rank(S, d) < Rank(S, e)
  <1> DEFINE Before(e) == {d \in S : d.at < e.at}
  <1>1. Cardinality(S) \in Nat /\ IsFiniteSet(S)
    BY FS_CardinalityType DEF Placed
  <1>2. ASSUME NEW e \in S
        PROVE  /\ IsFiniteSet(Before(e)) /\ Cardinality(Before(e)) \in Nat
               /\ Cardinality(Before(e)) < Cardinality(S)
    <2>1. Before(e) \in SUBSET S /\ e \notin Before(e)
      BY DEF Placed
    <2> QED
      BY <1>1, <2>1, FS_Subset, FS_CardinalityType
  <1>3. ASSUME NEW d \in S, NEW e \in S, d.at < e.at
        PROVE  Cardinality(Before(d)) < Cardinality(Before(e))
    <2>1. Before(d) \in SUBSET Before(e) /\ d \in Before(e) /\ d \notin Before(d)
      BY <1>3 DEF Placed
    <2>2. Before(d) # Before(e)
      BY <2>1
    <2>3. /\ IsFiniteSet(Before(e))
          /\ Cardinality(Before(d)) \in Nat /\ Cardinality(Before(e)) \in Nat
      BY <1>2
    <2> HIDE DEF Before
    <2> QED
      BY <2>1, <2>2, <2>3, FS_Subset
  <1>4. \A e \in S : Rank(S, e) = Cardinality(Before(e))
    BY DEF Rank
  <1> HIDE DEF Before
  <1> QED
    BY <1>1, <1>2, <1>3, <1>4

\* Two events have different ranks.
LEMMA RankOneToOne ==
  ASSUME NEW S, Placed(S), NEW d \in S, NEW e \in S, Rank(S, d) = Rank(S, e)
  PROVE  d = e
  BY RankFacts DEF Placed

\* Every rank is taken.
LEMMA RankOnto ==
  ASSUME NEW S, Placed(S), NEW k \in 0 .. Cardinality(S) - 1
  PROVE  \E e \in S : Rank(S, e) = k
  <1> DEFINE T == 0 .. Cardinality(S) - 1
             rank == [e \in S |-> Rank(S, e)]
  <1>1. Cardinality(S) \in Nat
    BY RankFacts
  <1>2. IsFiniteSet(T) /\ Cardinality(T) = Cardinality(S)
    BY <1>1, FS_Interval
  <1>3. rank \in Injection(S, T)
    <2>1. rank \in [S -> T]
      BY RankFacts
    <2>2. \A d, e \in S : rank[d] = rank[e] => d = e
      BY RankOneToOne
    <2> QED
      BY <2>1, <2>2 DEF Injection, IsInjective
  <1>4. rank \in Surjection(S, T)
    BY <1>2, <1>3, FS_Injection
  <1> QED
    BY <1>4 DEF Surjection

\* InOrder is a sequence of all the numbers, each at its event's rank.
LEMMA InOrderFacts ==
  ASSUME NEW S, Placed(S)
  PROVE  /\ InOrder(S) \in Seq(Nat) /\ Len(InOrder(S)) = Cardinality(S)
         /\ \A e \in S : InOrder(S)[Rank(S, e) + 1] = e.no
  <1>1. Cardinality(S) \in Nat
    BY RankFacts
  <1>2. ASSUME NEW k \in 1 .. Cardinality(S)
        PROVE  \E e \in S : Rank(S, e) = k - 1 /\ InOrder(S)[k] = e.no
    <2>1. \E e \in S : Rank(S, e) = k - 1
      BY <1>1, RankOnto
    <2> QED
      BY <2>1 DEF InOrder
  <1>3. InOrder(S) \in [1 .. Cardinality(S) -> Nat]
    BY <1>2 DEF Placed, InOrder
  <1>4. ASSUME NEW e \in S
        PROVE  InOrder(S)[Rank(S, e) + 1] = e.no
    <2>1. Rank(S, e) + 1 \in 1 .. Cardinality(S) /\ Rank(S, e) \in Nat
      BY <1>1, RankFacts
    <2>2. PICK d \in S : Rank(S, d) = (Rank(S, e) + 1) - 1 /\ InOrder(S)[Rank(S, e) + 1] = d.no
      BY <1>2, <2>1
    <2>3. d = e
      BY <2>1, <2>2, RankOneToOne
    <2> QED
      BY <2>2, <2>3
  <1> QED
    BY <1>1, <1>3, <1>4

\* An event behind all others comes last.
LEMMA InOrderPush ==
  ASSUME NEW S, Placed(S), NEW new, new.at \in Nat, new.no \in Nat,
         \A e \in S : e.at < new.at
  PROVE  InOrder(S \cup {new}) = Append(InOrder(S), new.no)
  <1> DEFINE T == S \cup {new}
             n == Cardinality(S)
  <1>1. new \notin S /\ Placed(T) /\ n \in Nat /\ Cardinality(T) = n + 1
    <2>1. new \notin S
      OBVIOUS
    <2>2. IsFiniteSet(T) /\ Cardinality(T) = n + 1
      BY <2>1, FS_AddElement DEF Placed
    <2>3. \A d, e \in T : d.at = e.at => d = e
      BY DEF Placed
    <2> QED
      BY <2>1, <2>2, <2>3, RankFacts DEF Placed
  <1>2. Rank(T, new) = n
    <2>1. {d \in T : d.at < new.at} = S
      OBVIOUS
    <2> QED
      BY <2>1 DEF Rank
  <1>3. ASSUME NEW e \in S PROVE Rank(T, e) = Rank(S, e)
    <2>1. {d \in T : d.at < e.at} = {d \in S : d.at < e.at}
      BY DEF Placed
    <2> QED
      BY <2>1 DEF Rank
  <1> HIDE DEF T
  <1>4. new \in T /\ S \subseteq T
    BY DEF T
  <1>5. /\ InOrder(T) \in Seq(Nat) /\ Len(InOrder(T)) = n + 1
        /\ InOrder(S) \in Seq(Nat) /\ Len(InOrder(S)) = n
    BY <1>1, InOrderFacts
  <1>6. /\ Append(InOrder(S), new.no) \in Seq(Nat)
        /\ Len(Append(InOrder(S), new.no)) = n + 1
        /\ \A k \in 1 .. n : Append(InOrder(S), new.no)[k] = InOrder(S)[k]
        /\ Append(InOrder(S), new.no)[n + 1] = new.no
    BY <1>5, AppendProperties
  <1>7. ASSUME NEW k \in 1 .. n + 1
        PROVE  InOrder(T)[k] = Append(InOrder(S), new.no)[k]
    <2>1. CASE k = n + 1
      <3>1. InOrder(T)[Rank(T, new) + 1] = new.no
        BY <1>1, <1>4, InOrderFacts
      <3> QED
        BY <2>1, <3>1, <1>2, <1>6
    <2>2. CASE k \in 1 .. n
      <3>1. PICK e \in S : Rank(S, e) = k - 1
        BY <2>2, <1>1, RankOnto
      <3>2. InOrder(S)[k] = e.no /\ InOrder(T)[k] = e.no
        BY <3>1, <1>1, <1>3, <1>4, InOrderFacts
      <3> QED
        BY <2>2, <3>2, <1>6
    <2>3. k = n + 1 \/ k \in 1 .. n
      BY <1>1
    <2> QED
      BY <2>1, <2>2, <2>3
  <1>8. InOrder(T) = Append(InOrder(S), new.no)
    BY <1>1, <1>5, <1>6, <1>7, SeqEqual
  <1> QED
    BY <1>8 DEF T

\* Without its first event the rest is what followed it.
LEMMA InOrderPop ==
  ASSUME NEW S, Placed(S), NEW first \in S,
         \A e \in S : e = first \/ first.at < e.at
  PROVE  /\ Len(InOrder(S)) >= 1
         /\ InOrder(S \ {first}) = SubSeq(InOrder(S), 2, Len(InOrder(S)))
  <1> DEFINE T == S \ {first}
             n == Cardinality(S)
  <1>1. Placed(T) /\ n \in Nat \ {0} /\ Cardinality(T) = n - 1
    <2>1. IsFiniteSet(T) /\ Cardinality(T) = n - 1
      BY FS_RemoveElement DEF Placed
    <2>2. n # 0
      BY FS_EmptySet DEF Placed
    <2> QED
      BY <2>1, <2>2, RankFacts DEF Placed
  <1>2. ASSUME NEW e \in T PROVE Rank(S, e) = Rank(T, e) + 1
    <2>1. {d \in S : d.at < e.at} = {d \in T : d.at < e.at} \cup {first}
      OBVIOUS
    <2>2. IsFiniteSet({d \in T : d.at < e.at})
      <3>1. {d \in T : d.at < e.at} \in SUBSET T
        OBVIOUS
      <3> QED
        BY <3>1, <1>1, FS_Subset DEF Placed
    <2>3. first \notin {d \in T : d.at < e.at}
      OBVIOUS
    <2> QED
      BY <2>1, <2>2, <2>3, FS_AddElement DEF Rank
  <1> HIDE DEF T
  <1>3. T \subseteq S
    BY DEF T
  <1>4. /\ InOrder(T) \in Seq(Nat) /\ Len(InOrder(T)) = n - 1
        /\ InOrder(S) \in Seq(Nat) /\ Len(InOrder(S)) = n
    BY <1>1, InOrderFacts
  <1> DEFINE rest == SubSeq(InOrder(S), 2, n)
  <1>5. /\ rest \in Seq(Nat) /\ Len(rest) = n - 1
        /\ \A k \in 1 .. n - 1 : rest[k] = InOrder(S)[k + 1]
    <2>1. \A k \in 2 .. n : InOrder(S)[k] \in Nat
      BY <1>1, <1>4, ElementOfSeq
    <2>2. /\ rest \in Seq(Nat)
          /\ Len(rest) = IF 2 <= n THEN n - 2 + 1 ELSE 0
          /\ \A k \in 1 .. n - 2 + 1 : rest[k] = InOrder(S)[2 + k - 1]
      BY <1>1, <2>1, SubSeqProperties
    <2> QED
      BY <1>1, <2>2
  <1> HIDE DEF rest
  <1>6. ASSUME NEW k \in 1 .. n - 1
        PROVE  InOrder(T)[k] = rest[k]
    <2>1. PICK e \in T : Rank(T, e) = k - 1
      BY <1>1, RankOnto
    <2>2. Rank(S, e) = k
      BY <2>1, <1>2
    <2>3. InOrder(T)[(k - 1) + 1] = e.no /\ InOrder(S)[k + 1] = e.no
      BY <2>1, <2>2, <1>1, <1>3, InOrderFacts
    <2> QED
      BY <2>3, <1>5
  <1>7. InOrder(T) = rest
    BY <1>1, <1>4, <1>5, <1>6, SeqEqual
  <1>8. Len(InOrder(S)) >= 1
    BY <1>1, <1>4
  <1>9. InOrder(T) = SubSeq(InOrder(S), 2, Len(InOrder(S)))
    BY <1>4, <1>7 DEF rest
  <1> QED
    BY <1>8, <1>9 DEF T

LEMMA InOrderEmpty == InOrder({}) = << >>
  BY FS_EmptySet DEF InOrder

-----------------------------------------------------------------------------
(* The window.                                                             *)

(* The numbers of the events: none is used twice, and one is skipped only  *)
(* where the fault cut an event short. A stopped recorder records nothing. *)
NumberInv ==
  /\ IsFiniteSet(events)
  /\ phase = "commit" => \E e \in events : e.at = head /\ e.size = size /\ e.no = eventCounter
  /\ phase # "idle" => newest < eventCounter
  /\ eventCounter <= newest + (IF phase = "idle" THEN 0 ELSE 1)
                            + (IF handler = "off" THEN 0 ELSE 1)
  /\ phase # "idle" => handler # "stopped"

\* The events that start in any set of words can be put in order.
LEMMA WithinPlaced ==
  ASSUME TypeInv, EventsInv, IsFiniteSet(events), NEW words
  PROVE  Placed(Within(words))
  <1>1. Within(words) \in SUBSET events
    BY DEF Within
  <1>2. IsFiniteSet(Within(words))
    BY <1>1, FS_Subset
  <1>3. \A e \in events : e.at \in Nat /\ e.no \in Nat /\ e.size \in Nat /\ 1 <= e.size
    BY LargestFacts DEF TypeInv
  <1>4. \A d, e \in events : d.at = e.at => d = e
    BY <1>3 DEF EventsInv
  <1> QED
    BY <1>1, <1>2, <1>3, <1>4 DEF Placed

LEMMA WithinInOrder ==
  ASSUME TypeInv, EventsInv, IsFiniteSet(events), NEW words
  PROVE  InOrder(Within(words)) \in Seq(Nat)
  BY WithinPlaced, InOrderFacts

\* Popping the event at the start of a tiling forgets the oldest number.
LEMMA PopForgets ==
  ASSUME TypeInv, EventsInv, IsFiniteSet(events),
         NEW a \in Nat, NEW b \in Nat, a < b, Tiled(a, b), NEW n \in SizesAt(a)
  PROVE  LET window == InOrder(Within(a .. b - 1))
         IN  Len(window) >= 1 /\ InOrder(Within(a + n .. b - 1)) = SubSeq(window, 2, Len(window))
  <1>1. PICK first \in events : first.at = a /\ first.size = n
    BY PopTile
  <1>2. \A e \in events : e.at \in Nat /\ e.size \in Nat /\ 1 <= e.size
    BY LargestFacts DEF TypeInv
  <1>3. \A e \in events : e = first \/ e.at < a \/ e.at >= a + n
    BY <1>1, <1>2 DEF EventsInv
  <1>4. /\ first \in Within(a .. b - 1)
        /\ Within(a + n .. b - 1) = Within(a .. b - 1) \ {first}
        /\ \A e \in Within(a .. b - 1) : e = first \/ first.at < e.at
    BY <1>1, <1>2, <1>3 DEF Within
  <1> QED
    BY <1>4, WithinPlaced, InOrderPop

\* A sequence from its element j on.
LEMMA DropFacts ==
  ASSUME NEW s \in Seq(Nat), NEW j \in 1 .. Len(s) + 1
  PROVE  /\ SubSeq(s, j, Len(s)) \in Seq(Nat)
         /\ Len(SubSeq(s, j, Len(s))) = Len(s) + 1 - j
         /\ \A i \in 1 .. Len(s) + 1 - j : SubSeq(s, j, Len(s))[i] = s[j + i - 1]
  <1>1. Len(s) \in Nat /\ Len(s) \in Int /\ j \in Int
    BY LenProperties
  <1>2. \A i \in j .. Len(s) : s[i] \in Nat
    BY <1>1, ElementOfSeq
  <1> DEFINE u == SubSeq(s, j, Len(s))
  <1>3. /\ u \in Seq(Nat) /\ Len(u) = IF j <= Len(s) THEN Len(s) - j + 1 ELSE 0
        /\ \A i \in 1 .. Len(s) - j + 1 : u[i] = s[j + i - 1]
    BY <1>1, <1>2, SubSeqProperties
  <1> HIDE DEF u
  <1>4. Len(s) - j + 1 = Len(s) + 1 - j /\ Len(u) = Len(s) + 1 - j
    BY <1>1, <1>3
  <1> QED
    BY <1>3, <1>4 DEF u

\* Forgetting the start of the first of two sequences forgets the start of
\* both.
LEMMA ForgetFirst ==
  ASSUME NEW s \in Seq(Nat), NEW t \in Seq(Nat), Len(s) >= 1
  PROVE  /\ Len(s \o t) >= 1
         /\ SubSeq(s, 2, Len(s)) \o t = SubSeq(s \o t, 2, Len(s \o t))
  <1> DEFINE m == Len(s)
             n == Len(t)
             w == s \o t
             r == SubSeq(s, 2, Len(s))
             u == SubSeq(w, 2, Len(w))
  <1>1. m \in Nat /\ n \in Nat /\ m >= 1
    BY LenProperties
  <1>2. /\ w \in Seq(Nat) /\ Len(w) = m + n
        /\ \A i \in 1 .. m + n : w[i] = IF i <= m THEN s[i] ELSE t[i - m]
    BY ConcatProperties
  <1> HIDE DEF w
  <1>3. r \in Seq(Nat) /\ Len(r) = m - 1 /\ \A i \in 1 .. m - 1 : r[i] = s[2 + i - 1]
    <2>1. 2 \in 1 .. Len(s) + 1
      BY <1>1
    <2>2. r \in Seq(Nat) /\ Len(r) = m + 1 - 2 /\ \A i \in 1 .. m + 1 - 2 : r[i] = s[2 + i - 1]
      BY <2>1, DropFacts
    <2>3. m + 1 - 2 = m - 1
      BY <1>1
    <2> HIDE DEF r
    <2> QED
      BY <2>2, <2>3
  <1>4. u \in Seq(Nat) /\ Len(u) = m + n - 1 /\ \A i \in 1 .. m + n - 1 : u[i] = w[2 + i - 1]
    <2>1. 2 \in 1 .. Len(w) + 1
      BY <1>1, <1>2
    <2>2. u \in Seq(Nat) /\ Len(u) = Len(w) + 1 - 2 /\ \A i \in 1 .. Len(w) + 1 - 2 : u[i] = w[2 + i - 1]
      BY <1>2, <2>1, DropFacts
    <2>3. Len(w) + 1 - 2 = m + n - 1
      BY <1>1, <1>2
    <2> HIDE DEF u
    <2> QED
      BY <2>2, <2>3
  <1> HIDE DEF r, u
  <1>5. /\ r \o t \in Seq(Nat) /\ Len(r \o t) = Len(r) + n
        /\ \A i \in 1 .. Len(r) + n : (r \o t)[i] = IF i <= Len(r) THEN r[i] ELSE t[i - Len(r)]
    BY <1>3, ConcatProperties
  <1> HIDE DEF m, n
  <1>6. Len(r \o t) = Len(u)
    BY <1>1, <1>3, <1>4, <1>5
  <1>7. ASSUME NEW i \in 1 .. Len(r \o t)
        PROVE  (r \o t)[i] = u[i]
    <2>1. Len(r) + n = m + n - 1
      BY <1>1, <1>3
    <2>2. i \in 1 .. m + n - 1
      BY <1>5, <2>1
    <2> DEFINE j == 2 + i - 1
    <2>3. j \in 1 .. m + n /\ j = i + 1
      BY <1>1, <2>2
    <2> HIDE DEF j
    <2>4. w[j] = IF j <= m THEN s[j] ELSE t[j - m]
      BY <1>2, <2>3
    <2>5. u[i] = w[j]
      BY <1>4, <2>2 DEF j
    <2>6. (r \o t)[i] = IF i <= Len(r) THEN r[i] ELSE t[i - Len(r)]
      BY <1>5, <1>7
    <2>7. CASE i <= m - 1
      <3>1. r[i] = s[j]
        BY <1>1, <1>3, <2>2, <2>7 DEF j
      <3> QED
        BY <1>1, <1>3, <2>2, <2>3, <2>4, <2>5, <2>6, <2>7, <3>1
    <2>8. CASE ~(i <= m - 1)
      <3>1. i - Len(r) = j - m
        BY <1>1, <1>3, <2>2, <2>3
      <3> QED
        BY <1>1, <1>3, <2>2, <2>3, <2>4, <2>5, <2>6, <2>8, <3>1
    <2> QED
      BY <2>7, <2>8
  <1>8. r \o t = u
    BY <1>4, <1>5, <1>6, <1>7, SeqEqual
  <1>9. Len(w) >= 1
    BY <1>1, <1>2
  <1> QED
    BY <1>8, <1>9 DEF r, u, w

\* Forgetting all of the first leaves the second.
LEMMA ForgetAll ==
  ASSUME NEW s \in Seq(Nat), NEW t \in Seq(Nat)
  PROVE  /\ Len(s) \in 0 .. Len(s \o t)
         /\ t = SubSeq(s \o t, Len(s) + 1, Len(s \o t))
  <1> DEFINE m == Len(s)
             n == Len(t)
             w == s \o t
             u == SubSeq(w, m + 1, Len(w))
  <1>1. m \in Nat /\ n \in Nat
    BY LenProperties
  <1>2. /\ w \in Seq(Nat) /\ Len(w) = m + n
        /\ \A i \in 1 .. m + n : w[i] = IF i <= m THEN s[i] ELSE t[i - m]
    BY ConcatProperties
  <1> HIDE DEF w
  <1> SUFFICES m \in 0 .. Len(w) /\ t = u
    BY DEF w
  <1>3. m \in 0 .. Len(w)
    BY <1>1, <1>2
  <1>4. /\ u \in Seq(Nat) /\ Len(u) = Len(w) + 1 - (m + 1)
        /\ \A i \in 1 .. Len(w) + 1 - (m + 1) : u[i] = w[(m + 1) + i - 1]
    <2>1. m + 1 \in 1 .. Len(w) + 1
      BY <1>1, <1>2
    <2> QED
      BY <1>2, <2>1, DropFacts
  <1> HIDE DEF u, m
  <1>5. Len(w) + 1 - (m + 1) = n
    BY <1>1, <1>2
  <1>6. ASSUME NEW i \in 1 .. n
        PROVE  u[i] = t[i]
    <2> DEFINE j == (m + 1) + i - 1
    <2>1. j \in 1 .. m + n /\ ~(j <= m) /\ j - m = i
      BY <1>1
    <2>2. u[i] = w[j]
      BY <1>4, <1>5
    <2> HIDE DEF j
    <2> QED
      BY <1>2, <2>1, <2>2
  <1>7. t = u
    BY <1>4, <1>5, <1>6, SeqEqual
  <1> QED
    BY <1>3, <1>7

-----------------------------------------------------------------------------
(* The steps.                                                              *)

WindowInv == TraceInv /\ NumberInv

\* No step uses a number twice.
LEMMA NumberStep ==
  ASSUME WindowInv, [Next]_vars
  PROVE  NumberInv'
  <1>1. eventCounter \in Nat /\ newest \in Nat /\ newest <= eventCounter
    BY DEF WindowInv, TraceInv, TypeInv
  <1>2. ASSUME NEW n \in EventSizes, StartEvent(n) PROVE NumberInv'
    <2>1. phase = "idle" /\ phase' \notin {"idle", "commit"}
          /\ eventCounter' = eventCounter + 1
          /\ handler # "stopped" /\ UNCHANGED <<events, handler, newest>>
      BY <1>2 DEF StartEvent, Branch
    <2> QED
      BY <1>1, <2>1 DEF WindowInv, NumberInv
  <1>3. CASE PopFront \/ PopToWrap \/ PopAhead \/ SetSlack \/ WrapHead \/ Claim
    <2>1. /\ phase # "idle" /\ phase' \notin {"idle", "commit"}
          /\ UNCHANGED <<events, eventCounter, handler, newest>>
      BY <1>3 DEF PopFront, PopToWrap, PopAhead, SetSlack, WrapHead, Claim, handlerVars
    <2> QED
      BY <1>1, <2>1 DEF WindowInv, NumberInv
  <1>4. CASE WriteEvent
    <2> DEFINE new == [at |-> head, size |-> size, no |-> eventCounter]
               kept == {e \in events : e.at >= head + size \/ e.at + e.size <= head}
    <2>1. /\ phase = "write" /\ phase' = "commit" /\ events' = kept \cup {new}
          /\ UNCHANGED <<head, size, eventCounter, handler, newest>>
      BY <1>4 DEF WriteEvent, bufferVars, handlerVars
    <2>2. new.at = head /\ new.size = size /\ new.no = eventCounter
      OBVIOUS
    <2>3. kept \in SUBSET events
      OBVIOUS
    <2> HIDE DEF new, kept
    <2>4. IsFiniteSet(kept \cup {new})
      BY <2>3, FS_Subset, FS_AddElement DEF WindowInv, NumberInv
    <2>5. \E e \in events' : e.at = head /\ e.size = size /\ e.no = eventCounter
      BY <2>1, <2>2
    <2> QED
      BY <1>1, <2>1, <2>4, <2>5 DEF WindowInv, NumberInv
  <1>5. CASE Commit
    <2>1. /\ phase = "commit" /\ phase' = "idle" /\ newest' = eventCounter
          /\ UNCHANGED <<events, eventCounter, handler>>
      BY <1>5 DEF Commit, handlerVars
    <2> QED
      BY <1>1, <2>1 DEF WindowInv, NumberInv
  <1>6. CASE Fault
    <2>1. /\ handler = "off" /\ handler' = "recording" /\ phase' = "idle"
          /\ UNCHANGED <<events, eventCounter, newest>>
      BY <1>6 DEF Fault
    <2> QED
      BY <1>1, <2>1 DEF WindowInv, NumberInv
  <1>7. CASE AddTracePayload
    <2>1. /\ handler # "off" /\ handler' # "off" /\ phase = "idle"
          /\ UNCHANGED <<events, eventCounter, newest, phase>>
      BY <1>7 DEF AddTracePayload
    <2> QED
      BY <1>1, <2>1 DEF WindowInv, NumberInv
  <1>8. CASE UNCHANGED vars
    <2>1. UNCHANGED <<head, size, phase, events, eventCounter, newest, handler>>
      BY <1>8 DEF vars, bufferVars, handlerVars
    <2> QED
      BY <2>1 DEF WindowInv, NumberInv
  <1> QED
    BY <1>2, <1>3, <1>4, <1>5, <1>6, <1>7, <1>8 DEF Next

LEMMA WindowInvInductive == Spec => []WindowInv
  <1>1. Init => NumberInv
    BY FS_EmptySet DEF Init, NumberInv
  <1>2. TraceInv /\ NumberInv /\ [Next]_vars => NumberInv'
    BY NumberStep DEF WindowInv
  <1>3. TraceInv /\ NumberInv => WindowInv
    BY DEF WindowInv
  <1> QED
    BY <1>1, <1>2, <1>3, TraceInvInductive, PTL DEF Spec

\* The oldest numbers leave the window, or none does.
Forgets ==
  \/ Retained' = Retained
  \/ \E k \in 1 .. Len(Retained) : Retained' = SubSeq(Retained, k + 1, Len(Retained))

\* A pop forgets the event at the tail, or is done with the old lap.
LEMMA PopWindow ==
  ASSUME WindowInv, phase \in PopPhases, AllocPop, UNCHANGED <<head, slack, events>>
  PROVE  Forgets
  <1> DEFINE old == InOrder(Within(OldLap))
             new == InOrder(Within(NewLap))
  <1>1. TypeInv /\ EventsInv /\ TiledInv /\ IsFiniteSet(events) /\ TraceInv
    BY DEF WindowInv, TraceInv, NumberInv
  <1>2. head \in Nat /\ tail \in Nat /\ tail < Size /\ slack \in Nat /\ Size - slack \in Nat
    BY <1>1, LargestFacts DEF TypeInv
  <1>3. old \in Seq(Nat) /\ new \in Seq(Nat)
    BY <1>1, WithinInOrder
  <1>4. \A words : Within(words)' = {e \in events : e.at \in words'}
    BY DEF Within
  <1>5. CASE InSlack(tail)
    <2>1. tail > head /\ tail' = 0
      BY <1>1, <1>2, <1>5, TailBehindHead DEF AllocPop
    <2>2. OldLap' = OldLap /\ NewLap' = NewLap
      BY <1>2, <1>5, <2>1 DEF OldLap, NewLap
    <2> QED
      BY <2>2 DEF Forgets, Retained, Within
  <1>6. CASE ~InSlack(tail)
    <2>1. PICK n \in SizesAt(tail) : tail' = (tail + n) % Size
      BY <1>6 DEF AllocPop
    <2>2. CASE tail <= head
      <3>1. tail < head /\ Tiled(tail, head)
        BY <1>1, <2>2, TailBehindHead DEF TiledInv
      <3>2. n \in Nat /\ 1 <= n /\ tail + n <= head
        BY <1>1, <1>2, <3>1, PopTile, LargestFacts
      <3>3. tail' = tail + n
        <4>1. tail' # 0
          BY <1>1, <1>2, <3>1, PopStep, LargestFacts
        <4>2. tail + n \in 0 .. Size
          BY <1>2, <3>1, <3>2, LargestFacts DEF WindowInv, TraceInv, TypeInv
        <4> QED
          BY <2>1, <4>1, <4>2, ModFacts, LargestFacts
      <3>4. OldLap = {} /\ OldLap' = {} /\ NewLap = tail .. head - 1 /\ NewLap' = tail + n .. head - 1
        BY <1>2, <3>1, <3>2, <3>3 DEF OldLap, NewLap
      <3>5. Retained = new /\ Retained' = InOrder(Within(tail + n .. head - 1))
        <4>1. Within({}) = {} /\ InOrder({}) = << >>
          BY InOrderEmpty DEF Within
        <4>2. Retained = << >> \o new
          BY <3>4, <4>1 DEF Retained
        <4>3. Retained' = << >> \o InOrder(Within(tail + n .. head - 1))
          BY <3>4, <4>1 DEF Retained, Within
        <4> QED
          BY <1>1, <1>3, <4>2, <4>3, ConcatEmptySeq, WithinInOrder
      <3>6. Len(new) >= 1 /\ InOrder(Within(tail + n .. head - 1)) = SubSeq(new, 2, Len(new))
        BY <1>1, <1>2, <3>1, <3>4, PopForgets
      <3>7. 1 \in 1 .. Len(new) /\ 1 + 1 = 2
        BY <1>3, <3>6, LenProperties
      <3> QED
        BY <3>5, <3>6, <3>7 DEF Forgets
    <2>3. CASE tail > head
      <3>1. tail < Size - slack /\ Tiled(tail, Size - slack)
        BY <1>1, <1>2, <1>6, <2>3, LargestFacts DEF TiledInv, InSlack
      <3>2. n \in Nat /\ 1 <= n /\ tail + n <= Size - slack
        BY <1>1, <1>2, <3>1, PopTile, LargestFacts
      <3>3. \/ tail' = tail + n /\ tail + n < Size
            \/ tail' = 0 /\ tail + n = Size
        <4>1. tail + n \in 0 .. Size
          BY <1>2, <3>2, LargestFacts
        <4> QED
          BY <4>1, <2>1, ModFacts, LargestFacts
      <3>4. /\ OldLap = tail .. (Size - slack) - 1
            /\ OldLap' = tail + n .. (Size - slack) - 1
            /\ NewLap' = NewLap
        BY <1>2, <1>6, <2>3, <3>1, <3>2, <3>3, LargestFacts DEF OldLap, NewLap, InSlack
      <3>5. /\ Len(old) >= 1
            /\ InOrder(Within(tail + n .. (Size - slack) - 1)) = SubSeq(old, 2, Len(old))
        BY <1>1, <1>2, <3>1, <3>4, PopForgets
      <3>6. Retained' = SubSeq(old, 2, Len(old)) \o new
        BY <3>4, <3>5 DEF Retained, Within
      <3>7. Retained = old \o new
        BY DEF Retained
      <3> HIDE DEF old, new
      <3>8. Len(old \o new) >= 1
            /\ SubSeq(old, 2, Len(old)) \o new = SubSeq(old \o new, 2, Len(old \o new))
        BY <1>3, <3>5, ForgetFirst
      <3>9. 1 \in 1 .. Len(old \o new) /\ 1 + 1 = 2
        BY <1>3, <3>8, ConcatProperties, LenProperties
      <3> QED
        BY <3>6, <3>7, <3>8, <3>9 DEF Forgets
    <2> QED
      BY <1>2, <2>2, <2>3
  <1> QED
    BY <1>5, <1>6

\* What is left when all of the first of two laps is given up.
LEMMA GivenUp ==
  ASSUME NEW s \in Seq(Nat), NEW t \in Seq(Nat), Retained = s \o t, Retained' = t
  PROVE  Forgets
  <1>1. Len(s) \in Nat
    BY LenProperties
  <1>2. CASE Len(s) = 0
    <2>1. s = << >>
      BY <1>2, EmptySeq
    <2> QED
      BY <2>1, ConcatEmptySeq DEF Forgets
  <1>3. CASE Len(s) # 0
    <2>1. Len(s) \in 1 .. Len(s \o t) /\ t = SubSeq(s \o t, Len(s) + 1, Len(s \o t))
      <3>1. Len(s) \in 0 .. Len(s \o t) /\ t = SubSeq(s \o t, Len(s) + 1, Len(s \o t))
        BY ForgetAll
      <3> QED
        BY <1>1, <1>3, <3>1
    <2> QED
      BY <2>1 DEF Forgets
  <1> QED
    BY <1>2, <1>3

\* An empty lap has no events to put in order.
LEMMA NothingWithin == InOrder(Within({})) = << >> /\ << >> \in Seq(Nat)
  BY InOrderEmpty, EmptySeq DEF Within

\* The slack can take what was left of the old lap with it.
LEMMA SetSlackWindow ==
  ASSUME WindowInv, SetSlack
  PROVE  Forgets
  <1> DEFINE old == InOrder(Within(OldLap))
             new == InOrder(Within(NewLap))
  <1>1. slack' = Size - head /\ UNCHANGED <<head, tail, events>>
    BY DEF SetSlack
  <1>2. TypeInv /\ EventsInv /\ IsFiniteSet(events)
    BY DEF WindowInv, TraceInv, NumberInv
  <1>3. head \in Nat /\ tail \in Nat /\ Size \in Nat
    BY <1>2, LargestFacts DEF TypeInv
  <1>4. OldLap' = {} /\ NewLap' = NewLap
    BY <1>1, <1>3 DEF OldLap, NewLap, InSlack
  <1>5. old \in Seq(Nat) /\ new \in Seq(Nat)
    BY <1>2, WithinInOrder
  <1>6. Retained' = InOrder(Within({})) \o new
    BY <1>1, <1>4 DEF Retained, Within
  <1>7. Retained = old \o new
    BY DEF Retained
  <1> HIDE DEF old, new
  <1>8. Retained' = new
    BY <1>5, <1>6, NothingWithin, ConcatEmptySeq
  <1> QED
    BY <1>5, <1>7, <1>8, GivenUp

\* The lap the head was in becomes the old one, unless the tail is already in
\* its slack: then nothing is left.
LEMMA WrapHeadWindow ==
  ASSUME WindowInv, WrapHead
  PROVE  Forgets
  <1> DEFINE new == InOrder(Within(NewLap))
  <1>1. phase \in {"wrapFront", "wrapToPop"} /\ head' = 0 /\ UNCHANGED <<tail, slack, events>>
    BY DEF WrapHead
  <1>2. TypeInv /\ EventsInv /\ IsFiniteSet(events)
    BY DEF WindowInv, TraceInv, NumberInv
  <1>3. head \in Nat /\ tail \in Nat /\ Size \in Nat /\ slack \in Nat
    BY <1>2, LargestFacts DEF TypeInv
  <1>4. slack = Size - head /\ tail > 0
    <2>1. phase # "idle" /\ size \in Nat
      BY <1>1, <1>2, LargestFacts DEF TypeInv
    <2> QED
      BY <1>1, <1>3, <2>1 DEF WindowInv, TraceInv, PhaseInv
  <1>5. Size - slack = head /\ (InSlack(tail) <=> tail >= head)
    BY <1>1, <1>3, <1>4 DEF InSlack
  <1>6. OldLap = {} /\ NewLap' = {}
    BY <1>1, <1>3, <1>4, <1>5 DEF OldLap, NewLap
  <1>7. new \in Seq(Nat)
    BY <1>2, WithinInOrder
  <1>8. Retained = << >> \o new
    BY <1>6, NothingWithin DEF Retained
  <1>9. CASE tail < head
    <2>1. NewLap = tail .. head - 1 /\ OldLap' = tail .. Size - slack - 1 /\ Size - slack - 1 = head - 1
      BY <1>1, <1>3, <1>4, <1>5, <1>9 DEF OldLap, NewLap, InSlack
    <2>2. OldLap' = NewLap
      BY <2>1
    <2>3. Retained' = new \o << >>
      BY <1>1, <1>6, <2>2, NothingWithin DEF Retained, Within
    <2> HIDE DEF new
    <2> QED
      BY <1>7, <1>8, <2>3, ConcatEmptySeq DEF Forgets
  <1>10. CASE tail >= head
    <2>1. OldLap' = {}
      BY <1>1, <1>3, <1>4, <1>10 DEF OldLap, InSlack
    <2>2. Retained' = << >> \o << >>
      BY <1>1, <1>6, <2>1, NothingWithin DEF Retained, Within
    <2> HIDE DEF new
    <2>3. Retained' = << >>
      BY <2>2, NothingWithin, ConcatEmptySeq
    <2>4. Retained = new \o << >>
      BY <1>7, <1>8, ConcatEmptySeq
    <2> QED
      BY <1>7, <2>3, <2>4, NothingWithin, GivenUp
  <1> QED
    BY <1>3, <1>9, <1>10

\* Writing an event touches no event of the window: it is not in it yet.
LEMMA WriteWindow ==
  ASSUME WindowInv, WriteEvent
  PROVE  Retained' = Retained
  <1> DEFINE new == [at |-> head, size |-> size, no |-> eventCounter]
  <1>1. /\ phase = "write"
        /\ events' = {e \in events : e.at >= head + size \/ e.at + e.size <= head} \cup {new}
        /\ UNCHANGED <<head, tail, slack>>
    BY DEF WriteEvent, bufferVars
  <1>2. TypeInv /\ EventsInv /\ TiledInv
    BY DEF WindowInv, TraceInv
  <1>3. /\ head \in Nat /\ tail \in Nat /\ Size - slack \in Nat
        /\ size \in Nat /\ 1 <= size /\ (tail > head => head + size < tail)
    BY <1>1, <1>2, LargestFacts DEF TypeInv, WindowInv, TraceInv, PhaseInv
  <1>4. \A e \in events : e.at \in Nat /\ e.size \in Nat /\ 1 <= e.size
    BY <1>2, LargestFacts DEF TypeInv
  <1>5. new.at = head
    OBVIOUS
  <1> HIDE DEF new
  <1>6. OldLap' = OldLap /\ NewLap' = NewLap
    BY <1>1 DEF OldLap, NewLap, InSlack
  <1>7. ASSUME NEW e \in events, e.at \in 0 .. head - 1
        PROVE  e.at + e.size <= head
    <2>1. PICK d \in events : 0 <= d.at /\ d.at <= e.at /\ e.at < d.at + d.size /\ d.at + d.size <= head
      BY <1>2, <1>7 DEF TiledInv, Tiled, TiledBy
    <2>2. d = e
      BY <1>2, <1>4, <2>1 DEF EventsInv
    <2> QED
      BY <2>1, <2>2
  <1>8. ASSUME NEW words, words = OldLap \/ words = NewLap
        PROVE  {e \in events' : e.at \in words} = {e \in events : e.at \in words}
    <2>1. head \notin words
      BY <1>3, <1>8 DEF OldLap, NewLap
    <2>2. \A w \in words : w \in 0 .. head - 1 \/ w >= head + size
      BY <1>3, <1>8 DEF OldLap, NewLap
    <2>3. \A e \in events : e.at \in words => e \in events'
      BY <1>1, <1>7, <2>2
    <2>4. \A e \in events' : e.at \in words => e \in events
      BY <1>1, <1>5, <2>1
    <2> QED
      BY <2>3, <2>4
  <1>9. Within(OldLap)' = Within(OldLap) /\ Within(NewLap)' = Within(NewLap)
    BY <1>6, <1>8 DEF Within
  <1> QED
    BY <1>9 DEF Retained

\* A commit puts the event at the end of the window.
LEMMA CommitWindow ==
  ASSUME WindowInv, Commit
  PROVE  /\ Retained' = Append(Retained, eventCounter)
         /\ newest' = eventCounter /\ UNCHANGED handler
         /\ eventCounter = newest + Abandoned + 1 /\ Abandoned' = 0
  <1> DEFINE old == InOrder(Within(OldLap))
             new == InOrder(Within(NewLap))
  <1>1. /\ phase = "commit" /\ head' = head + size /\ newest' = eventCounter
        /\ UNCHANGED <<tail, slack, events, handler>>
    BY DEF Commit, handlerVars, WindowInv, TraceInv, PhaseInv
  <1>2. TypeInv /\ EventsInv /\ IsFiniteSet(events)
    BY DEF WindowInv, TraceInv, NumberInv
  <1>3. /\ head \in Nat /\ tail \in Nat /\ Size - slack \in Nat
        /\ size \in Nat /\ 1 <= size /\ (tail > head => head + size < tail)
    BY <1>1, <1>2, LargestFacts DEF TypeInv, WindowInv, TraceInv, PhaseInv
  <1>4. PICK last \in events : last.at = head /\ last.size = size /\ last.no = eventCounter
    BY <1>1 DEF WindowInv, NumberInv
  <1>5. \A e \in events : e.at \in Nat /\ e.size \in Nat /\ 1 <= e.size
    BY <1>2, LargestFacts DEF TypeInv
  <1>6. \A e \in events : e = last \/ e.at < head \/ e.at >= head + size
    BY <1>2, <1>3, <1>4, <1>5 DEF EventsInv
  <1>7. OldLap' = OldLap
    BY <1>1, <1>3 DEF OldLap, InSlack
  <1>8. \A w \in Nat : w \in NewLap' <=> w \in NewLap \/ (head <= w /\ w < head + size)
    BY <1>1, <1>3 DEF NewLap
  <1>9. /\ Within(NewLap)' = Within(NewLap) \cup {last}
        /\ \A e \in Within(NewLap) : e.at < head
    <2>1. \A e \in events : e.at \in NewLap' <=> e.at \in NewLap \/ e = last
      BY <1>3, <1>4, <1>5, <1>6, <1>8
    <2>2. Within(NewLap)' = {e \in events : e.at \in NewLap'}
      BY <1>1 DEF Within
    <2>3. \A e \in Within(NewLap) : e.at < head
      BY <1>3 DEF Within, NewLap
    <2> QED
      BY <2>1, <2>2, <2>3, <1>4 DEF Within
  <1>10. InOrder(Within(NewLap) \cup {last}) = Append(new, eventCounter)
    BY <1>2, <1>3, <1>4, <1>9, InOrderPush, WithinPlaced DEF TypeInv
  <1>11. old \in Seq(Nat) /\ new \in Seq(Nat) /\ eventCounter \in Nat
    BY <1>2, WithinInOrder DEF TypeInv
  <1>12. Retained' = old \o Append(new, eventCounter)
    <2>1. Within(OldLap)' = Within(OldLap)
      BY <1>1, <1>7 DEF Within
    <2> QED
      BY <1>9, <1>10, <2>1 DEF Retained
  <1>13. Retained = old \o new
    BY DEF Retained
  <1> HIDE DEF old, new
  <1>14. old \o Append(new, eventCounter) = Append(old \o new, eventCounter)
    <2>1. <<eventCounter>> \in Seq(Nat)
      BY <1>11
    <2>2. old \o new \in Seq(Nat)
      BY <1>11, ConcatProperties
    <2>3. Append(new, eventCounter) = new \o <<eventCounter>>
      BY <1>11, AppendIsConcat
    <2>4. Append(old \o new, eventCounter) = (old \o new) \o <<eventCounter>>
      BY <1>11, <2>2, AppendIsConcat
    <2> QED
      BY <1>11, <2>1, <2>3, <2>4, ConcatAssociative
  <1>15. eventCounter = newest + Abandoned + 1 /\ Abandoned' = 0
    <2>1. eventCounter \in Nat /\ newest \in Nat
      BY <1>2 DEF TypeInv
    <2>2. phase' = "idle" /\ UNCHANGED eventCounter
      BY DEF Commit
    <2> QED
      BY <1>1, <2>1, <2>2 DEF Abandoned
  <1> QED
    BY <1>1, <1>12, <1>13, <1>14, <1>15

\* The event buffer keeps a window on the newest events: it implements
\* TraceWindow, at every store of an allocation and under any fault.
THEOREM ImplementsTraceWindow == Spec => KeepsTheNewest
  <1>1. Init => Window!Init
    <2> SUFFICES ASSUME Init PROVE Window!Init
      OBVIOUS
    <2>1. OldLap = {} /\ NewLap = {}
      BY SizesAssumption DEF Init, OldLap, NewLap
    <2>2. Retained = << >>
      BY <2>1, NothingWithin, ConcatEmptySeq DEF Retained
    <2> QED
      BY <2>2 DEF Init, Window!Init, Abandoned
  <1>2. WindowInv /\ [Next]_vars => [Window!Next]_(Window!vars)
    <2> SUFFICES ASSUME WindowInv, [Next]_vars
                 PROVE  Window!Next \/ UNCHANGED Window!vars
      OBVIOUS
    <2>0. eventCounter \in Nat /\ newest \in Nat /\ newest <= eventCounter
      BY DEF WindowInv, TraceInv, TypeInv
    <2>1. ASSUME UNCHANGED <<head, tail, slack, events, handler, newest, Abandoned>>
          PROVE  UNCHANGED Window!vars
      <3>1. OldLap' = OldLap /\ NewLap' = NewLap
        BY <2>1 DEF OldLap, NewLap, InSlack
      <3>2. Retained' = Retained
        BY <2>1, <3>1 DEF Retained, Within
      <3> QED
        BY <2>1, <3>2 DEF Window!vars
    <2>2. ASSUME Forgets, UNCHANGED <<handler, newest, Abandoned>>, handler # "stopped"
          PROVE  Window!Next \/ UNCHANGED Window!vars
      BY <2>2 DEF Forgets, Window!Next, Window!Forget, Window!vars
    <2>3. phase # "idle" => handler # "stopped"
      BY DEF WindowInv, NumberInv
    <2>4. ASSUME NEW n \in EventSizes, StartEvent(n) PROVE UNCHANGED Window!vars
      <3>1. /\ phase = "idle" /\ phase' # "idle" /\ eventCounter' = eventCounter + 1
            /\ UNCHANGED <<head, tail, slack, events, handler, newest>>
        BY <2>4 DEF StartEvent, Branch, bufferVars
      <3>2. Abandoned' = Abandoned
        BY <2>0, <3>1 DEF Abandoned
      <3> QED
        BY <2>1, <3>1, <3>2
    <2>5. CASE PopFront \/ PopToWrap \/ PopAhead
      <3>1. /\ phase \in PopPhases /\ AllocPop
            /\ UNCHANGED <<head, slack, events, handler, newest, Abandoned>>
        BY <2>5 DEF PopFront, PopToWrap, PopAhead, PopPhases, handlerVars, Abandoned
      <3> QED
        BY <2>2, <2>3, <3>1, PopWindow DEF PopPhases
    <2>6. CASE SetSlack
      BY <2>2, <2>3, <2>6, SetSlackWindow DEF SetSlack, handlerVars, Abandoned
    <2>7. CASE WrapHead
      BY <2>2, <2>3, <2>7, WrapHeadWindow DEF WrapHead, handlerVars, Abandoned
    <2>8. CASE Claim
      BY <2>1, <2>8 DEF Claim, handlerVars, Abandoned
    <2>9. CASE WriteEvent
      <3>1. Retained' = Retained /\ UNCHANGED <<handler, newest, Abandoned>>
        BY <2>9, WriteWindow DEF WriteEvent, handlerVars, Abandoned
      <3> QED
        BY <3>1 DEF Window!vars
    <2>10. CASE Commit
      <3>1. handler # "stopped"
        BY <2>3, <2>10 DEF Commit
      <3>2. Window!Record
        BY <2>10, <3>1, CommitWindow DEF Window!Record
      <3> QED
        BY <3>2 DEF Window!Next
    <2>11. CASE Fault \/ AddTracePayload
      <3>1. UNCHANGED <<head, tail, slack, events, newest>>
        BY <2>11 DEF Fault, AddTracePayload, bufferVars
      <3>2. OldLap' = OldLap /\ NewLap' = NewLap
        BY <3>1 DEF OldLap, NewLap, InSlack
      <3>3. Retained' = Retained
        BY <3>1, <3>2 DEF Retained, Within
      <3>4. ASSUME Fault PROVE Abandoned' \in {0, 1}
        <4>1. /\ handler = "off" /\ phase' = "idle"
              /\ UNCHANGED <<eventCounter, newest>>
          BY <3>4 DEF Fault
        <4> QED
          BY <2>0, <4>1 DEF Abandoned, WindowInv, NumberInv
      <3>5. ASSUME AddTracePayload PROVE Abandoned' = Abandoned
        BY <3>5 DEF AddTracePayload, Abandoned
      <3>6. Window!Fault \/ Window!Stop
        BY <2>11, <3>1, <3>3, <3>4, <3>5 DEF Fault, AddTracePayload, Window!Fault, Window!Stop
      <3> QED
        BY <3>6 DEF Window!Next
    <2>12. CASE UNCHANGED vars
      BY <2>1, <2>12 DEF vars, bufferVars, handlerVars, Abandoned
    <2> QED
      BY <2>4, <2>5, <2>6, <2>7, <2>8, <2>9, <2>10, <2>11, <2>12 DEF Next
  <1> QED
    BY <1>1, <1>2, WindowInvInductive, PTL DEF Spec, KeepsTheNewest, Window!Spec
=============================================================================
