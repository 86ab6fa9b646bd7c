----------------------------- MODULE TraceBuffer -----------------------------
(***************************************************************************)
(* The event buffer of the trace recorder (trcEventBuffer.c) as the demo   *)
(* uses it: the RingBuffer stream port in overwrite mode, one core. An     *)
(* event is recorded in a critical section: space is claimed, popping the  *)
(* oldest events when there is none, the event is written in place, and    *)
(* the head moves. The critical section masks interrupts but not a hard    *)
(* fault or an NMI: the fault handler (dfmCrashCatcher.c) can take over    *)
(* between any two stores, records events of its own, stops the recorder   *)
(* and hands the buffer over as a payload of its alert. The code it cut    *)
(* short never continues.                                                  *)
(*                                                                         *)
(* Offsets and sizes are in words of four bytes. An event is its number    *)
(* and its size; words that hold no whole event are garbage.               *)
(***************************************************************************)
EXTENDS Naturals, Sequences, FiniteSets

CONSTANTS
  Size,          (* uiSize: the words of the buffer.                        *)
  EventSizes,    (* The sizes of an event, in words.                        *)
  HandlerEvents, (* How many events the fault handler may record: a name, a *)
                 (* print, or neither when the entry table is full.         *)
  MaxEvents      (* Bound on the tasks' events.                              *)

(* An event is at most 64 bytes (trcRecorder.h:121) and the buffer just    *)
(* under 1000 (trcStreamPortConfig.h): much less would do for four of the  *)
(* largest and the word that keeps head and tail apart. uiSize counts      *)
(* bytes in a uint32_t.                                                    *)
ASSUME SizesAssumption ==
  /\ Size \in 1 .. 2^30 - 1
  /\ EventSizes \subseteq Nat \ {0}
  /\ \A n \in EventSizes : 4 * n + 1 <= Size
  /\ HandlerEvents \subseteq Nat
  /\ MaxEvents \in Nat

VARIABLES
  head, tail, slack, nextHead, (* uiHead, uiTail, uiSlack, uiNextHead.      *)
  events,       (* The whole events in memory, live or not: where, size, no.*)
  eventCounter, (* Events started.                                          *)
  phase,        (* Where the event being recorded stands.                   *)
  size,         (* Its size, 0 when there is none.                          *)
  handler,      (* "off", "recording" or "stopped": the fault handler.      *)
  left,         (* Events the fault handler has yet to record.              *)
  newest        (* History: the number of the last event committed.         *)

bufferVars == <<head, tail, slack, nextHead>>
handlerVars == <<handler, left>>
vars == <<bufferVars, events, eventCounter, phase, size, handlerVars, newest>>

PopPhases == {"popFront", "popToWrap", "popAhead"}
Phases == PopPhases \cup {"idle", "claim", "claimAhead", "slackFront", "slackToWrap",
                          "wrapFront", "wrapToPop", "write", "commit"}

-----------------------------------------------------------------------------
(* uint32_t subtraction, in words: below zero is a huge number.            *)
WordRange == 2^30 \* 2^32 bytes
Minus(a, b) == IF a >= b THEN a - b ELSE WordRange + a - b

(* The free words between the head and a tail at t, less the one that      *)
(* keeps them apart. In the branch taken when head >= tail the head is     *)
(* about to become 0.                                                      *)
FreeFront(t) == Minus(t, 1)
FreeAheadTouching(t) == Minus(t, head) \* mutant: head and tail may meet
FreeAhead(t) == Minus(Minus(t, head), 1)

InSlackBehindStart(t) == t > Size - slack \* mutant: misses the first word of the slack
InSlack(t) == t >= Size - slack

(* The size xTraceEventGetSize reads at t: anything at all from garbage.   *)
SizesAt(t) ==
  LET here == {e \in events : e.at = t}
  IN  IF here # {} THEN {e.size : e \in here} ELSE 1 .. Size

(* prvTraceEventBufferAllocPop                                             *)
AllocPopUnwrapped == \* mutant: the tail is not taken modulo the size
  IF InSlack(tail) THEN tail' = 0 ELSE \E n \in SizesAt(tail) : tail' = tail + n

AllocPopThroughSlack == \* mutant: prvTraceEventBufferPop's way of popping
  \E n \in SizesAt(tail) : tail' = (tail + n) % Size

AllocPop ==
  IF InSlack(tail)
  THEN tail' = 0
  ELSE \E n \in SizesAt(tail) : tail' = (tail + n) % Size

(* The branch xTraceEventBufferAlloc takes for n words.                    *)
BranchUnlessWrapping(n) == \* mutant: ahead of the tail, space is only checked at a wrap
  IF head >= tail
  THEN IF Size - head > n THEN "claim" ELSE "popFront"
  ELSE IF Size - head < n THEN "popToWrap" ELSE "claimAhead"

Branch(n) ==
  IF head >= tail
  THEN IF Size - head > n THEN "claim" ELSE "popFront"
  ELSE IF FreeAhead(tail) >= n THEN "claimAhead"
       ELSE IF Size - head < n THEN "popToWrap" ELSE "popAhead"

-----------------------------------------------------------------------------
Init ==
  /\ head = 0 /\ tail = 0 /\ slack = 0 /\ nextHead = 0
  /\ events = {}
  /\ eventCounter = 0
  /\ phase = "idle" /\ size = 0
  /\ handler = "off" /\ left = 0
  /\ newest = 0

(* An event of n words is started, up to the branch of the allocation. The *)
(* fault handler records only what it has left.                            *)
StartEvent(n) ==
  /\ phase = "idle"
  /\ \/ handler = "off" /\ eventCounter < MaxEvents /\ UNCHANGED left
     \/ handler = "recording" /\ left > 0 /\ left' = left - 1
  /\ eventCounter' = eventCounter + 1
  /\ size' = n
  /\ phase' = Branch(n)
  /\ UNCHANGED <<bufferVars, events, handler, newest>>

(* The loop of the branch that wraps the head with the tail behind it.     *)
PopFront ==
  /\ phase = "popFront"
  /\ AllocPop
  /\ phase' = IF FreeFront(tail') < size THEN "popFront" ELSE "slackFront"
  /\ UNCHANGED <<head, slack, nextHead, events, eventCounter, size, handlerVars, newest>>

(* The loop that takes the tail off 0 before the head wraps.               *)
PopToWrap ==
  /\ phase = "popToWrap"
  /\ AllocPop
  /\ phase' = IF tail' = 0 THEN "popToWrap" ELSE "slackToWrap"
  /\ UNCHANGED <<head, slack, nextHead, events, eventCounter, size, handlerVars, newest>>

(* The loop that makes room between the head and the tail before it.       *)
PopAhead ==
  /\ phase = "popAhead"
  /\ AllocPop
  /\ phase' = IF FreeAhead(tail') < size THEN "popAhead" ELSE "claimAhead"
  /\ UNCHANGED <<head, slack, nextHead, events, eventCounter, size, handlerVars, newest>>

(* The words behind the head are given up for the rest of the lap ...      *)
SetSlack ==
  /\ phase \in {"slackFront", "slackToWrap"}
  /\ slack' = Size - head
  /\ phase' = IF phase = "slackFront" THEN "wrapFront" ELSE "wrapToPop"
  /\ UNCHANGED <<head, tail, nextHead, events, eventCounter, size, handlerVars, newest>>

(* ... and the head goes back to the start.                                *)
WrapHead ==
  /\ phase \in {"wrapFront", "wrapToPop"}
  /\ head' = 0
  /\ phase' = IF phase = "wrapFront" THEN "claim" ELSE "popAhead"
  /\ UNCHANGED <<tail, slack, nextHead, events, eventCounter, size, handlerVars, newest>>

(* The words at the head are the event's; only one branch has the modulo.  *)
Claim ==
  /\ \/ phase = "claim" /\ nextHead' = (head + size) % Size
     \/ phase = "claimAhead" /\ nextHead' = head + size
  /\ phase' = "write"
  /\ UNCHANGED <<head, tail, slack, events, eventCounter, size, handlerVars, newest>>

(* The event is written in place, over whatever was there.                 *)
WriteEvent ==
  /\ phase = "write"
  /\ events' = {e \in events : e.at >= head + size \/ e.at + e.size <= head}
                 \cup {[at |-> head, size |-> size, no |-> eventCounter]}
  /\ phase' = "commit"
  /\ UNCHANGED <<bufferVars, eventCounter, size, handlerVars, newest>>

(* xTraceEventBufferAllocCommit                                            *)
Commit ==
  /\ phase = "commit"
  /\ head' = nextHead
  /\ phase' = "idle"
  /\ size' = 0
  /\ newest' = eventCounter
  /\ UNCHANGED <<tail, slack, nextHead, events, eventCounter, handlerVars>>

(* A hard fault or an NMI: the event being recorded is abandoned.          *)
Fault ==
  /\ handler = "off"
  /\ handler' = "recording"
  /\ left' \in HandlerEvents
  /\ phase' = "idle"
  /\ size' = 0
  /\ UNCHANGED <<bufferVars, events, eventCounter, newest>>

(* prvAddTracePayload stops the recorder and hands the buffer over.        *)
AddTracePayload ==
  /\ handler = "recording"
  /\ phase = "idle"
  /\ left = 0
  /\ handler' = "stopped"
  /\ UNCHANGED <<bufferVars, events, eventCounter, phase, size, left, newest>>

Next ==
  \/ \E n \in EventSizes : StartEvent(n)
  \/ PopFront \/ PopToWrap \/ PopAhead
  \/ SetSlack \/ WrapHead
  \/ Claim \/ WriteEvent \/ Commit
  \/ Fault \/ AddTracePayload

Spec == Init /\ [][Next]_vars

-----------------------------------------------------------------------------
(* What a reader of the buffer finds: from the tail to the head, or, when  *)
(* the tail is ahead, to the slack and from 0 to the head.                 *)
OldLap == IF tail <= head \/ InSlack(tail) THEN {} ELSE tail .. Size - slack - 1
NewLap == (IF tail <= head THEN tail ELSE 0) .. head - 1

Within(words) == {e \in events : e.at \in words}

(* The numbers of events, in the order of their places.                    *)
Rank(found, e) == Cardinality({d \in found : d.at < e.at})

InOrder(found) ==
  [k \in 1 .. Cardinality(found) |-> (CHOOSE e \in found : Rank(found, e) = k - 1).no]

Retained == InOrder(Within(OldLap)) \o InOrder(Within(NewLap))

WordsOf(e) == e.at .. e.at + e.size - 1

-----------------------------------------------------------------------------
TraceTypeOK ==
  /\ head \in 0 .. Size /\ nextHead \in 0 .. Size
  /\ tail \in 0 .. Size - 1 /\ slack \in 0 .. Size
  /\ \A e \in events : e.size \in EventSizes /\ WordsOf(e) \subseteq 0 .. Size - 1
  /\ eventCounter \in Nat /\ newest \in 0 .. eventCounter
  /\ phase \in Phases /\ size \in EventSizes \cup {0}
  /\ handler \in {"off", "recording", "stopped"} /\ left \in Nat

(* Whenever a fault strikes, a reader that follows the sizes from the tail *)
(* finds whole events up to the head: no word of garbage is in between.    *)
ReadableAtAnyInstant ==
  \A words \in {OldLap, NewLap} : UNION {WordsOf(e) : e \in Within(words)} = words

(* The size of an event is never read from garbage, nor from beyond the    *)
(* last event: the loops that make room stop in time ("We do not want to   *)
(* call a free when in the slack area", trcEventBuffer.c:75).              *)
PopsOnlyWholeEvents ==
  phase \in PopPhases /\ ~InSlack(tail) =>
    /\ tail # head
    /\ \E e \in Within(OldLap \cup NewLap) : e.at = tail

(* The words an event is written to are inside the buffer and hold no      *)
(* event a reader can still find.                                          *)
ClaimedWordsAreFree ==
  phase \in {"write", "commit"} =>
    /\ head + size <= Size
    /\ (head .. head + size - 1) \cap (OldLap \cup NewLap) = {}

(* "To avoid uiHead and uiTail from becoming the same we want to pop any   *)
(* events that would make uiTail equal uiHead before wrapping the head"    *)
(* (trcEventBuffer.c:162): an allocation that has made room leaves the     *)
(* tail apart from the head, the buffer is not emptied.                    *)
HeadAndTailStayApart == phase = "claimAhead" => head # tail

(* Numbers taken by events that will never be in the buffer: of what was   *)
(* counted since the last commit, all but the event at work.               *)
Abandoned == eventCounter - newest - (IF phase = "idle" THEN 0 ELSE 1)

(* The buffer is a window on the newest events, also when the fault        *)
(* handler takes over in the middle of an allocation.                      *)
Window == INSTANCE TraceWindow WITH
  window <- Retained,
  missing <- Abandoned,
  faulted <- handler # "off",
  stopped <- handler = "stopped"

KeepsTheNewest == Window!Spec
=============================================================================
