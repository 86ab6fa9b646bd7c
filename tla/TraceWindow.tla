----------------------------- MODULE TraceWindow -----------------------------
(***************************************************************************)
(* What the event buffer of the trace recorder promises in overwrite mode: *)
(* a window on the newest events, in the order they were recorded. An      *)
(* event enters complete, at the end; only the oldest ones are given up;   *)
(* and once the fault handler has stopped the recorder, to hand the buffer *)
(* over as a payload, nothing moves any more.                              *)
(*                                                                         *)
(* An event is its number (eventCounter in trcEvent.c). The number of an   *)
(* event that a fault cut short is never used again: the window misses one *)
(* number there, at the first event after the fault, and nowhere else.     *)
(***************************************************************************)
EXTENDS Naturals, Sequences

VARIABLES
  window,   (* The numbers of the events a reader of the buffer finds.      *)
  newest,   (* The number of the last event recorded, 0 before the first.   *)
  missing,  (* How many numbers the next event skips.                       *)
  faulted,  (* The fault handler has taken over.                            *)
  stopped   (* The recorder is stopped.                                     *)

vars == <<window, newest, missing, faulted, stopped>>

Init ==
  /\ window = <<>>
  /\ newest = 0
  /\ missing = 0
  /\ faulted = FALSE
  /\ stopped = FALSE

(* The oldest events are given up.                                         *)
Forget ==
  /\ ~stopped
  /\ \E k \in 1 .. Len(window) : window' = SubSeq(window, k + 1, Len(window))
  /\ UNCHANGED <<newest, missing, faulted, stopped>>

(* An event is recorded.                                                   *)
Record ==
  /\ ~stopped
  /\ newest' = newest + missing + 1
  /\ window' = Append(window, newest')
  /\ missing' = 0
  /\ UNCHANGED <<faulted, stopped>>

(* The fault handler takes over, and may cut one event short.              *)
Fault ==
  /\ ~faulted
  /\ faulted' = TRUE
  /\ missing' \in {0, 1}
  /\ UNCHANGED <<window, newest, stopped>>

Stop ==
  /\ faulted
  /\ ~stopped
  /\ stopped' = TRUE
  /\ UNCHANGED <<window, newest, missing, faulted>>

Next == Forget \/ Record \/ Fault \/ Stop

Spec == Init /\ [][Next]_vars
=============================================================================
