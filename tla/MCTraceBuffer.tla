---------------------------- MODULE MCTraceBuffer ----------------------------
(***************************************************************************)
(* A buffer of 21 words, events of 2 and 5 words: four of the large ones  *)
(* fit, the lap ends with slack of up to four words, and twelve events go  *)
(* round about twice. A wrap that catches up with the tail in the old lap, *)
(* after which only the new event is left, happens within that bound.      *)
(***************************************************************************)
EXTENDS TraceBuffer

MCEventSizes == {2, 5}
MCHandlerEvents == 0 .. 2
=============================================================================
