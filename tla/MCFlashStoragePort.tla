------------------------- MODULE MCFlashStoragePort -------------------------
(* A small instance of FlashStoragePort for TLC: two entries, one of them   *)
(* as long as the entry buffer, in an area of two and a half pages.         *)
EXTENDS FlashStoragePort

LOCAL INSTANCE TLC

CONSTANTS small, large

MCEntry == {small, large}
MCSize  == (small :> 5) @@ (large :> 8)

\* Bound: no store is tried once the write offset has left the area by more
\* than one entry, and no read once the read offset has.
OffsetBound == Capacity + Span(BufferSize)

BoundedNext ==
  /\ Next
  /\ ulWrOffset' <= OffsetBound
  /\ ulRdOffset' <= OffsetBound

MCSpec == Init /\ [][BoundedNext]_portVars
=============================================================================
