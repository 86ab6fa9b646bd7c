--------------------------- MODULE MCStoredAlerts ---------------------------
(* Instances of StoredAlerts for TLC.  Sizes are small multiples of the      *)
(* double word; what matters is which entries fit together in the area.      *)
EXTENDS StoredAlerts

\* An alert with one payload: header and two chunks, the last shorter.
OnePayload ==
  << [type |-> "ALERT",          size |-> 10],
     [type |-> "PAYLOAD_HEADER", size |-> 5],
     [type |-> "PAYLOAD",        size |-> 16],
     [type |-> "PAYLOAD",        size |-> 6] >>

\* The same without the second chunk.
OneChunk == SubSeq(OnePayload, 1, 3)

\* End types: xDfmAlertEndOffline, xDfmAlertEnd, and no alerts by tasks.
ToStore == {"STORE"}
Attempt == {"SEND", "STORE"}
None == {}
=============================================================================
