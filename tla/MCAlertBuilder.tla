--------------------------- MODULE MCAlertBuilder ---------------------------
(***************************************************************************)
(* A task raises two alerts. Its payloads are one chunk, two full chunks,  *)
(* or a chunk and a rest; one alert has a symptom and a payload more than  *)
(* there is room for. The chunk size and the sizes of the dump are those   *)
(* of the demo's configuration.                                            *)
(***************************************************************************)
EXTENDS AlertBuilder

Bytes(n) == [op |-> "payload", size |-> n]

MCTaskAlerts ==
  { <<Symptom, Bytes(4000)>>,
    <<Bytes(1), Symptom, Symptom, Symptom, Symptom, Symptom, Bytes(2001), Bytes(7)>> }
=============================================================================
