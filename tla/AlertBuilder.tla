---------------------------- MODULE AlertBuilder ----------------------------
(***************************************************************************)
(* How an alert is put together and leaves the device (dfmAlert.c,         *)
(* dfmEntry.c, dfmSession.c), in one boot of the Wi-Fi build after         *)
(* xDfmInitialize has succeeded. There is one alert object, one payload    *)
(* table, one entry buffer and one session, and nothing locks them. A task *)
(* raises alerts one after the other, sends them through MqttPort or else  *)
(* stores them; the fault handler (dfmCrashCatcher.c) can take over between*)
(* any two of its steps, builds an alert of its own on the same objects,   *)
(* stores it and resets the processor. What it interrupted never continues.*)
(*                                                                         *)
(* Contents are tags: every piece of an alert carries the number of the    *)
(* xDfmAlertBegin it was given to, and a part of a payload is an interval  *)
(* of it. The store is a call that may fail; StoredAlerts has its insides. *)
(***************************************************************************)
EXTENDS MqttPort, CrashDump, Sequences

CONSTANTS
  MaxSymptoms,    (* DFM_CFG_MAX_SYMPTOMS                                    *)
  MaxPayloads,    (* DFM_CFG_MAX_PAYLOADS                                    *)
  ChunkSize,      (* DFM_CFG_MAX_PAYLOAD_CHUNK_SIZE                          *)
  TraceSize,      (* The size of the trace recorder's buffer.                *)
  TaskAlerts,     (* What a task may put into an alert: <<calls>>.           *)
  CallbackFaults, (* Whether the callbacks for session id and name may fail. *)
  MaxAlerts       (* Bound: alerts raised by the task.                       *)

(* usChunkCount is 16 bits wide.                                           *)
MostChunks == 2^16 - 1

(* A payload lies in the device's memory, of which no part is so large that*)
(* its chunks could not be counted.                                        *)
Call == [op : {"symptom", "payload"}, size : 0 .. ChunkSize * MostChunks]

ASSUME BuilderAssumption ==
  /\ MaxSymptoms \in Nat \ {0} /\ MaxPayloads \in Nat \ {0}
  /\ ChunkSize \in Nat \ {0}
  /\ TraceSize \in 1 .. ChunkSize * MostChunks
  /\ CRASH_DUMP_BUFFER_SIZE \in 1 .. ChunkSize * MostChunks
  /\ TaskAlerts \subseteq Seq(Call)
  /\ CallbackFaults \in BOOLEAN
  /\ MaxAlerts \in Nat

VARIABLES
  alert,          (* xAlert: who began it, the symptom slots and their count.*)
  payloads,       (* xPayloads and ulPayloadCount.                           *)
  ulAlertCounter,
  sessionId,      (* cUniqueSessionIdBuffer: 0 when empty.                   *)
  deviceName,     (* cDeviceNameBuffer is not empty.                         *)
  entry,          (* The entry buffer.                                       *)
  actor,          (* "task" or "fault": who runs.                            *)
  pc,             (* Where it is, see Places.                                *)
  script,         (* The calls it has yet to make before it ends the alert.  *)
  job,            (* The variables of prvDfmProcessAlert.                    *)
  begun,          (* History: calls of xDfmAlertBegin.                       *)
  callbacks,      (* History: ids made by the session id callback.           *)
  out             (* Observed: session, id and owner of the entries handed on.*)

alertVars == <<alert, payloads>>
sessionVars == <<ulAlertCounter, sessionId, deviceName, callbacks>>
runVars == <<actor, pc, script, job>>
vars == <<mqttVars, alertVars, sessionVars, entry, runVars, begun, out>>

Places == {"idle", "begun", "building", "counting", "setup", "callback", "reset"}

NoEntry == [kind |-> "NONE", session |-> 0, id |-> 0, carries |-> {},
            payload |-> 0, index |-> 0, count |-> 0, from |-> 0, len |-> 0, size |-> 0]
NoJob == [via |-> "none", payload |-> 0, chunk |-> 0, offset |-> 0]

EmptySlot == [of |-> 0, size |-> 0]

-----------------------------------------------------------------------------
(* xDfmAlertBegin, in its steps, and the calls that add to an alert.       *)

(* Mutant: the payload table is left as it is.                             *)
ResetAlertOnly ==
  /\ alert' = [of |-> 0, symptoms |-> [k \in 1 .. MaxSymptoms |-> 0], count |-> 0]
  /\ UNCHANGED payloads

(* prvDfmAlertReset                                                        *)
prvDfmAlertReset ==
  /\ alert' = [of |-> 0, symptoms |-> [k \in 1 .. MaxSymptoms |-> 0], count |-> 0]
  /\ payloads' = [slots |-> [k \in 1 .. MaxPayloads |-> EmptySlot], count |-> 0]

(* What the fault handler adds: three symptoms or, on a DFM_TRAP, four; the*)
(* trace; and the crash dump.                                              *)
Symptom == [op |-> "symptom", size |-> 0]
FaultAlerts ==
  { symptoms \o <<[op |-> "payload", size |-> TraceSize],
                  [op |-> "payload", size |-> Dump(fp).used]>> :
      symptoms \in {<<Symptom, Symptom, Symptom>>, <<Symptom, Symptom, Symptom, Symptom>>},
      fp \in BOOLEAN }

(* A script is chosen and the alert object is reset for a new alert.       *)
BeginAlert ==
  /\ pc = "idle"
  /\ \/ actor = "task" /\ begun < MaxAlerts /\ script' \in TaskAlerts
     \/ actor = "fault" /\ script' \in FaultAlerts
  /\ prvDfmAlertReset
  /\ begun' = begun + 1
  /\ pc' = "begun"
  /\ UNCHANGED <<mqttVars, sessionVars, entry, actor, job, out>>

(* Mutant: the alert keeps the id of the one before.                       *)
SameAlertId == ulAlertCounter' = IF ulAlertCounter = 0 THEN 1 ELSE ulAlertCounter

xDfmSessionGenerateNewAlertId == ulAlertCounter' = ulAlertCounter + 1

(* The rest of xDfmAlertBegin: the id, the description, the handle.        *)
NumberAlert ==
  /\ pc = "begun"
  /\ xDfmSessionGenerateNewAlertId
  /\ alert' = [alert EXCEPT !.of = begun]
  /\ pc' = "building"
  /\ UNCHANGED <<mqttVars, payloads, sessionId, deviceName, callbacks, entry,
                 actor, script, job, begun, out>>

(* Mutant: one symptom more than there are slots.                          *)
OneMore(call) ==
  IF call.op = "symptom" THEN alert.count <= MaxSymptoms ELSE payloads.count < MaxPayloads

(* xDfmAlertAddSymptom and xDfmAlertAddPayload fail when the slots are full*)
(* or the payload is empty.                                                *)
HasRoom(call) ==
  IF call.op = "symptom"
  THEN alert.count < MaxSymptoms
  ELSE payloads.count < MaxPayloads /\ call.size > 0

(* The slot behind the last one is filled ...                              *)
FillSlot ==
  /\ pc = "building"
  /\ script # <<>>
  /\ HasRoom(Head(script))
  /\ IF Head(script).op = "symptom"
     THEN /\ alert' = [alert EXCEPT !.symptoms[alert.count + 1] = begun]
          /\ UNCHANGED payloads
     ELSE /\ payloads' = [payloads EXCEPT
                            !.slots[payloads.count + 1] = [of |-> begun,
                                                           size |-> Head(script).size]]
          /\ UNCHANGED alert
  /\ pc' = "counting"
  /\ UNCHANGED <<mqttVars, sessionVars, entry, actor, script, job, begun, out>>

(* ... and then counted.                                                   *)
CountSlot ==
  /\ pc = "counting"
  /\ IF Head(script).op = "symptom"
     THEN alert' = [alert EXCEPT !.count = @ + 1] /\ UNCHANGED payloads
     ELSE payloads' = [payloads EXCEPT !.count = @ + 1] /\ UNCHANGED alert
  /\ script' = Tail(script)
  /\ pc' = "building"
  /\ UNCHANGED <<mqttVars, sessionVars, entry, actor, job, begun, out>>

AddFails ==
  /\ pc = "building"
  /\ script # <<>>
  /\ ~HasRoom(Head(script))
  /\ script' = Tail(script)
  /\ UNCHANGED <<mqttVars, alertVars, sessionVars, entry, actor, pc, job, begun, out>>

-----------------------------------------------------------------------------
(* xDfmAlertEndCustom: a task's alert is sent or else stored, the fault    *)
(* handler's is only stored (xDfmAlertEndOffline).                         *)

Start(via) == [NoJob EXCEPT !.via = via]

EndAlert ==
  /\ pc = "building"
  /\ script = <<>>
  /\ job' = Start(IF actor = "task" THEN "send" ELSE "store")
  /\ pc' = "setup"
  /\ UNCHANGED <<mqttVars, alertVars, sessionVars, entry, actor, script, begun, out>>

(* The alert is reset; after the fault handler's, CRASH_FINALIZE.          *)
Finish ==
  /\ prvDfmAlertReset
  /\ job' = NoJob
  /\ pc' = IF actor = "task" THEN "idle" ELSE "reset"

(* prvDfmProcessAlert has failed: the next way is tried from the start.    *)
NextWay ==
  IF job.via = "send"
  THEN job' = Start("store") /\ pc' = "setup" /\ UNCHANGED alertVars
  ELSE Finish

Slot == payloads.slots[job.payload]

(* Mutant: one chunk too many for a multiple of the chunk size.            *)
ChunkCountRoundedUp(size) == ((size \div ChunkSize) + 1) % (MostChunks + 1)

(* The chunks of a payload that is not empty.                              *)
ChunkCount(size) == (((size - 1) \div ChunkSize) + 1) % (MostChunks + 1)

ChunkLen == IF Slot.size - job.offset < ChunkSize THEN Slot.size - job.offset ELSE ChunkSize

(* What prvDfmEntrySetup writes for the entry job stands at: with the      *)
(* session id and the alert id of the moment.                              *)
EntryFor(session) ==
  LET header == [NoEntry EXCEPT !.session = session, !.id = ulAlertCounter]
  IN  IF job.payload = 0
      THEN [header EXCEPT
              !.kind = "ALERT",
              !.carries = ({alert.of} \cup {alert.symptoms[k] : k \in 1 .. MaxSymptoms})
                            \ {0}]
      ELSE IF job.chunk = 0
      THEN [header EXCEPT
              !.kind = "HEADER", !.carries = {Slot.of},
              !.payload = job.payload, !.size = Slot.size]
      ELSE [header EXCEPT
              !.kind = "CHUNK", !.carries = {Slot.of},
              !.payload = job.payload, !.size = Slot.size,
              !.index = job.chunk, !.count = ChunkCount(Slot.size),
              !.from = job.offset, !.len = ChunkLen]

(* The entry after the one job stands at, when ulOffset moves by moved.    *)
NextPayload == [job EXCEPT !.payload = @ + 1, !.chunk = 0, !.offset = 0]
NextChunk(moved) ==
  IF job.payload > 0 /\ job.chunk < ChunkCount(Slot.size)
  THEN [job EXCEPT !.chunk = @ + 1, !.offset = @ + moved]
  ELSE NextPayload

(* On to it, or the end of the alert.                                      *)
GoOn(next) ==
  IF next.payload <= payloads.count
  THEN job' = next /\ pc' = "setup" /\ UNCHANGED alertVars
  ELSE Finish

(* Mutant: the id is asked for at every entry.                             *)
SessionIdAskedAlways == callbacks + 1

(* The id prvDfmEntrySetup finds or obtains.                               *)
SessionIdObtained == IF sessionId # 0 THEN sessionId ELSE callbacks + 1

(* xDfmSessionGetUniqueSessionId, then xDfmSessionGetDeviceName. Each      *)
(* callback writes straight into the session's buffer; one that fails may  *)
(* have written, and what it wrote is taken at the next call.              *)
GetSession(ok) ==
  \/ /\ ok
     /\ sessionId' = SessionIdObtained
     /\ deviceName' = TRUE
     /\ callbacks' = IF sessionId' = sessionId THEN callbacks ELSE callbacks + 1
  \/ /\ ~ok
     /\ CallbackFaults
     /\ sessionId = 0
     /\ sessionId' \in {0, callbacks + 1}
     /\ callbacks' = callbacks + 1
     /\ UNCHANGED deviceName
  \/ /\ ~ok
     /\ CallbackFaults
     /\ ~deviceName
     /\ sessionId' = SessionIdObtained
     /\ deviceName' \in BOOLEAN
     /\ callbacks' = IF sessionId' = sessionId THEN callbacks ELSE callbacks + 1

(* An entry is made in the buffer. Without session the alert entry fails   *)
(* this way of ending; a payload entry is skipped, with ulOffset unmoved.  *)
SetupEntry ==
  /\ pc = "setup"
  /\ \E ok \in BOOLEAN :
       /\ GetSession(ok)
       /\ IF ok
          THEN /\ entry' = EntryFor(sessionId')
               /\ pc' = "callback"
               /\ UNCHANGED <<job, alertVars>>
          ELSE /\ IF job.payload = 0
                  THEN NextWay
                  ELSE GoOn(IF job.chunk = 0 THEN NextPayload ELSE NextChunk(0))
               /\ UNCHANGED entry
  /\ UNCHANGED <<mqttVars, ulAlertCounter, actor, script, begun, out>>

(* Mutant: a payload entry is tried again until it gets through.           *)
AfterCallbackInsisting(ok) ==
  IF ok THEN GoOn(NextChunk(entry.len))
  ELSE IF job.payload = 0 THEN NextWay
  ELSE UNCHANGED <<job, pc, alertVars>>

(* A failing alert entry fails this way of ending, a failing payload entry *)
(* is ignored (prvSendPayloadChunk, prvStorePayloadChunk).                 *)
AfterCallback(ok) ==
  IF ok \/ job.payload > 0 THEN GoOn(NextChunk(entry.len)) ELSE NextWay

Observe == out' = out \cup {[session |-> entry.session, id |-> entry.id, of |-> a] :
                              a \in entry.carries}

(* xDfmCloudSendAlert and xDfmCloudSendPayloadChunk.                       *)
SendEntry ==
  /\ pc = "callback"
  /\ job.via = "send"
  /\ xDfmCloudPortSend
  /\ AfterCallback(outcome' # "failed")
  /\ Observe
  /\ UNCHANGED <<sessionVars, entry, actor, script, begun>>

(* xDfmStorageStoreAlert and xDfmStorageStorePayloadChunk.                 *)
StoreEntry ==
  /\ pc = "callback"
  /\ job.via = "store"
  /\ \E ok \in BOOLEAN : AfterCallback(ok)
  /\ Observe
  /\ UNCHANGED <<mqttVars, sessionVars, entry, actor, script, begun>>

-----------------------------------------------------------------------------
(* A fault, in whatever the task does. The callback it interrupts may have *)
(* written a part of its id or name, which is no longer the empty string.  *)
Fault ==
  /\ actor = "task"
  /\ actor' = "fault"
  /\ pc' = "idle"
  /\ script' = <<>>
  /\ job' = NoJob
  /\ IF pc = "setup" /\ sessionId = 0
     THEN /\ sessionId' \in {0, callbacks + 1}
          /\ callbacks' = callbacks + 1
     ELSE UNCHANGED <<sessionId, callbacks>>
  /\ IF pc = "setup" /\ sessionId' # 0
     THEN deviceName' \in {deviceName, TRUE}
     ELSE UNCHANGED deviceName
  /\ UNCHANGED <<mqttVars, alertVars, ulAlertCounter, entry, begun, out>>

(* The connection changes while the device runs.                           *)
OutsideDevice ==
  /\ actor = "task"
  /\ Outside
  /\ UNCHANGED <<alertVars, sessionVars, entry, runVars, begun, out>>

Init ==
  /\ MqttInit
  /\ alert = [of |-> 0, symptoms |-> [k \in 1 .. MaxSymptoms |-> 0], count |-> 0]
  /\ payloads = [slots |-> [k \in 1 .. MaxPayloads |-> EmptySlot], count |-> 0]
  /\ ulAlertCounter = 0
  /\ sessionId = 0
  /\ deviceName = FALSE
  /\ entry = NoEntry
  /\ actor = "task"
  /\ pc = "idle"
  /\ script = <<>>
  /\ job = NoJob
  /\ begun = 0
  /\ callbacks = 0
  /\ out = {}

Build == BeginAlert \/ NumberAlert \/ FillSlot \/ CountSlot \/ AddFails \/ EndAlert
Process == SetupEntry \/ SendEntry \/ StoreEntry

Next == Build \/ Process \/ Fault \/ OutsideDevice

Spec == Init /\ [][Next]_vars

(* Whoever builds an alert goes on: the fault handler runs with interrupts *)
(* off, a task as long as no fault ends it. A task need not raise another. *)
Building == Build /\ (actor = "fault" \/ pc # "idle")
FairSpec == Spec /\ WF_vars(Building) /\ WF_vars(Process)

-----------------------------------------------------------------------------
BuilderTypeOK ==
  /\ alert \in [of : 0 .. begun, symptoms : [1 .. MaxSymptoms -> 0 .. begun],
                count : 0 .. MaxSymptoms]
  /\ payloads \in [slots : [1 .. MaxPayloads -> [of : 0 .. begun, size : Nat]],
                   count : 0 .. MaxPayloads]
  /\ ulAlertCounter \in 0 .. begun
  /\ sessionId \in 0 .. callbacks /\ deviceName \in BOOLEAN
  /\ entry.kind \in {"NONE", "ALERT", "HEADER", "CHUNK"}
  /\ actor \in {"task", "fault"} /\ pc \in Places
  /\ script \in Seq(Call)
  /\ job.payload \in 0 .. payloads.count

(* Nothing a task had put into its alert gets into the fault handler's,    *)
(* wherever the fault struck, nor anything of an alert into the next one.  *)
NothingOfAnotherAlert == pc = "callback" => entry.carries = {begun}

(* Entries of one session with the same id belong to the same alert: an id *)
(* read from the session's counter at every entry still names the alert    *)
(* although Begin may be cut in two and an alert may end twice, by sending *)
(* and by storing.                                                         *)
SameIdSameAlert ==
  \A p, q \in out : p.session = q.session /\ p.id = q.id => p.of = q.of

(* All entries of a boot carry one session id, also when the callback      *)
(* failed after writing or the fault struck inside it.                     *)
OneSession == \A p, q \in out : p.session = q.session

(* The chunks tile their payload: whichever of them arrive, the receiver   *)
(* puts each where it belongs and knows how many there are.                *)
ChunksTileTheirPayload ==
  pc = "callback" /\ entry.kind = "CHUNK" =>
    /\ entry.index \in 1 .. entry.count
    /\ entry.from = (entry.index - 1) * ChunkSize
    /\ entry.len \in 1 .. ChunkSize
    /\ entry.index < entry.count => entry.len = ChunkSize
    /\ entry.index = entry.count => entry.from + entry.len = entry.size

(* The dump in the fault handler's alert has every piece: no region header *)
(* without its content, no fault status cut off.                           *)
DumpIsWhole ==
  pc = "callback" /\ actor = "fault" /\ entry.kind = "HEADER" /\ entry.payload = 2 =>
    \E fp \in BOOLEAN : Dump(fp).dropped = 0 /\ entry.size = Dump(fp).used

(* Ending an alert returns, for a task on a dead connection as for the     *)
(* fault handler, which gets to its reset.                                 *)
EndReturns ==
  /\ pc \in {"setup", "callback"} ~> pc \in {"idle", "reset"}
  /\ actor = "fault" ~> pc = "reset"
=============================================================================
