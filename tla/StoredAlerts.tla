---------------------------- MODULE StoredAlerts ----------------------------
(***************************************************************************)
(* The life of an alert on the device: raised by a task or by the fault    *)
(* handler, cut into entries that are sent or stored one by one            *)
(* (prvDfmProcessAlert, xDfmAlertEndCustom), kept in flash over a reset,   *)
(* uploaded at the next boot (prvDfmGetAll), and erased (main.c).  The     *)
(* flash port underneath is FlashStoragePort; power may fail at any step.  *)
(*                                                                         *)
(* One task builds alerts here and the fault handler may interrupt it at   *)
(* any point; two tasks building alerts at once are AlertBuilder's subject.*)
(***************************************************************************)
EXTENDS Integers, FiniteSets, Sequences

CONSTANTS
  Parts,          (* The entries of an alert: <<[type, size], ...>>.         *)
  MaxBoots,       (* Bound: boots of the device.                             *)
  MaxAlerts,      (* Bound: alerts raised in one boot.                       *)
  TaskEnd,        (* End type of a task's alert, or {} for no such alert.    *)
  CrashEnd,       (* End type the fault handler uses: {"STORE"} normally,    *)
                  (* {"SEND", "STORE"} if the port always attempts transfer. *)
  CloudFaults,    (* Whether a send may fail.                                *)
  PowerFaults,    (* Whether power may be lost.                              *)
  NoEntry, Capacity, PageSize, BufferSize, ConfigStrategy, FlashFaults

Part == 1 .. Len(Parts)

\* An alert is known by the session (a fresh id per boot) and the counter.
Alert == [session : 1 .. MaxBoots, alert : 1 .. MaxAlerts]
Entry == [session : 1 .. MaxBoots, alert : 1 .. MaxAlerts, part : Part]
Size  == [e \in Entry |-> Parts[e.part].size]

NoAlert == [session |-> 0, alert |-> 0]

ASSUME PartsAssumption ==
  /\ Parts \in Seq([type : {"ALERT", "PAYLOAD_HEADER", "PAYLOAD"}, size : Nat \ {0}])
  /\ Len(Parts) >= 1
  /\ \A p \in Part : (Parts[p].type = "ALERT") <=> (p = 1)

ASSUME DeviceAssumption ==
  /\ MaxBoots \in Nat \ {0} /\ MaxAlerts \in Nat \ {0}
  /\ TaskEnd \subseteq {"SEND", "STORE"}
  /\ CrashEnd \subseteq {"SEND", "STORE"} /\ CrashEnd # {}
  /\ CloudFaults \in BOOLEAN
  /\ PowerFaults \in BOOLEAN

VARIABLES
  flash, ulWrOffset, ulRdOffset, xStorageStrategy,
  pc,             (* Where the device is, see Places.                        *)
  boot,           (* Boots so far; names the session.                        *)
  ulDfmInitialized, (* RAM: xDfmInitialize succeeded in this boot.           *)
  ulAlertCounter, (* RAM: pxDfmSessionData->ulAlertCounter.                  *)
  current,        (* RAM: the alert whose payload prvDfmGetAll is reading.   *)
  job,            (* RAM: the alert prvDfmProcessAlert works on.             *)
  cloud,          (* Observed: what the cloud received, in order.            *)
  ended,          (* Observed: alerts whose end returned DFM_SUCCESS.        *)
  accepted        (* Observed: entries of this boot whose store returned     *)
                  (* DFM_SUCCESS.                                            *)

INSTANCE FlashStoragePort

\* What the port assumes of its constants.
ASSUME StorageAssumption ==
  /\ NoEntry \notin Entry
  /\ \A e \in Entry : Size[e] <= BufferSize
  /\ Capacity \in Nat /\ PageSize \in Nat \ {0} /\ BufferSize \in Nat
  /\ ConfigStrategy \in Strategies
  /\ FlashFaults \in BOOLEAN

port == <<flash, ulWrOffset, ulRdOffset, xStorageStrategy>>
ram  == <<current, job, ulAlertCounter, ulDfmInitialized>>
seen == <<cloud, ended, accepted>>
vars == <<port, pc, boot, ram, seen>>

\* "off", the two loops of prvDfmGetAll, the erase after it, a task running,
\* and prvDfmProcessAlert.
Places == {"off", "getalert", "getpayload", "reset", "running", "process"}

NoJob == [part |-> 0, via |-> "none", end |-> {}, crash |-> FALSE]

AlertOf(e)   == [session |-> e.session, alert |-> e.alert]
PartOf(a, p) == [session |-> a.session, alert |-> a.alert, part |-> p]
TypeOf(e)    == Parts[e.part].type

-----------------------------------------------------------------------------
(* Startup.                                                                *)

\* Mutant: the storage is erased before the upload.
BootErasesFirst ==
  /\ pc = "off"
  /\ boot < MaxBoots
  /\ boot' = boot + 1
  /\ ulAlertCounter' = 0
  /\ current' = NoAlert
  /\ job' = NoJob
  /\ ulDfmInitialized' = TRUE
  /\ pc' = "reset"
  /\ xDfmStoragePortInitialize
  /\ accepted' = {}
  /\ UNCHANGED <<cloud, ended>>

\* vApplicationDaemonTaskStartupHook up to and with xDfmInitialize.  That fails
\* if the cloud port cannot connect; then nothing can be read, and main.c goes on
\* to the erase all the same.
Boot ==
  /\ pc = "off"
  /\ boot < MaxBoots
  /\ boot' = boot + 1
  /\ ulAlertCounter' = 0
  /\ current' = NoAlert
  /\ job' = NoJob
  /\ \/ ulDfmInitialized' = TRUE /\ pc' = "getalert"
     \/ CloudFaults /\ ulDfmInitialized' = FALSE /\ pc' = "reset"
  /\ xDfmStoragePortInitialize
  /\ accepted' = {}
  /\ UNCHANGED <<cloud, ended>>

\* Mutant: any sound entry passes for an alert.
AlertOfAnyType(r) == r.intact

\* xDfmEntryCreateAlertFromBuffer: the entry in the buffer is a sound alert.
xDfmEntryCreateAlertFromBuffer(r) == r.intact /\ TypeOf(r.entry) = "ALERT"

\* Mutants: nothing is verified; the end marks are not; the headers are not
\* accepted.
PayloadUnverified(a, r) == r.ok
PayloadWithoutEndMarks(a, r) == r.entry # NoEntry /\ AlertOf(r.entry) = a
PayloadChunkOnly(a, r) == r.intact /\ TypeOf(r.entry) = "PAYLOAD" /\ AlertOf(r.entry) = a

\* xDfmEntryCreatePayloadChunkFromBuffer: it is a sound piece of a payload of
\* the alert that was asked for.
xDfmEntryCreatePayloadChunkFromBuffer(a, r) ==
  /\ r.intact
  /\ TypeOf(r.entry) \in {"PAYLOAD_HEADER", "PAYLOAD"}
  /\ AlertOf(r.entry) = a

\* xDfmCloudSendAlert and xDfmCloudSendPayloadChunk.
Send(item, ok) ==
  /\ ok \/ CloudFaults
  /\ cloud' = IF ok THEN Append(cloud, item) ELSE cloud

\* One turn of the outer loop of prvDfmGetAll: every failure ends the loop,
\* and xDfmAlertSendAll returns DFM_SUCCESS all the same.
GetAlert ==
  /\ pc = "getalert"
  /\ \E r \in Result :
       /\ xDfmStoragePortGetAlert(r)
       /\ IF r.ok /\ xDfmEntryCreateAlertFromBuffer(r)
          THEN \E ok \in BOOLEAN :
                 /\ Send(r, ok)
                 /\ pc' = IF ok THEN "getpayload" ELSE "reset"
                 /\ current' = IF ok THEN AlertOf(r.entry) ELSE current
          ELSE pc' = "reset" /\ UNCHANGED <<current, cloud>>
  /\ UNCHANGED <<boot, job, ulAlertCounter, ulDfmInitialized, ended, accepted>>

\* One turn of the inner loop: every failure goes back to the outer loop,
\* and what was read stays behind the read offset.
GetPayload ==
  /\ pc = "getpayload"
  /\ \E r \in Result :
       /\ xDfmStoragePortGetAlert(r)
       /\ IF r.ok /\ xDfmEntryCreatePayloadChunkFromBuffer(current, r)
          THEN \E ok \in BOOLEAN :
                 /\ Send(r, ok)
                 /\ pc' = IF ok THEN "getpayload" ELSE "getalert"
          ELSE pc' = "getalert" /\ UNCHANGED cloud
  /\ UNCHANGED <<boot, ram, ended, accepted>>

\* main.c erases the storage whatever xDfmAlertSendAll did.
EraseStored ==
  /\ pc = "reset"
  /\ \E ok \in BOOLEAN : xDfmStoragePortReset(ok)
  /\ pc' = "running"
  /\ UNCHANGED <<boot, ram, seen>>

-----------------------------------------------------------------------------
(* Raising and ending an alert.                                            *)

\* The ways of xDfmAlertEndCustom in the order it tries them.
Via(end) == IF "SEND" \in end THEN "SEND" ELSE "STORE"

\* xDfmAlertBegin: the global alert is reset and takes the next id.
BeginAlert(end, crash) ==
  /\ ulDfmInitialized
  /\ ulAlertCounter < MaxAlerts
  /\ ulAlertCounter' = ulAlertCounter + 1
  /\ job' = [part |-> 1, via |-> Via(end), end |-> end, crash |-> crash]
  /\ pc' = "process"
  /\ UNCHANGED <<port, boot, current, ulDfmInitialized, seen>>

RaiseAlert == pc = "running" /\ TaskEnd # {} /\ BeginAlert(TaskEnd, FALSE)

\* A fault stops whatever runs, an alert in progress included, and never
\* returns to it: CrashCatcher_DumpStart to CrashCatcher_DumpEnd.
Crash == pc # "off" /\ ~job.crash /\ BeginAlert(CrashEnd, TRUE)

\* "Not yet initialized. Alert ignored": only CRASH_FINALIZE happens.
CrashIgnored ==
  /\ pc # "off" /\ ~ulDfmInitialized
  /\ pc' = "off"
  /\ UNCHANGED <<port, boot, ram, seen>>

\* The end of xDfmAlertEndCustom: the alert is reset.  After a crash
\* CRASH_FINALIZE resets the processor.
EndAlert(success) ==
  /\ pc' = IF job.crash THEN "off" ELSE "running"
  /\ job' = NoJob
  /\ ended' = IF success
              THEN ended \cup {[session |-> boot, alert |-> ulAlertCounter, via |-> job.via]}
              ELSE ended

\* Mutant: a failing alert entry is ignored like a failing payload.
AfterEntryIgnoringFailure(ok) ==
  IF job.part < Len(Parts)
  THEN job' = [job EXCEPT !.part = @ + 1] /\ UNCHANGED <<pc, ended>>
  ELSE EndAlert(TRUE)

\* Mutant: after a successful send the alert is stored as well.
AfterEntryBothWays(ok) ==
  IF job.part < Len(Parts)
  THEN job' = [job EXCEPT !.part = @ + 1] /\ UNCHANGED <<pc, ended>>
  ELSE IF job.via = "SEND" /\ "STORE" \in job.end
       THEN /\ job' = [job EXCEPT !.part = 1, !.via = "STORE"]
            /\ ended' = ended \cup {[session |-> boot, alert |-> ulAlertCounter, via |-> "SEND"]}
            /\ UNCHANGED pc
       ELSE EndAlert(TRUE)

\* What follows the callback on one entry: a failing alert entry ends this way
\* of ending, a failing payload entry is ignored.
AfterEntry(ok) ==
  IF job.part = 1 /\ ~ok
  THEN IF job.via = "SEND" /\ "STORE" \in job.end
       THEN /\ job' = [job EXCEPT !.via = "STORE"]
            /\ UNCHANGED <<pc, ended>>
       ELSE EndAlert(FALSE)
  ELSE IF job.part < Len(Parts)
       THEN /\ job' = [job EXCEPT !.part = @ + 1]
            /\ UNCHANGED <<pc, ended>>
       ELSE EndAlert(TRUE)

\* The entry prvDfmProcessAlert makes next: the alert id comes from the
\* session's counter, not from the alert (prvDfmEntrySetup).
NextEntry == [session |-> boot, alert |-> ulAlertCounter, part |-> job.part]

\* prvDfmProcessAlert with the send callbacks: one entry.
SendEntry ==
  /\ pc = "process" /\ job.via = "SEND"
  /\ \E ok \in BOOLEAN :
       /\ Send([ok |-> TRUE, entry |-> NextEntry, intact |-> TRUE], ok)
       /\ AfterEntry(ok)
  /\ UNCHANGED <<port, boot, ulAlertCounter, ulDfmInitialized, current, accepted>>

\* prvDfmProcessAlert with the store callbacks: one entry.
StoreEntry ==
  /\ pc = "process" /\ job.via = "STORE"
  /\ \E ok \in BOOLEAN :
       /\ xDfmStorageStore(NextEntry, ok)
       /\ AfterEntry(ok)
       /\ accepted' = IF ok THEN accepted \cup {NextEntry} ELSE accepted
  /\ UNCHANGED <<boot, ulAlertCounter, ulDfmInitialized, current, cloud>>

-----------------------------------------------------------------------------
(* Loss of power, also in the middle of an erase or of programming.        *)

PowerOff ==
  /\ PowerFaults
  /\ pc # "off"
  /\ pc' = "off"
  /\ job' = NoJob
  /\ \/ PowerCycle
     \/ TornErase /\ pc = "reset"
     \/ /\ pc = "process" /\ job.via = "STORE" /\ xStorageStrategy # "IGNORE"
        /\ \/ TornErase /\ ulWrOffset = 0
           \/ TornWrite(NextEntry)
  /\ UNCHANGED <<boot, current, ulAlertCounter, ulDfmInitialized, seen>>

\* Nothing more happens within the bounds on boots and alerts.
Halted ==
  /\ \/ pc = "off" /\ boot = MaxBoots
     \/ pc = "running" /\ (ulAlertCounter = MaxAlerts \/ ~ulDfmInitialized)
  /\ UNCHANGED vars

-----------------------------------------------------------------------------
InitDevice ==
  /\ Init
  /\ pc = "off"
  /\ boot = 0
  /\ ulAlertCounter = 0
  /\ ulDfmInitialized = FALSE
  /\ current = NoAlert
  /\ job = NoJob
  /\ cloud = <<>>
  /\ ended = {}
  /\ accepted = {}

Upload == GetAlert \/ GetPayload \/ EraseStored

NextDevice ==
  \/ Boot \/ Upload
  \/ RaiseAlert \/ Crash \/ CrashIgnored \/ SendEntry \/ StoreEntry
  \/ PowerOff \/ Halted

SpecDevice == InitDevice /\ [][NextDevice]_vars

\* The processor runs whenever it has something to run, and a device that is
\* off is switched on or comes out of reset.
Fairness == WF_vars(Boot) /\ WF_vars(Upload) /\ WF_vars(SendEntry \/ StoreEntry)

FairSpecDevice == SpecDevice /\ Fairness

-----------------------------------------------------------------------------
(* Properties.                                                             *)

\* The variables of the device keep their types; an unreadable entry never
\* gets as far as the cloud.
DeviceTypeOK ==
  /\ TypeOK
  /\ pc \in Places
  /\ ulDfmInitialized \in BOOLEAN
  /\ boot \in 0 .. MaxBoots
  /\ ulAlertCounter \in 0 .. MaxAlerts
  /\ current \in Alert \cup {NoAlert}
  /\ job \in [part : Part, via : {"SEND", "STORE"}, end : SUBSET {"SEND", "STORE"},
              crash : BOOLEAN] \cup {NoJob}
  /\ \A i \in DOMAIN cloud : cloud[i].entry \in Entry
  /\ ended \subseteq [session : 1 .. MaxBoots, alert : 1 .. MaxAlerts, via : {"SEND", "STORE"}]
  /\ accepted \subseteq Entry

InCloud(e) == \E i \in DOMAIN cloud : cloud[i].entry = e
Stored(e)  == \E c \in flash : c.entry = e /\ c.state = "whole"
First(a)   == PartOf(a, 1)

\* The alert at the start of the area, the first that is read at a boot.
Oldest(a) == \E c \in flash : c.at = 0 /\ c.entry = First(a) /\ c.state = "whole"

\* No entry that power or the flash cut short is ever sent: verification
\* stops the upload at it (prvDfmEntryVerify).
DeliveredIntact == \A i \in DOMAIN cloud : cloud[i].intact

\* The cloud can attribute every payload entry: what came just before it is of
\* the same alert and an earlier part of it, over interrupted uploads, lost
\* sends, crashes during an upload and torn entries.
PayloadFollowsItsAlert ==
  \A i \in DOMAIN cloud :
    cloud[i].entry.part > 1 =>
      /\ i > 1
      /\ AlertOf(cloud[i - 1].entry) = AlertOf(cloud[i].entry)
      /\ cloud[i - 1].entry.part < cloud[i].entry.part

\* An alert that was sent when it was raised is not also kept for the next
\* boot, and no alert ends both ways (xDfmAlertEndCustom).
SentAlertIsNotStored ==
  \A r \in ended :
    r.via = "SEND" => \A p \in Part : ~Stored(PartOf(AlertOf(r), p))

\* An upload sends an entry once: however often boots and crashes interrupt
\* it, an entry arrives at most once per boot after its own.
OncePerBoot ==
  \A e \in Entry :
    LET times == Cardinality({i \in DOMAIN cloud : cloud[i].entry = e})
    IN  times > 1 => times <= boot - e.session

\* Every entry whose store returned DFM_SUCCESS is whole in flash as long as
\* its boot lasts: no later store, fault or loss of power reaches it.
StoredEntriesSurviveTheirBoot == \A e \in accepted : Stored(e)

\* An alert is reported as stored also when payload entries were refused ("We
\* don't care if payload stuff fails", prvStorePayloadChunk).  What the flash
\* lacks of it is its end and nothing else: its entries are there, whole, from
\* the alert entry up to some part, also if a smaller one behind a refused one
\* would have fitted, so that no chunk is kept without its header.
StoredAlertHasNoGap ==
  \A r \in ended :
    r.via = "STORE" /\ r.session = boot =>
      \E n \in Part : \A p \in Part : Stored(PartOf(AlertOf(r), p)) <=> p <= n

\* An entry of the oldest stored alert is erased only after it was delivered:
\* whatever was stored later, and wherever power failed, the upload has got past
\* it before main.c erases or the port erases at its first write.
OldestErasedOnlyAfterDelivery ==
  [][\A c \in flash :
       c.state = "whole" /\ Oldest(AlertOf(c.entry)) /\ c \notin flash'
         => InCloud(c.entry)]_vars

\* The oldest alert found in flash at a reset reaches the cloud, unless power
\* fails again before each of the uploads the bound on boots leaves.
OldestAlertReachesCloud ==
  \A a \in Alert :
    (pc = "off" /\ Oldest(a)) ~> (InCloud(First(a)) \/ (pc = "off" /\ boot = MaxBoots))

\* "Send all stored Alerts" (DFM/include/dfmAlert.h:323): when xDfmAlertSendAll
\* is done and no send failed, everything readable in flash was sent.
SendAllSendsAll ==
  pc = "reset" => \A e \in Entry : Stored(e) => InCloud(e)
=============================================================================
