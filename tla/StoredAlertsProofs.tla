------------------------- MODULE StoredAlertsProofs -------------------------
(***************************************************************************)
(* Proofs about StoredAlerts, for any number of boots and alerts, any way  *)
(* an alert is cut into entries, any size of the flash and of its pages:   *)
(*   - what the cloud receives is intact, and an alert that was sent when  *)
(*     it was raised is not in flash, whatever fails;                      *)
(*   - an entry reported as stored stays there during its boot, and what   *)
(*     is there of an alert reported as stored is its beginning, without a *)
(*     gap, if only power fails. (When the flash fails neither holds:      *)
(*     FLASH_write_at takes a torn entry for a stored one, see             *)
(*     StoredMeansProgrammed.)                                             *)
(*                                                                         *)
(* The argument is in Recent: ids of a boot only grow, so that what is in  *)
(* flash or has ended is older than the alert at work; and Kept: the first *)
(* write of a boot, which erases, comes before anything is accepted, and   *)
(* once an entry is refused every later one is.                            *)
(***************************************************************************)
EXTENDS StoredAlerts, TLAPS

JobType == [part : Part, via : {"SEND", "STORE"}, end : SUBSET {"SEND", "STORE"},
            crash : BOOLEAN]
EndedType == [session : Nat, alert : Nat, via : {"SEND", "STORE"}]

Uploading == {"getalert", "getpayload", "reset"}

Types ==
  /\ pc \in Places
  /\ boot \in 0 .. MaxBoots /\ ulAlertCounter \in 0 .. MaxAlerts
  /\ pc # "off" => boot > 0
  /\ pc = "process" => job \in JobType /\ ulAlertCounter > 0 /\ ulDfmInitialized
  /\ flash \subseteq CellType
  /\ ulWrOffset \in Nat
  /\ ended \subseteq EndedType
  /\ accepted \subseteq Entry

\* Nothing in flash, and nothing that ended, is newer than the alert at work.
Recent ==
  /\ \A c \in flash :
       c.state = "whole" =>
         /\ c.entry.session <= boot
         /\ c.entry.session = boot => c.entry.alert <= ulAlertCounter
         /\ pc = "process" /\ job.via = "SEND" /\ c.entry.session = boot
              => c.entry.alert < ulAlertCounter
  /\ \A r \in ended :
       /\ r.session <= boot
       /\ r.session = boot => r.alert <= ulAlertCounter
       /\ r.session = boot /\ pc = "process" => r.alert < ulAlertCounter
       /\ pc \in Uploading => r.session < boot

\* No entry in flash is of an alert that ended by being sent.
NotBoth ==
  \A r \in ended, c \in flash :
    r.via = "SEND" /\ c.state = "whole" => AlertOf(c.entry) # AlertOf(r)

SentInv == Types /\ Recent /\ NotBoth

\* Of an alert of this boot, the first n parts were accepted and no others.
Upto(alert, n) ==
  \A p \in Part : PartOf([session |-> boot, alert |-> alert], p) \in accepted <=> p <= n

\* The port accepts nothing more in this boot.
Closed == ulWrOffset >= Capacity \/ xStorageStrategy = "IGNORE"

\* What this boot has had accepted is what is whole of it in flash, and is
\* behind the write offset.
Kept ==
  /\ \A e \in accepted : e.session = boot /\ Stored(e)
  /\ \A c \in flash : c.state = "whole" /\ c.entry.session = boot => c.entry \in accepted
  /\ pc # "off" /\ accepted # {} => ulWrOffset # 0
  /\ pc \in Uploading => accepted = {}

\* Alerts that were stored, and the one being stored, were accepted up to some
\* part.
Gapless ==
  /\ \A r \in ended :
       r.via = "STORE" /\ r.session = boot => \E n \in Part : Upto(r.alert, n)
  /\ pc = "process" /\ job.via = "STORE" =>
       \E n \in Nat : /\ Upto(ulAlertCounter, n)
                      /\ n < job.part /\ (job.part > 1 => n > 0)
                      /\ n = job.part - 1 \/ Closed

-----------------------------------------------------------------------------
(* What the operations of the port do to the flash.                        *)

\* A page erase that stops early leaves no whole entry that was not there.
LEMMA ErasedBelowLess ==
  ASSUME flash \subseteq CellType, NEW cut
  PROVE  /\ ErasedBelow(cut) \subseteq CellType
         /\ \A c \in ErasedBelow(cut) : c.state = "whole" => c \in flash
  <1>1. \A d \in flash : /\ [d EXCEPT !.state = "residue"] \in CellType
                         /\ [d EXCEPT !.state = "residue"].state = "residue"
    BY DEF CellType, CellStates
  <1> QED
    BY <1>1 DEF ErasedBelow

\* Cells are cells.
LEMMA CellFacts ==
  ASSUME NEW at \in Nat, NEW e \in Entry, NEW s \in CellStates
  PROVE  /\ Cell(at, e, s) \in CellType
         /\ Cell(at, e, s).entry = e /\ Cell(at, e, s).state = s
  BY DEF Cell, CellType

\* Every entry has a size, and takes space.
LEMMA SpanPositive ==
  ASSUME NEW e \in Entry
  PROVE  Span(Size[e]) \in Nat /\ Span(Size[e]) > 0
  <1>1. e.part \in Part
    BY DEF Entry
  <1>2. Parts[e.part].size \in Nat
    <2> DEFINE T == [type : {"ALERT", "PAYLOAD_HEADER", "PAYLOAD"}, size : Nat \ {0}]
    <2>1. Parts \in Seq(T)
      BY PartsAssumption
    <2>2. Parts[e.part] \in T
      <3> HIDE DEF T
      <3> QED
        BY <1>1, <2>1 DEF Part
    <2> QED
      BY <2>2
  <1> QED
    BY <1>2 DEF Size, Span

\* A store adds at most its own entry; after the first it erases nothing;
\* and if the flash works, the entry is there if and only if the store
\* succeeds, and a store that fails is the last to be tried with success.
LEMMA StoreFacts ==
  ASSUME flash \subseteq CellType, ulWrOffset \in Nat,
         NEW e \in Entry, NEW ok \in BOOLEAN, xDfmStorageStore(e, ok)
  PROVE  /\ flash' \subseteq CellType /\ ulWrOffset' \in Nat
         /\ \A c \in flash' : c.state = "whole" => c \in flash \/ (ok /\ c.entry = e)
         /\ ulWrOffset # 0 => flash \subseteq flash' /\ ulWrOffset' # 0
         /\ ok /\ ~FlashFaults =>
              ulWrOffset' # 0 /\ \E c \in flash' : c.entry = e /\ c.state = "whole"
         /\ ok => ~Closed
         /\ ~ok /\ ~FlashFaults => Closed'
  <1>1. CASE xStorageStrategy = "IGNORE" /\ UNCHANGED <<flash, ulWrOffset, xStorageStrategy>> /\ ~ok
    BY <1>1 DEF Closed
  <1>2. CASE ulWrOffset = 0 /\ ~ok /\ xDfmStoragePortReset(FALSE)
    <2>1. PICK cut \in Cuts : flash' = ErasedBelow(cut)
      BY <1>2 DEF xDfmStoragePortReset
    <2>2. UNCHANGED ulWrOffset /\ FlashFaults
      BY <1>2 DEF xDfmStoragePortReset
    <2> QED
      BY <1>2, <2>1, <2>2, ErasedBelowLess
  <1>3. CASE /\ xStorageStrategy # "IGNORE"
             /\ ulWrOffset' = ulWrOffset + Span(Size[e])
             /\ IF Fits(ulWrOffset, e)
                THEN FLASH_write_at(WriteBase, ulWrOffset, e, ok)
                ELSE ~ok /\ flash' = WriteBase
    <2>1. ulWrOffset' \in Nat /\ ulWrOffset' # 0
      BY <1>3, SpanPositive
    <2>2. WriteBase \subseteq flash /\ (ulWrOffset # 0 => WriteBase = flash)
      BY DEF WriteBase
    <2>3. Span(Size[e]) \in Nat /\ Capacity \in Nat
      BY SpanPositive, StorageAssumption
    <2>4. Fits(ulWrOffset, e) => ~Closed
      BY <1>3, <2>3 DEF Fits, Closed
    <2>5. ~Fits(ulWrOffset, e) => Closed'
      BY <1>3, <2>3 DEF Fits, Closed
    <2>6. CASE /\ Fits(ulWrOffset, e)
               /\ ok /\ flash' = WriteBase \cup {Cell(ulWrOffset, e, "whole")}
      BY <2>1, <2>2, <2>4, <2>6, CellFacts DEF CellStates
    <2>7. CASE /\ Fits(ulWrOffset, e) /\ FlashFaults
               /\ \E c \in Partial(ulWrOffset, e) : flash' = WriteBase \cup {c}
      <3>1. PICK s \in {"torn", "headless"} : flash' = WriteBase \cup {Cell(ulWrOffset, e, s)}
        BY <2>7 DEF Partial
      <3>2. s \in CellStates
        BY DEF CellStates
      <3> QED
        BY <2>1, <2>2, <2>4, <2>7, <3>1, <3>2, CellFacts
    <2>8. CASE ~ok /\ flash' = WriteBase /\ (FlashFaults \/ ~Fits(ulWrOffset, e))
      BY <2>1, <2>2, <2>5, <2>8
    <2> QED
      BY <1>3, <2>6, <2>7, <2>8 DEF FLASH_write_at
  <1> QED
    BY <1>1, <1>2, <1>3 DEF xDfmStorageStore, prvDfmStoragePortWrite

\* A read moves the read offset and nothing else.
LEMMA ReadFacts ==
  ASSUME NEW r, xDfmStoragePortGetAlert(r)
  PROVE  UNCHANGED <<flash, ulWrOffset>>
  BY DEF xDfmStoragePortGetAlert

-----------------------------------------------------------------------------
(* The steps of the device.                                                *)

DevInv == SentInv /\ (~FlashFaults => Kept /\ Gapless)

\* A boot starts a session that nothing is of.
LEMMA BootKeeps ==
  ASSUME DevInv, Boot
  PROVE  DevInv'
  <1>1. /\ pc = "off" /\ boot < MaxBoots /\ boot' = boot + 1
        /\ ulAlertCounter' = 0 /\ pc' \in {"getalert", "reset"}
        /\ ulWrOffset' = 0 /\ accepted' = {} /\ UNCHANGED <<flash, ended>>
    BY DEF Boot, xDfmStoragePortInitialize
  <1>2. Types'
    BY <1>1, DeviceAssumption DEF DevInv, SentInv, Types, Places
  <1>3. /\ \A c \in flash : c.state = "whole" => c.entry.session \in Nat
        /\ \A r \in ended : r.session \in Nat
    BY DEF DevInv, SentInv, Types, CellType, Entry, EndedType
  <1>4. Recent'
    BY <1>1, <1>3 DEF DevInv, SentInv, Types, Recent, Uploading
  <1>5. NotBoth'
    BY <1>1 DEF DevInv, SentInv, NotBoth
  <1>6. Kept'
    BY <1>1, <1>3 DEF DevInv, SentInv, Types, Recent, Kept
  <1>7. Gapless'
    BY <1>1, <1>3 DEF DevInv, SentInv, Types, Recent, Gapless
  <1> QED
    BY <1>2, <1>4, <1>5, <1>6, <1>7 DEF DevInv, SentInv

\* The upload reads.
LEMMA GetKeeps ==
  ASSUME DevInv, GetAlert \/ GetPayload
  PROVE  DevInv'
  <1>1. /\ pc \in Uploading /\ pc' \in Uploading
        /\ UNCHANGED <<flash, ulWrOffset, boot, ulAlertCounter, ulDfmInitialized, ended, accepted>>
    BY ReadFacts DEF GetAlert, GetPayload, ram, Uploading
  <1>2. pc' \in Places /\ pc # "off" /\ pc' # "process" /\ pc' # "off"
    BY <1>1 DEF Uploading, Places
  <1>3. Types' /\ Recent' /\ NotBoth'
    BY <1>1, <1>2 DEF DevInv, SentInv, Types, Recent, NotBoth, CellType
  <1>4. Kept /\ Gapless => Kept' /\ Gapless'
    BY <1>1, <1>2 DEF Kept, Gapless, Upto, Stored
  <1> QED
    BY <1>1, <1>3, <1>4 DEF DevInv, SentInv

\* The erase after it meets nothing that this boot has stored.
LEMMA EraseKeeps ==
  ASSUME DevInv, EraseStored
  PROVE  DevInv'
  <1>1. /\ pc = "reset" /\ pc' = "running"
        /\ UNCHANGED <<ulWrOffset, boot, ulAlertCounter, ulDfmInitialized, ended, accepted>>
    BY DEF EraseStored, xDfmStoragePortReset, ram, seen
  <1>2. flash' \subseteq CellType /\ \A c \in flash' : c.state = "whole" => c \in flash
    BY ErasedBelowLess DEF DevInv, SentInv, Types, EraseStored, xDfmStoragePortReset
  <1>3. Types'
    BY <1>1, <1>2 DEF DevInv, SentInv, Types, Places
  <1>4. Recent' /\ NotBoth'
    BY <1>1, <1>2 DEF DevInv, SentInv, Recent, NotBoth, Uploading
  <1>5. \A r \in ended : r.session # boot
    BY <1>1 DEF DevInv, SentInv, Types, Recent, Uploading, EndedType
  <1>6. ASSUME Kept PROVE Kept'
    BY <1>1, <1>2, <1>6 DEF Kept, Uploading
  <1>7. Gapless'
    BY <1>1, <1>5 DEF Gapless
  <1> QED
    BY <1>3, <1>4, <1>6, <1>7 DEF DevInv, SentInv

\* A new alert is newer than anything there is.
LEMMA RaiseKeeps ==
  ASSUME DevInv, RaiseAlert \/ Crash
  PROVE  DevInv'
  <1>1. PICK end \in SUBSET {"SEND", "STORE"}, crash \in BOOLEAN : BeginAlert(end, crash)
    BY DeviceAssumption DEF RaiseAlert, Crash
  <1>2. /\ pc # "off" /\ pc' = "process" /\ ulDfmInitialized
        /\ ulAlertCounter' = ulAlertCounter + 1 /\ ulAlertCounter < MaxAlerts
        /\ job' = [part |-> 1, via |-> Via(end), end |-> end, crash |-> crash]
        /\ UNCHANGED <<flash, ulWrOffset, boot, ulDfmInitialized, ended, accepted>>
    BY <1>1 DEF BeginAlert, RaiseAlert, Crash, port, seen
  <1>3. job' \in JobType /\ job'.part = 1
    BY <1>2, PartsAssumption DEF JobType, Part, Via
  <1>4. Types'
    BY <1>2, <1>3, DeviceAssumption DEF DevInv, SentInv, Types, Places
  <1>5. /\ \A c \in flash : c.entry.alert \in Nat
        /\ \A r \in ended : r.alert \in Nat
    BY DEF DevInv, SentInv, Types, CellType, Entry, EndedType
  <1>6. Recent'
    BY <1>2, <1>5 DEF DevInv, SentInv, Types, Recent, Uploading
  <1>7. NotBoth'
    BY <1>2 DEF DevInv, SentInv, NotBoth
  <1>8. Kept => Kept'
    BY <1>2 DEF Kept, Stored, Uploading
  <1>9. ASSUME Kept, Gapless PROVE Gapless'
    <2>1. \A e \in accepted : e.alert < ulAlertCounter + 1
      <3> SUFFICES ASSUME NEW e \in accepted PROVE e.alert < ulAlertCounter + 1
        OBVIOUS
      <3>1. PICK c \in flash : c.entry = e /\ c.state = "whole" /\ e.session = boot
        BY <1>9 DEF Kept, Stored
      <3>2. e.alert <= ulAlertCounter /\ e.alert \in Nat
        BY <1>5, <3>1 DEF DevInv, SentInv, Recent
      <3>3. ulAlertCounter \in Nat
        BY DeviceAssumption DEF DevInv, SentInv, Types
      <3> QED
        BY <3>2, <3>3
    <2>2. Upto(ulAlertCounter, 0)'
      <3> SUFFICES ASSUME NEW p \in Part
                   PROVE  /\ PartOf([session |-> boot, alert |-> ulAlertCounter + 1], p) \notin accepted
                          /\ ~(p <= 0)
        BY <1>2 DEF Upto
      <3>1. PartOf([session |-> boot, alert |-> ulAlertCounter + 1], p).alert = ulAlertCounter + 1
        BY DEF PartOf
      <3>2. ulAlertCounter \in Nat
        BY DeviceAssumption DEF DevInv, SentInv, Types
      <3> QED
        BY <2>1, <3>1, <3>2 DEF Part
    <2>3. \A r \in ended : r.via = "STORE" /\ r.session = boot => \E n \in Part : Upto(r.alert, n)'
      BY <1>2, <1>9 DEF Gapless, Upto
    <2> QED
      BY <1>2, <1>3, <2>2, <2>3 DEF Gapless
  <1> QED
    BY <1>4, <1>6, <1>7, <1>8, <1>9 DEF DevInv, SentInv

\* What follows an entry: the next one, the other way of ending, or the end.
LEMMA AfterFacts ==
  ASSUME job \in JobType, pc = "process", NEW ok \in BOOLEAN, AfterEntry(ok)
  PROVE  \/ /\ pc' = "process" /\ ended' = ended /\ job' \in JobType
            /\ \/ /\ job'.via = job.via /\ job'.part = job.part + 1
                  /\ ok \/ job.part > 1
               \/ job.via = "SEND" /\ job'.via = "STORE" /\ job'.part = 1
         \/ pc' \in {"off", "running"} /\ ended' = ended
         \/ /\ pc' \in {"off", "running"} /\ (ok \/ job.part > 1)
            /\ ended' = ended \cup
                 {[session |-> boot, alert |-> ulAlertCounter, via |-> job.via]}
  <1>1. job.part \in Part /\ Part \subseteq Nat /\ (job.part # 1 => job.part > 1)
    BY DEF JobType, Part
  <1>2. CASE job.part = 1 /\ ~ok /\ job.via = "SEND" /\ "STORE" \in job.end
    <2>1. job' = [job EXCEPT !.via = "STORE"] /\ UNCHANGED <<pc, ended>>
      BY <1>2 DEF AfterEntry
    <2>2. job' \in JobType /\ job'.via = "STORE" /\ job'.part = 1
      BY <2>1, <1>2 DEF JobType
    <2> QED
      BY <2>1, <2>2, <1>2
  <1>3. CASE job.part = 1 /\ ~ok /\ ~(job.via = "SEND" /\ "STORE" \in job.end)
    BY <1>3 DEF AfterEntry, EndAlert
  <1>4. CASE ~(job.part = 1 /\ ~ok) /\ job.part < Len(Parts)
    <2>1. job' = [job EXCEPT !.part = job.part + 1] /\ UNCHANGED <<pc, ended>>
      BY <1>4 DEF AfterEntry
    <2>2. Len(Parts) \in Nat /\ job.part + 1 \in Part
      BY <1>1, <1>4, PartsAssumption DEF Part
    <2>3. job' \in JobType /\ job'.via = job.via /\ job'.part = job.part + 1
      BY <2>1, <2>2 DEF JobType
    <2> QED
      BY <2>1, <2>3, <1>1, <1>4
  <1>5. CASE ~(job.part = 1 /\ ~ok) /\ ~(job.part < Len(Parts))
    BY <1>1, <1>5 DEF AfterEntry, EndAlert
  <1> QED
    BY <1>2, <1>3, <1>4, <1>5

\* The entry at work is an entry of the newest alert.
LEMMA NextEntryFacts ==
  ASSUME Types, pc = "process"
  PROVE  /\ NextEntry \in Entry
         /\ NextEntry.session = boot /\ NextEntry.alert = ulAlertCounter
         /\ NextEntry.part = job.part
         /\ AlertOf(NextEntry) = [session |-> boot, alert |-> ulAlertCounter]
  BY DeviceAssumption DEF Types, JobType, NextEntry, Entry, AlertOf, Places

\* An entry is sent: an alert that ends this way was never in flash.
LEMMA SendKeeps ==
  ASSUME DevInv, SendEntry
  PROVE  DevInv'
  <1>1. PICK ok \in BOOLEAN : AfterEntry(ok)
    BY DEF SendEntry
  <1>2. /\ pc = "process" /\ job.via = "SEND"
        /\ UNCHANGED <<flash, ulWrOffset, boot, ulAlertCounter, ulDfmInitialized, accepted>>
    BY DEF SendEntry, port
  <1>3. Types /\ Recent /\ NotBoth /\ job \in JobType
    BY <1>2 DEF DevInv, SentInv, Types
  <1> DEFINE new == [session |-> boot, alert |-> ulAlertCounter, via |-> job.via]
  <1>4. new \in EndedType /\ new.session = boot /\ new.alert = ulAlertCounter /\ new.via = "SEND"
    BY <1>2, <1>3, DeviceAssumption DEF Types, EndedType
  <1>5. \/ pc' = "process" /\ ended' = ended /\ job' \in JobType
           /\ (job'.via = "SEND" \/ job'.part = 1)
        \/ /\ pc' \in {"off", "running"} /\ (ended' = ended \/ ended' = ended \cup {new})
    BY <1>1, <1>2, <1>3, AfterFacts
  <1> HIDE DEF new
  <1>6. Types'
    BY <1>2, <1>3, <1>4, <1>5 DEF Types, Places
  <1>7. /\ \A c \in flash : c.state = "whole" => c.entry.alert \in Nat /\ c.entry.session \in Nat
        /\ ulAlertCounter \in Nat /\ boot \in Nat
    BY <1>3, DeviceAssumption DEF Types, CellType, Entry
  <1>8. Recent'
    BY <1>2, <1>3, <1>4, <1>5, <1>7 DEF Recent, Uploading
  <1>9. NotBoth'
    <2>1. \A c \in flash : c.state = "whole" => AlertOf(c.entry) # AlertOf(new)
      BY <1>2, <1>3, <1>4, <1>7 DEF Recent, AlertOf
    <2> QED
      BY <1>2, <1>3, <1>5, <2>1 DEF NotBoth
  <1>10. Kept => Kept'
    BY <1>2, <1>5 DEF Kept, Stored, Uploading
  <1>11. ASSUME Kept, Gapless PROVE Gapless'
    <2>1. \A r \in ended' : r \in ended \/ r = new
      BY <1>5
    <2>2. pc' = "process" => job'.via = "SEND" \/ job'.part = 1
      BY <1>5
    <2>3. \A e \in accepted : e.alert # ulAlertCounter
      BY <1>2, <1>3, <1>7, <1>11 DEF Kept, Stored, Recent
    <2>4. Upto(ulAlertCounter, 0)'
      <3>1. \A p \in Part : PartOf([session |-> boot, alert |-> ulAlertCounter], p).alert = ulAlertCounter
        BY DEF PartOf
      <3> QED
        BY <1>2, <2>3, <3>1 DEF Upto, Part
    <2>5. \A r \in ended : r.via = "STORE" /\ r.session = boot => \E n \in Part : Upto(r.alert, n)'
      BY <1>2, <1>11 DEF Gapless, Upto
    <2>6. \A r \in ended' : r.via = "STORE" => r \in ended
      BY <1>4, <2>1
    <2>7. pc' = "process" /\ job'.via = "STORE" => 0 < job'.part /\ ~(job'.part > 1) /\ 0 = job'.part - 1
      BY <2>2
    <2> QED
      BY <1>2, <2>4, <2>5, <2>6, <2>7 DEF Gapless
  <1> QED
    BY <1>6, <1>8, <1>9, <1>10, <1>11, <1>2 DEF DevInv, SentInv

\* An entry is stored: it is the newest there is, and nothing stored in this
\* boot is erased for it.
LEMMA StoreKeeps ==
  ASSUME DevInv, StoreEntry
  PROVE  DevInv'
  <1>1. PICK ok \in BOOLEAN :
          /\ xDfmStorageStore(NextEntry, ok) /\ AfterEntry(ok)
          /\ accepted' = IF ok THEN accepted \cup {NextEntry} ELSE accepted
    BY DEF StoreEntry
  <1>2. /\ pc = "process" /\ job.via = "STORE"
        /\ UNCHANGED <<boot, ulAlertCounter, ulDfmInitialized>>
    BY DEF StoreEntry
  <1>3. Types /\ Recent /\ NotBoth /\ job \in JobType
    BY <1>2 DEF DevInv, SentInv, Types
  <1>4. /\ flash' \subseteq CellType /\ ulWrOffset' \in Nat
        /\ \A c \in flash' : c.state = "whole" => c \in flash \/ (ok /\ c.entry = NextEntry)
        /\ ulWrOffset # 0 => flash \subseteq flash' /\ ulWrOffset' # 0
        /\ ok /\ ~FlashFaults =>
             ulWrOffset' # 0 /\ \E c \in flash' : c.entry = NextEntry /\ c.state = "whole"
        /\ ok => ~Closed
        /\ ~ok /\ ~FlashFaults => Closed'
    <2>1. flash \subseteq CellType /\ ulWrOffset \in Nat
      BY <1>3 DEF Types
    <2> QED
      BY <1>1, <1>2, <1>3, <2>1, NextEntryFacts, StoreFacts
  <1> DEFINE new == [session |-> boot, alert |-> ulAlertCounter, via |-> job.via]
  <1>5. new \in EndedType /\ new.session = boot /\ new.alert = ulAlertCounter /\ new.via = "STORE"
    BY <1>2, <1>3, DeviceAssumption DEF Types, EndedType
  <1>6. \/ pc' = "process" /\ ended' = ended /\ job' \in JobType
           /\ job'.via = "STORE" /\ job'.part = job.part + 1 /\ (ok \/ job.part > 1)
        \/ pc' \in {"off", "running"} /\ ended' = ended
        \/ pc' \in {"off", "running"} /\ (ok \/ job.part > 1) /\ ended' = ended \cup {new}
    BY <1>1, <1>2, <1>3, AfterFacts
  <1> HIDE DEF new
  <1>7. Types'
    <2>1. accepted' \subseteq Entry
      BY <1>1, <1>2, <1>3, NextEntryFacts DEF Types
    <2> QED
      BY <1>2, <1>3, <1>4, <1>5, <1>6, <2>1 DEF Types, Places
  <1>8. /\ NextEntry.session = boot /\ NextEntry.alert = ulAlertCounter
        /\ AlertOf(NextEntry) = AlertOf(new)
        /\ ulAlertCounter \in Nat /\ boot \in Nat
    BY <1>2, <1>3, <1>5, NextEntryFacts, DeviceAssumption DEF Types, AlertOf
  <1>9. Recent'
    BY <1>2, <1>3, <1>4, <1>5, <1>6, <1>8 DEF Recent, Uploading
  <1>10. NotBoth'
    <2>1. \A r \in ended : AlertOf(r) # AlertOf(new)
      BY <1>2, <1>3, <1>5, <1>8 DEF Recent, Types, EndedType, AlertOf
    <2>2. \A r \in ended' : r.via = "SEND" => r \in ended
      BY <1>5, <1>6
    <2> QED
      BY <1>3, <1>4, <1>8, <2>1, <2>2 DEF NotBoth
  <1>11. ASSUME ~FlashFaults, Kept PROVE Kept'
    <2>1. ASSUME NEW e \in accepted' PROVE e.session = boot /\ Stored(e)' /\ ulWrOffset' # 0
      <3>1. CASE e \in accepted
        BY <1>2, <1>4, <1>11, <3>1 DEF Kept, Stored
      <3>2. CASE ok /\ e = NextEntry
        BY <1>4, <1>8, <1>11, <3>2 DEF Stored
      <3> QED
        BY <1>1, <2>1, <3>1, <3>2
    <2>2. ASSUME NEW c \in flash', c.state = "whole", c.entry.session = boot
          PROVE  c.entry \in accepted'
      BY <1>1, <1>4, <1>11, <2>2 DEF Kept
    <2>3. pc' \notin Uploading
      BY <1>6 DEF Uploading
    <2> QED
      BY <1>2, <2>1, <2>2, <2>3 DEF Kept
  <1>12. ASSUME ~FlashFaults, Gapless PROVE Gapless'
    <2>1. PICK n \in Nat : /\ Upto(ulAlertCounter, n)
                           /\ n < job.part /\ (job.part > 1 => n > 0)
                           /\ n = job.part - 1 \/ Closed
      BY <1>2, <1>12 DEF Gapless
    <2>2. job.part \in Part /\ job.part \in Nat /\ Part \subseteq Nat
      BY <1>3 DEF JobType, Part
    <2>3. NextEntry = PartOf([session |-> boot, alert |-> ulAlertCounter], job.part)
      BY DEF NextEntry, PartOf
    <2>4. ok => n = job.part - 1
      BY <1>4, <2>1
    <2>5. PICK m \in Nat : m = IF ok THEN job.part ELSE n
      BY <2>2
    <2>6. \A p, q \in Part : PartOf([session |-> boot, alert |-> ulAlertCounter], p) =
                             PartOf([session |-> boot, alert |-> ulAlertCounter], q) => p = q
      BY DEF PartOf
    <2>7. Upto(ulAlertCounter, m)'
      <3>1. ASSUME NEW p \in Part
            PROVE  PartOf([session |-> boot, alert |-> ulAlertCounter], p) \in accepted' <=> p <= m
        <4>1. PartOf([session |-> boot, alert |-> ulAlertCounter], p) \in accepted <=> p <= n
          BY <2>1 DEF Upto
        <4>2. CASE ok
          <5>1. p <= m <=> (p <= n \/ p = job.part)
            BY <2>2, <2>5, <2>4, <4>2
          <5> QED
            BY <1>1, <2>2, <2>3, <2>6, <4>1, <4>2, <5>1
        <4>3. CASE ~ok
          BY <1>1, <2>5, <4>1, <4>3
        <4> QED
          BY <4>2, <4>3
      <3> QED
        BY <1>2, <3>1 DEF Upto
    <2>8. /\ m < job.part + 1
          /\ ok \/ job.part > 1 => m > 0 /\ m \in Part
      <3>1. Len(Parts) \in Nat /\ 1 <= job.part /\ job.part <= Len(Parts)
        BY <2>2, PartsAssumption DEF Part
      <3>2. CASE ok
        BY <2>2, <2>5, <3>1, <3>2
      <3>3. CASE ~ok
        BY <2>1, <2>2, <2>5, <3>1, <3>3 DEF Part
      <3> QED
        BY <3>2, <3>3
    <2>9. ok => m = job.part
      BY <2>5
    <2>10. ~ok => Closed'
      BY <1>4, <1>12
    <2>11. ASSUME NEW r \in ended, r.via = "STORE", r.session = boot
          PROVE  \E k \in Part : Upto(r.alert, k)'
      <3>1. PICK k \in Part : Upto(r.alert, k)
        BY <1>12, <2>11 DEF Gapless
      <3>2. r.alert # ulAlertCounter
        BY <1>2, <1>3, <1>8, <2>11 DEF Recent, Types, EndedType
      <3>3. \A p \in Part : PartOf([session |-> boot, alert |-> r.alert], p) # NextEntry
        <4>1. \A p \in Part : PartOf([session |-> boot, alert |-> r.alert], p).alert = r.alert
          BY DEF PartOf
        <4> QED
          BY <1>8, <3>2, <4>1
      <3>4. Upto(r.alert, k)'
        BY <1>1, <1>2, <3>1, <3>3 DEF Upto
      <3> QED
        BY <3>4
    <2>12. ASSUME NEW r \in ended', r.via = "STORE", r.session = boot
          PROVE  \E k \in Part : Upto(r.alert, k)'
      <3>1. CASE r \in ended
        BY <2>11, <2>12, <3>1
      <3>2. CASE r = new /\ (ok \/ job.part > 1)
        <4>1. r.alert = ulAlertCounter /\ ulAlertCounter' = ulAlertCounter
          BY <1>2, <1>5, <3>2
        <4>2. Upto(r.alert, m)'
          BY <2>7, <4>1 DEF Upto
        <4> QED
          BY <2>8, <3>2, <4>2
      <3> QED
        BY <1>6, <2>12, <3>1, <3>2
    <2>13. pc' = "process" =>
             /\ m < job'.part /\ (job'.part > 1 => m > 0)
             /\ m = job'.part - 1 \/ Closed'
      <3>1. pc' = "process" => job'.part = job.part + 1 /\ (ok \/ job.part > 1)
        BY <1>6
      <3>2. pc' = "process" => m < job'.part /\ (job'.part > 1 => m > 0)
        BY <2>8, <3>1
      <3>3. pc' = "process" => m = job'.part - 1 \/ Closed'
        <4>1. ok /\ pc' = "process" => m = job'.part - 1
          BY <2>2, <2>9, <3>1
        <4>2. ok \/ ~ok
          OBVIOUS
        <4> QED
          BY <2>10, <4>1, <4>2, Zenon
      <3> QED
        BY <3>2, <3>3
    <2> QED
      BY <1>2, <2>7, <2>8, <2>12, <2>13 DEF Gapless
  <1> QED
    BY <1>7, <1>9, <1>10, <1>11, <1>12 DEF DevInv, SentInv

\* The device goes off.  No whole entry comes of it, and what this boot has
\* stored is still there.
LEMMA OffKeeps ==
  ASSUME DevInv, pc' = "off", UNCHANGED <<boot, ulAlertCounter, ended, accepted>>,
         ulWrOffset' \in Nat, flash' \subseteq CellType,
         \A c \in flash' : c.state = "whole" => c \in flash,
         flash \subseteq flash' \/ FlashFaults \/ accepted = {}
  PROVE  DevInv'
  <1>1. Types' /\ Recent' /\ NotBoth'
    BY DEF DevInv, SentInv, Types, Recent, NotBoth, Uploading, Places
  <1>2. ASSUME ~FlashFaults, Kept, Gapless PROVE Kept' /\ Gapless'
    BY <1>2 DEF Kept, Gapless, Upto, Stored, Uploading
  <1> QED
    BY <1>1, <1>2 DEF DevInv, SentInv

\* Wherever power fails, in the erase at startup, in the erase before the
\* first write, while an entry is programmed or anywhere else.
LEMMA PowerOffKeeps ==
  ASSUME DevInv, PowerOff
  PROVE  DevInv'
  <1>1. pc' = "off" /\ UNCHANGED <<boot, ulAlertCounter, ended, accepted>>
    BY DEF PowerOff, seen
  <1>2. flash \subseteq CellType /\ Types
    BY DEF DevInv, SentInv, Types
  <1>3. CASE PowerCycle
    <2>1. UNCHANGED flash /\ ulWrOffset' = 0
      BY <1>3 DEF PowerCycle, xDfmStoragePortInitialize
    <2> QED
      BY <1>1, <1>2, <2>1, OffKeeps
  <1>4. CASE TornErase /\ (pc = "reset" \/ (pc = "process" /\ ulWrOffset = 0))
    <2>1. PICK cut \in Cuts : flash' = ErasedBelow(cut) /\ ulWrOffset' = 0
      BY <1>4 DEF TornErase
    <2>2. flash' \subseteq CellType /\ \A c \in flash' : c.state = "whole" => c \in flash
      BY <1>2, <2>1, ErasedBelowLess
    <2>3. FlashFaults \/ accepted = {}
      BY <1>4 DEF DevInv, Kept, Uploading
    <2> QED
      BY <1>1, <2>1, <2>2, <2>3, OffKeeps
  <1>5. CASE pc = "process" /\ TornWrite(NextEntry)
    <2>1. PICK s \in {"torn", "headless"} :
            flash' = WriteBase \cup {Cell(ulWrOffset, NextEntry, s)} /\ ulWrOffset' = 0
      BY <1>5 DEF TornWrite, Partial
    <2>2. s \in CellStates
      BY DEF CellStates
    <2>3. /\ Cell(ulWrOffset, NextEntry, s) \in CellType
          /\ Cell(ulWrOffset, NextEntry, s).state = s
      BY <1>2, <1>5, <2>2, CellFacts, NextEntryFacts DEF Types
    <2>4. WriteBase \subseteq flash /\ (ulWrOffset # 0 => WriteBase = flash)
      BY DEF WriteBase
    <2>5. flash' \subseteq CellType /\ \A c \in flash' : c.state = "whole" => c \in flash
      BY <1>2, <2>1, <2>3, <2>4
    <2>6. flash \subseteq flash' \/ FlashFaults \/ accepted = {}
      BY <1>5, <2>1, <2>4 DEF DevInv, Kept
    <2> QED
      BY <1>1, <2>1, <2>5, <2>6, OffKeeps
  <1>6. \/ PowerCycle
        \/ TornErase /\ (pc = "reset" \/ (pc = "process" /\ ulWrOffset = 0))
        \/ pc = "process" /\ TornWrite(NextEntry)
    BY DEF PowerOff
  <1> QED
    BY <1>3, <1>4, <1>5, <1>6

-----------------------------------------------------------------------------
(* The invariant and what it says.                                         *)

\* DevInv is inductive.
LEMMA DevInvInductive == SpecDevice => []DevInv
  <1>1. InitDevice => DevInv
    <2> SUFFICES ASSUME InitDevice PROVE DevInv
      OBVIOUS
    <2>1. /\ pc = "off" /\ boot = 0 /\ ulAlertCounter = 0 /\ ended = {} /\ ulWrOffset = 0
          /\ accepted = {} /\ flash \in FlashImages
      BY DEF InitDevice, Init
    <2>2. flash \subseteq CellType /\ \A c \in flash : c.state # "whole"
      <3>1. CASE flash = {}
        BY <3>1
      <3>2. CASE \E e \in Entry : flash = {Cell(0, e, "headless")}
        BY <3>2, CellFacts DEF CellStates
      <3> QED
        BY <2>1, <3>1, <3>2 DEF FlashImages
    <2>3. Types /\ Recent /\ NotBoth /\ Kept /\ Gapless
      BY <2>1, <2>2, DeviceAssumption DEF Types, Places, Recent, Uploading, NotBoth, Kept, Gapless
    <2> QED
      BY <2>3 DEF DevInv, SentInv
  <1>2. DevInv /\ [NextDevice]_vars => DevInv'
    <2> SUFFICES ASSUME DevInv, [NextDevice]_vars PROVE DevInv'
      OBVIOUS
    <2>1. CASE CrashIgnored
      <3>1. pc' = "off" /\ UNCHANGED <<flash, ulWrOffset, boot, ulAlertCounter, ended, accepted>>
        BY <2>1 DEF CrashIgnored, port, ram, seen
      <3> QED
        BY <3>1, OffKeeps DEF DevInv, SentInv, Types
    <2>2. CASE UNCHANGED vars
      BY <2>2 DEF vars, port, ram, seen, DevInv, SentInv, Types, Recent, NotBoth, Kept, Gapless,
                  Upto, Closed, Stored
    <2> QED
      BY <2>1, <2>2, BootKeeps, GetKeeps, EraseKeeps, RaiseKeeps, SendKeeps, StoreKeeps,
         PowerOffKeeps DEF NextDevice, Upload, Halted
  <1> QED
    BY <1>1, <1>2, PTL DEF SpecDevice

\* An alert that was sent when it was raised is not in flash, and no alert
\* ends both ways (xDfmAlertEndCustom): whatever the network, the flash and
\* the power do, and wherever the fault handler interrupts the task.
THEOREM SentIsNotStored == SpecDevice => []SentAlertIsNotStored
  <1>1. DevInv => SentAlertIsNotStored
    <2> SUFFICES ASSUME DevInv, NEW r \in ended, r.via = "SEND", NEW p \in Part,
                        NEW c \in flash, c.entry = PartOf(AlertOf(r), p), c.state = "whole"
                 PROVE  FALSE
      BY DEF SentAlertIsNotStored, Stored
    <2>1. AlertOf(c.entry) = AlertOf(r)
      BY DEF AlertOf, PartOf
    <2> QED
      BY <2>1 DEF DevInv, SentInv, NotBoth
  <1> QED
    BY <1>1, DevInvInductive, PTL

\* As long as the flash works, an entry whose store returned DFM_SUCCESS is
\* whole in flash until the next boot: no later store, fault or loss of power
\* reaches it.
THEOREM StoredEntriesSurvive ==
  ASSUME ~FlashFaults
  PROVE  SpecDevice => []StoredEntriesSurviveTheirBoot
  <1>1. DevInv => StoredEntriesSurviveTheirBoot
    BY DEF DevInv, Kept, StoredEntriesSurviveTheirBoot
  <1> QED
    BY <1>1, DevInvInductive, PTL

\* As long as the flash works, what is in flash of an alert that xDfmAlertEnd
\* reported as stored is its entries up to some part, the alert entry at
\* least: entries that were refused leave no gap, for any number of payloads.
THEOREM StoredWithoutGap ==
  ASSUME ~FlashFaults
  PROVE  SpecDevice => []StoredAlertHasNoGap
  <1>1. DevInv => StoredAlertHasNoGap
    <2> SUFFICES ASSUME DevInv, NEW r \in ended, r.via = "STORE", r.session = boot
                 PROVE  \E n \in Part : \A p \in Part :
                          Stored(PartOf(AlertOf(r), p)) <=> p <= n
      BY DEF StoredAlertHasNoGap
    <2>1. PICK n \in Part : Upto(r.alert, n)
      BY DEF DevInv, Gapless
    <2>2. \A p \in Part : PartOf(AlertOf(r), p) \in accepted <=> p <= n
      BY <2>1 DEF Upto, AlertOf
    <2>3. \A p \in Part : PartOf(AlertOf(r), p).session = boot
      BY DEF PartOf, AlertOf
    <2>4. \A p \in Part : Stored(PartOf(AlertOf(r), p)) <=> PartOf(AlertOf(r), p) \in accepted
      BY <2>3 DEF DevInv, Kept, Stored
    <2> QED
      BY <2>2, <2>4
  <1> QED
    BY <1>1, DevInvInductive, PTL
=============================================================================
