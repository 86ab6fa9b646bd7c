-------------------------- MODULE DeviceUploadProofs --------------------------
(***************************************************************************)
(* More proofs about StoredAlerts, for every value of its constants, flash *)
(* faults included:                                                        *)
(*   - the device uses the flash port only as the port lets a client use   *)
(*     it, so that SpecDevice implements FlashStoragePort's Spec;          *)
(*   - the cloud can attribute every payload entry it receives.            *)
(*                                                                         *)
(* The second rests on the order of the entries in flash: the entries of   *)
(* an alert that can be read back lie there in the order of their parts    *)
(* (Ordered), because each is written behind everything that is there.     *)
(***************************************************************************)
EXTENDS StoredAlertsProofs

-----------------------------------------------------------------------------
(* The device as a client of the port.                                     *)

\* The device calls the port only in ways the port allows any client.
LEMMA PortStep ==
  ASSUME Types, [NextDevice]_vars
  PROVE  [Next]_portVars
  <1>1. CASE Boot
    BY <1>1 DEF Boot, PowerCycle, LosePower, Next
  <1>2. CASE GetAlert \/ GetPayload
    BY <1>2 DEF GetAlert, GetPayload, Get, Next
  <1>3. CASE EraseStored
    BY <1>3 DEF EraseStored, Reset, Next
  <1>4. CASE StoreEntry
    BY <1>4, NextEntryFacts DEF StoreEntry, Store, Next
  <1>5. CASE PowerOff
    BY <1>5, NextEntryFacts DEF PowerOff, LosePower, Next
  <1>6. CASE RaiseAlert \/ Crash \/ CrashIgnored \/ SendEntry \/ Halted \/ UNCHANGED vars
    <2>1. UNCHANGED port
      BY <1>6 DEF RaiseAlert, Crash, BeginAlert, CrashIgnored, SendEntry, Halted, vars
    <2> QED
      BY <2>1 DEF port, portVars
  <1> QED
    BY <1>1, <1>2, <1>3, <1>4, <1>5, <1>6 DEF NextDevice, Upload

\* The device implements the port's specification: what holds of the flash
\* under any client (PortLayout) holds under alerts, uploads and the erase of
\* main.c.
THEOREM DeviceUsesPort == SpecDevice => Spec
  <1>1. InitDevice => Init
    BY DEF InitDevice
  <1>2. DevInv /\ [NextDevice]_vars => [Next]_portVars
    BY PortStep DEF DevInv, SentInv
  <1> QED
    BY <1>1, <1>2, DevInvInductive, PTL DEF SpecDevice, Spec

-----------------------------------------------------------------------------
(* What is in flash and what is in the cloud.                              *)

\* A cell whose length fields can be read.
Legible(c) == c.state \in {"whole", "torn"}

\* Everything lies below the write offset.
Behind == ulWrOffset # 0 => \A c \in flash : c.at < ulWrOffset

\* The entries of an alert lie in the order of their parts.
InOrder ==
  \A c, d \in flash :
    Legible(c) /\ Legible(d) /\ AlertOf(c.entry) = AlertOf(d.entry) /\ c.at < d.at
      => c.entry.part < d.entry.part

\* Nothing is newer than the entry at work.
Older ==
  \A c \in flash :
    Legible(c) =>
      /\ c.entry.session <= boot
      /\ c.entry.session = boot =>
           /\ c.entry.alert <= ulAlertCounter
           /\ pc = "process" /\ c.entry.alert = ulAlertCounter
                => job.via = "STORE" /\ c.entry.part < job.part

Ordered == Behind /\ InOrder /\ Older

Delivered == [ok : BOOLEAN, entry : Entry, intact : {TRUE}]
LastEntry == cloud[Len(cloud)].entry

\* What came last is what the next payload belongs to, and it lies in front of
\* what is read next.
Following ==
  /\ cloud \in Seq(Delivered)
  /\ PayloadFollowsItsAlert
  /\ pc = "getpayload" =>
       /\ cloud # <<>> /\ AlertOf(LastEntry) = current
       /\ \E c \in flash : Legible(c) /\ c.entry = LastEntry /\ c.at < ulRdOffset
  /\ pc = "process" /\ job.via = "SEND" /\ job.part > 1 =>
       /\ cloud # <<>> /\ LastEntry.part < job.part
       /\ AlertOf(LastEntry) = [session |-> boot, alert |-> ulAlertCounter]

UploadInv == Ordered /\ Following

-----------------------------------------------------------------------------
(* Lemmas about the operations of the port.                                *)

\* A page erase that stops early moves nothing and makes nothing legible.
LEMMA ErasedBelowKeepsPlaces ==
  ASSUME flash \subseteq CellType, NEW cut
  PROVE  /\ \A c \in ErasedBelow(cut) : \E d \in flash : c.at = d.at
         /\ \A c \in ErasedBelow(cut) : Legible(c) => c \in flash
  <1>1. \A d \in flash : /\ [d EXCEPT !.state = "residue"].at = d.at
                         /\ [d EXCEPT !.state = "residue"].state = "residue"
    BY DEF CellType
  <1> QED
    BY <1>1 DEF ErasedBelow, Legible

\* A store, also one that fails, leaves the legible cells that were there and
\* at most one more, behind all of them, and then it reports success.
LEMMA StorePlaces ==
  ASSUME flash \subseteq CellType, ulWrOffset \in Nat, Behind,
         NEW e \in Entry, NEW ok \in BOOLEAN, xDfmStorageStore(e, ok)
  PROVE  /\ Behind'
         /\ \/ \A c \in flash' : Legible(c) => c \in flash
            \/ /\ ok
               /\ \E n \in flash' :
                    /\ n.entry = e
                    /\ \A c \in flash' : c = n \/ (c \in flash /\ c.at < n.at)
  <1>1. CASE UNCHANGED <<flash, ulWrOffset>> /\ ~ok
    BY <1>1 DEF Behind
  <1>2. CASE ulWrOffset = 0 /\ ~ok /\ xDfmStoragePortReset(FALSE)
    <2>1. PICK cut \in Cuts : flash' = ErasedBelow(cut)
      BY <1>2 DEF xDfmStoragePortReset
    <2>2. ulWrOffset' = 0
      BY <1>2 DEF xDfmStoragePortReset
    <2> QED
      BY <2>1, <2>2, ErasedBelowKeepsPlaces DEF Behind
  <1>3. CASE /\ ulWrOffset' = ulWrOffset + Span(Size[e])
             /\ IF Fits(ulWrOffset, e)
                THEN FLASH_write_at(WriteBase, ulWrOffset, e, ok)
                ELSE ~ok /\ flash' = WriteBase
    <2>1. ulWrOffset' \in Nat /\ ulWrOffset < ulWrOffset'
      BY <1>3, SpanPositive
    <2>2. WriteBase \subseteq flash /\ \A c \in WriteBase : c.at < ulWrOffset /\ c.at \in Nat
      BY DEF WriteBase, Behind, CellType
    <2>3. ASSUME ok, NEW s \in CellStates,
                 flash' = WriteBase \cup {Cell(ulWrOffset, e, s)}
          PROVE  /\ Behind'
                 /\ \E n \in flash' :
                      /\ n.entry = e
                      /\ \A c \in flash' : c = n \/ (c \in flash /\ c.at < n.at)
      <3> DEFINE n == Cell(ulWrOffset, e, s)
      <3>1. n.at = ulWrOffset /\ n.entry = e
        BY DEF Cell
      <3>2. flash' = WriteBase \cup {n}
        BY <2>3
      <3> HIDE DEF n
      <3> QED
        BY <3>1, <3>2, <2>1, <2>2 DEF Behind
    <2>4. CASE flash' = WriteBase
      BY <2>1, <2>2, <2>4 DEF Behind
    <2>5. \/ ok /\ \E s \in CellStates : flash' = WriteBase \cup {Cell(ulWrOffset, e, s)}
          \/ flash' = WriteBase
      BY <1>3 DEF FLASH_write_at, Partial, CellStates
    <2> QED
      BY <2>3, <2>4, <2>5
  <1> QED
    BY <1>1, <1>2, <1>3 DEF xDfmStorageStore, prvDfmStoragePortWrite

\* An intact entry that is read is in flash, in front of the next read.
LEMMA ReadPlaces ==
  ASSUME flash \subseteq CellType, NEW r, xDfmStoragePortGetAlert(r), r.intact
  PROVE  \E c \in flash : /\ Legible(c) /\ c.at = ulRdOffset /\ c.at < ulRdOffset'
                          /\ r = [ok |-> TRUE, entry |-> c.entry, intact |-> TRUE]
                          /\ c.entry \in Entry
  <1>1. PICK c \in Readable(ulRdOffset) :
          r = Found(c) /\ ulRdOffset' = ulRdOffset + Span(Size[c.entry])
    BY DEF xDfmStoragePortGetAlert, Unreadable, NotWritten
  <1>2. c \in flash /\ c.at = ulRdOffset /\ Legible(c) /\ c.at \in Nat /\ c.entry \in Entry
    BY <1>1 DEF Readable, Legible, CellType
  <1>3. c.at < ulRdOffset'
    BY <1>1, <1>2, SpanPositive
  <1>4. r = [ok |-> TRUE, entry |-> c.entry, intact |-> TRUE]
    BY <1>1 DEF Found
  <1> QED
    BY <1>2, <1>3, <1>4

-----------------------------------------------------------------------------
(* The order in flash.                                                     *)

\* It does not suffer from cells that disappear.
LEMMA OrderSurvives ==
  ASSUME Ordered, Behind',
         \A c \in flash' : Legible(c) => c \in flash,
         boot' \in Nat, boot \in Nat, boot' >= boot,
         boot' = boot => ulAlertCounter' = ulAlertCounter,
         \A c \in flash : c.entry.session \in Nat,
         pc' # "process"
  PROVE  Ordered'
  <1>1. InOrder'
    BY DEF Ordered, InOrder
  <1>2. Older'
    <2> SUFFICES ASSUME NEW c \in flash', Legible(c)
                 PROVE  /\ c.entry.session <= boot'
                        /\ c.entry.session = boot' => c.entry.alert <= ulAlertCounter'
      BY DEF Older
    <2>1. c \in flash /\ c.entry.session <= boot /\ c.entry.session \in Nat
      BY DEF Ordered, Older
    <2>2. c.entry.session = boot' => boot' = boot
      BY <2>1
    <2> QED
      BY <2>1, <2>2 DEF Ordered, Older
  <1> QED
    BY <1>1, <1>2 DEF Ordered

\* The steps that do not build entries.
LEMMA OrderedElsewhere ==
  ASSUME Types, Ordered,
         Boot \/ GetAlert \/ GetPayload \/ EraseStored \/ CrashIgnored
  PROVE  Ordered'
  <1>1. flash \subseteq CellType /\ \A c \in flash : c.entry.session \in Nat
    BY DEF Types, CellType, Entry
  <1>2. boot \in Nat
    BY DeviceAssumption DEF Types
  <1>3. CASE Boot
    <2>1. /\ ulWrOffset' = 0 /\ boot' = boot + 1 /\ UNCHANGED flash
          /\ pc' # "process"
      BY <1>3 DEF Boot, xDfmStoragePortInitialize
    <2>2. Behind'
      BY <2>1 DEF Behind
    <2> QED
      BY <1>1, <1>2, <2>1, <2>2, OrderSurvives
  <1>4. CASE GetAlert \/ GetPayload \/ CrashIgnored
    <2>1. /\ UNCHANGED <<flash, ulWrOffset, boot, ulAlertCounter>> /\ pc' # "process"
      BY <1>4, ReadFacts DEF GetAlert, GetPayload, CrashIgnored, ram, port
    <2>2. Behind'
      BY <2>1 DEF Ordered, Behind
    <2> QED
      BY <1>1, <1>2, <2>1, <2>2, OrderSurvives
  <1>5. CASE EraseStored
    <2>1. UNCHANGED <<ulWrOffset, boot, ulAlertCounter>> /\ pc' # "process"
      BY <1>5 DEF EraseStored, xDfmStoragePortReset, ram
    <2>2. flash' = {} \/ \E cut \in Cuts : flash' = ErasedBelow(cut)
      BY <1>5 DEF EraseStored, xDfmStoragePortReset
    <2>3. /\ \A c \in flash' : \E d \in flash : c.at = d.at
          /\ \A c \in flash' : Legible(c) => c \in flash
      BY <1>1, <2>2, ErasedBelowKeepsPlaces
    <2>4. Behind'
      BY <2>1, <2>3 DEF Ordered, Behind
    <2> QED
      BY <1>1, <1>2, <2>1, <2>3, <2>4, OrderSurvives
  <1> QED
    BY <1>3, <1>4, <1>5

\* A new alert has no entry in flash yet.
LEMMA OrderedAfterRaise ==
  ASSUME Types, Ordered, RaiseAlert \/ Crash
  PROVE  Ordered'
  <1>1. /\ pc' = "process" /\ ulAlertCounter' = ulAlertCounter + 1
        /\ UNCHANGED <<flash, ulWrOffset, boot>>
    BY DEF RaiseAlert, Crash, BeginAlert, port
  <1>2. \A c \in flash : c.entry.alert \in Nat
    BY DEF Types, CellType, Entry
  <1>3. ulAlertCounter \in Nat
    BY DeviceAssumption DEF Types
  <1>4. Older'
    BY <1>1, <1>2, <1>3 DEF Ordered, Older
  <1>5. Behind' /\ InOrder'
    BY <1>1 DEF Ordered, Behind, InOrder
  <1> QED
    BY <1>4, <1>5 DEF Ordered

\* Nothing of an alert is in flash while it is being sent.
LEMMA OrderedAfterSend ==
  ASSUME Types, Ordered, SendEntry
  PROVE  Ordered'
  <1>1. /\ pc = "process" /\ job.via = "SEND"
        /\ UNCHANGED <<flash, ulWrOffset, boot, ulAlertCounter>>
    BY DEF SendEntry, port
  <1>2. Older'
    BY <1>1 DEF Ordered, Older
  <1>3. Behind' /\ InOrder'
    BY <1>1 DEF Ordered, Behind, InOrder
  <1> QED
    BY <1>2, <1>3 DEF Ordered

\* An entry that is stored comes behind everything and is of the newest alert,
\* the part after those that are there.
LEMMA OrderedAfterStore ==
  ASSUME Types, Ordered, StoreEntry
  PROVE  Ordered'
  <1>1. PICK ok \in BOOLEAN : xDfmStorageStore(NextEntry, ok) /\ AfterEntry(ok)
    BY DEF StoreEntry
  <1>2. /\ pc = "process" /\ job.via = "STORE" /\ job \in JobType
        /\ UNCHANGED <<boot, ulAlertCounter>>
    BY DEF StoreEntry, Types
  <1>3. /\ flash \subseteq CellType /\ ulWrOffset \in Nat
        /\ boot \in Nat /\ ulAlertCounter \in Nat /\ job.part \in Nat
        /\ \A c \in flash : c.at \in Nat /\ c.entry.part \in Nat
    BY <1>2, DeviceAssumption DEF Types, JobType, Part, CellType, Entry
  <1>4. /\ NextEntry \in Entry /\ NextEntry.part = job.part
        /\ NextEntry.session = boot /\ NextEntry.alert = ulAlertCounter
    BY <1>2, NextEntryFacts
  <1>5. /\ Behind'
        /\ \/ \A c \in flash' : Legible(c) => c \in flash
           \/ /\ ok
              /\ \E n \in flash' :
                   /\ n.entry = NextEntry
                   /\ \A c \in flash' : c = n \/ (c \in flash /\ c.at < n.at)
    BY <1>1, <1>3, <1>4, StorePlaces DEF Ordered
  <1>6. pc' = "process" => job'.via = "STORE" /\ job'.part = job.part + 1
    BY <1>1, <1>2, AfterFacts
  <1>7. CASE \A c \in flash' : Legible(c) => c \in flash
    <2>1. InOrder'
      BY <1>7 DEF Ordered, InOrder
    <2>2. Older'
      BY <1>2, <1>3, <1>6, <1>7 DEF Ordered, Older
    <2> QED
      BY <1>5, <2>1, <2>2 DEF Ordered
  <1>8. CASE \E n \in flash' : /\ n.entry = NextEntry
                               /\ \A c \in flash' : c = n \/ (c \in flash /\ c.at < n.at)
    <2>1. PICK n \in flash' : /\ n.entry = NextEntry
                              /\ \A c \in flash' : c = n \/ (c \in flash /\ c.at < n.at)
      BY <1>8
    <2>2. n.at \in Nat
      <3>1. flash' \subseteq CellType
        BY <1>1, <1>3, <1>4, StoreFacts
      <3> QED
        BY <3>1 DEF CellType
    <2>3. InOrder'
      <3> SUFFICES ASSUME NEW c \in flash', NEW d \in flash', Legible(c), Legible(d),
                          AlertOf(c.entry) = AlertOf(d.entry), c.at < d.at
                   PROVE  c.entry.part < d.entry.part
        BY DEF InOrder
      <3>1. c # n
        BY <1>3, <2>1, <2>2
      <3>2. CASE d = n
        <4>1. c.entry.session = boot /\ c.entry.alert = ulAlertCounter
          BY <1>4, <2>1, <3>2 DEF AlertOf
        <4> QED
          BY <1>2, <1>4, <2>1, <3>1, <3>2, <4>1 DEF Ordered, Older
      <3>3. CASE d # n
        BY <2>1, <3>1, <3>3 DEF Ordered, InOrder
      <3> QED
        BY <3>2, <3>3
    <2>4. Older'
      BY <1>2, <1>3, <1>4, <1>6, <2>1 DEF Ordered, Older
    <2> QED
      BY <1>5, <2>3, <2>4 DEF Ordered
  <1> QED
    BY <1>5, <1>7, <1>8

\* Power fails: nothing more is legible, except an entry cut short, which
\* comes behind everything too.
LEMMA OrderedAfterPowerOff ==
  ASSUME Types, Ordered, PowerOff
  PROVE  Ordered'
  <1>1. pc' = "off" /\ UNCHANGED <<boot, ulAlertCounter>>
    BY DEF PowerOff
  <1>2. /\ flash \subseteq CellType /\ boot \in Nat
        /\ \A c \in flash : c.entry.session \in Nat
    BY DeviceAssumption DEF Types, CellType, Entry
  <1>3. CASE PowerCycle \/ TornErase
    <2>1. ulWrOffset' = 0 /\ (flash' = flash \/ \E cut \in Cuts : flash' = ErasedBelow(cut))
      BY <1>3 DEF PowerCycle, TornErase, xDfmStoragePortInitialize
    <2>2. \A c \in flash' : Legible(c) => c \in flash
      BY <1>2, <2>1, ErasedBelowKeepsPlaces
    <2>3. Behind'
      BY <2>1 DEF Behind
    <2> QED
      BY <1>1, <1>2, <2>2, <2>3, OrderSurvives
  <1>4. CASE pc = "process" /\ job.via = "STORE" /\ TornWrite(NextEntry)
    <2>1. PICK s \in {"torn", "headless"} :
            flash' = WriteBase \cup {Cell(ulWrOffset, NextEntry, s)} /\ ulWrOffset' = 0
      BY <1>4 DEF TornWrite, Partial
    <2> DEFINE n == Cell(ulWrOffset, NextEntry, s)
    <2>2. n.at = ulWrOffset /\ n.entry = NextEntry
      BY DEF Cell
    <2>3. flash' = WriteBase \cup {n}
      BY <2>1
    <2> HIDE DEF n
    <2>4. \A c \in flash' : c = n \/ (c \in flash /\ c.at < n.at /\ c.at \in Nat)
      BY <1>2, <2>2, <2>3 DEF WriteBase, Ordered, Behind, CellType
    <2>5. /\ NextEntry.part = job.part
          /\ NextEntry.session = boot /\ NextEntry.alert = ulAlertCounter
      BY <1>4, NextEntryFacts
    <2>6. ulWrOffset \in Nat /\ ulAlertCounter \in Nat
      BY DeviceAssumption DEF Types
    <2>7. InOrder'
      <3> SUFFICES ASSUME NEW c \in flash', NEW d \in flash', Legible(c), Legible(d),
                          AlertOf(c.entry) = AlertOf(d.entry), c.at < d.at
                   PROVE  c.entry.part < d.entry.part
        BY DEF InOrder
      <3>1. c # n
        BY <2>2, <2>4, <2>6
      <3>2. CASE d = n
        <4>1. c.entry.session = boot /\ c.entry.alert = ulAlertCounter
          BY <2>2, <2>5, <3>2 DEF AlertOf
        <4> QED
          BY <1>4, <2>2, <2>4, <2>5, <3>1, <3>2, <4>1 DEF Ordered, Older
      <3>3. CASE d # n
        BY <2>4, <3>1, <3>3 DEF Ordered, InOrder
      <3> QED
        BY <3>2, <3>3
    <2>8. Older'
      BY <1>1, <1>2, <2>2, <2>4, <2>5, <2>6 DEF Ordered, Older
    <2>9. Behind'
      BY <2>1 DEF Behind
    <2> QED
      BY <2>7, <2>8, <2>9 DEF Ordered
  <1> QED
    BY <1>3, <1>4 DEF PowerOff

-----------------------------------------------------------------------------
(* What the cloud receives.                                                *)

\* One more entry in the cloud: its order is right if the entry starts an
\* alert or continues the last one.
LEMMA OneMore ==
  ASSUME cloud \in Seq(Delivered), PayloadFollowsItsAlert,
         NEW x \in Delivered, cloud' = Append(cloud, x),
         x.entry.part > 1 =>
           /\ cloud # <<>> /\ AlertOf(LastEntry) = AlertOf(x.entry)
           /\ LastEntry.part < x.entry.part
  PROVE  /\ cloud' \in Seq(Delivered) /\ PayloadFollowsItsAlert'
         /\ cloud' # <<>> /\ LastEntry' = x.entry
  <1> DEFINE n == Len(cloud)
  <1> HIDE DEF Delivered
  <1>1. /\ n \in Nat /\ cloud' \in Seq(Delivered) /\ Len(cloud') = n + 1
        /\ cloud'[n + 1] = x /\ \A i \in 1 .. n : cloud'[i] = cloud[i]
        /\ DOMAIN cloud = 1 .. n /\ DOMAIN cloud' = 1 .. n + 1
    OBVIOUS
  <1>2. cloud # <<>> => n > 0
    OBVIOUS
  <1>3. cloud' # <<>> /\ LastEntry' = x.entry
    BY <1>1 DEF LastEntry
  <1>4. PayloadFollowsItsAlert'
    <2> SUFFICES ASSUME NEW i \in 1 .. n + 1, cloud'[i].entry.part > 1
                 PROVE  /\ i > 1
                        /\ AlertOf(cloud'[i - 1].entry) = AlertOf(cloud'[i].entry)
                        /\ cloud'[i - 1].entry.part < cloud'[i].entry.part
      BY <1>1 DEF PayloadFollowsItsAlert
    <2>1. CASE i \in 1 .. n
      <3>1. /\ i > 1 /\ cloud'[i] = cloud[i]
            /\ AlertOf(cloud[i - 1].entry) = AlertOf(cloud[i].entry)
            /\ cloud[i - 1].entry.part < cloud[i].entry.part
        BY <1>1, <2>1 DEF PayloadFollowsItsAlert
      <3>2. cloud'[i - 1] = cloud[i - 1]
        BY <1>1, <2>1, <3>1
      <3> QED
        BY <3>1, <3>2
    <2>2. CASE i = n + 1
      <3>1. /\ cloud # <<>> /\ AlertOf(cloud[n].entry) = AlertOf(x.entry)
            /\ cloud[n].entry.part < x.entry.part
        BY <1>1, <2>2 DEF LastEntry
      <3>2. n \in 1 .. n /\ i > 1 /\ i - 1 = n
        <4>1. n > 0 /\ n \in Nat
          BY <1>1, <1>2, <3>1
        <4> QED
          BY <2>2, <4>1
      <3>3. cloud'[n] = cloud[n]
        BY <1>1, <3>2
      <3> QED
        BY <1>1, <2>2, <3>1, <3>2, <3>3
    <2> QED
      BY <1>1, <2>1, <2>2
  <1> QED
    BY <1>1, <1>3, <1>4

\* The first turn of the upload sends an alert entry and remembers its alert.
LEMMA FollowingAfterGetAlert ==
  ASSUME Types, Following, GetAlert
  PROVE  Following'
  <1>1. PICK r \in Result :
          /\ xDfmStoragePortGetAlert(r)
          /\ IF r.ok /\ xDfmEntryCreateAlertFromBuffer(r)
             THEN \E ok \in BOOLEAN :
                    /\ Send(r, ok)
                    /\ pc' = IF ok THEN "getpayload" ELSE "reset"
                    /\ current' = IF ok THEN AlertOf(r.entry) ELSE current
             ELSE pc' = "reset" /\ UNCHANGED <<current, cloud>>
    BY DEF GetAlert
  <1>2. UNCHANGED flash
    BY <1>1, ReadFacts
  <1>3. CASE UNCHANGED cloud /\ pc' = "reset"
    BY <1>3 DEF Following, PayloadFollowsItsAlert
  <1>4. CASE /\ xDfmEntryCreateAlertFromBuffer(r) /\ cloud' = Append(cloud, r)
             /\ pc' = "getpayload" /\ current' = AlertOf(r.entry)
    <2>1. r.intact /\ TypeOf(r.entry) = "ALERT"
      BY <1>4 DEF xDfmEntryCreateAlertFromBuffer
    <2>2. PICK c \in flash : /\ Legible(c) /\ c.at < ulRdOffset'
                             /\ r = [ok |-> TRUE, entry |-> c.entry, intact |-> TRUE]
                             /\ c.entry \in Entry
      BY <1>1, <2>1, ReadPlaces DEF Types
    <2>3. r \in Delivered /\ r.entry = c.entry
      BY <2>2 DEF Delivered
    <2>4. r.entry.part = 1
      BY <2>1, <2>2, <2>3, PartsAssumption DEF TypeOf, Entry
    <2>5. /\ cloud' \in Seq(Delivered) /\ PayloadFollowsItsAlert'
          /\ cloud' # <<>> /\ LastEntry' = r.entry
      BY <1>4, <2>3, <2>4, OneMore DEF Following
    <2> QED
      BY <1>2, <1>4, <2>2, <2>3, <2>5 DEF Following
  <1> QED
    BY <1>1, <1>3, <1>4 DEF Send

\* The following turns send payload entries of that alert, which lie behind
\* what was sent and are therefore later parts.
LEMMA FollowingAfterGetPayload ==
  ASSUME Types, InOrder, Following, GetPayload
  PROVE  Following'
  <1>1. PICK r \in Result :
          /\ xDfmStoragePortGetAlert(r)
          /\ IF r.ok /\ xDfmEntryCreatePayloadChunkFromBuffer(current, r)
             THEN \E ok \in BOOLEAN :
                    /\ Send(r, ok)
                    /\ pc' = IF ok THEN "getpayload" ELSE "getalert"
             ELSE pc' = "getalert" /\ UNCHANGED cloud
    BY DEF GetPayload
  <1>2. UNCHANGED <<flash, current>> /\ pc = "getpayload"
    BY <1>1, ReadFacts DEF GetPayload, ram
  <1>3. CASE UNCHANGED cloud /\ pc' = "getalert"
    BY <1>3 DEF Following, PayloadFollowsItsAlert
  <1>4. CASE /\ xDfmEntryCreatePayloadChunkFromBuffer(current, r)
             /\ cloud' = Append(cloud, r) /\ pc' = "getpayload"
    <2>1. r.intact /\ AlertOf(r.entry) = current
      BY <1>4 DEF xDfmEntryCreatePayloadChunkFromBuffer
    <2>2. PICK c \in flash : /\ Legible(c) /\ c.at = ulRdOffset /\ c.at < ulRdOffset'
                             /\ r = [ok |-> TRUE, entry |-> c.entry, intact |-> TRUE]
                             /\ c.entry \in Entry
      BY <1>1, <2>1, ReadPlaces DEF Types
    <2>3. r \in Delivered /\ r.entry = c.entry
      BY <2>2 DEF Delivered
    <2>4. /\ cloud # <<>> /\ AlertOf(LastEntry) = AlertOf(r.entry)
          /\ LastEntry.part < r.entry.part
      BY <1>2, <2>1, <2>2, <2>3 DEF Following, InOrder
    <2>5. /\ cloud' \in Seq(Delivered) /\ PayloadFollowsItsAlert'
          /\ cloud' # <<>> /\ LastEntry' = r.entry
      BY <1>4, <2>3, <2>4, OneMore DEF Following
    <2> QED
      BY <1>2, <1>4, <2>1, <2>2, <2>3, <2>5 DEF Following
  <1> QED
    BY <1>1, <1>3, <1>4 DEF Send

\* An alert sent when it is raised goes entry by entry; an alert entry that
\* fails ends it.
LEMMA FollowingAfterSend ==
  ASSUME Types, Following, SendEntry
  PROVE  Following'
  <1> DEFINE x == [ok |-> TRUE, entry |-> NextEntry, intact |-> TRUE]
  <1>1. PICK ok \in BOOLEAN : Send(x, ok) /\ AfterEntry(ok)
    BY DEF SendEntry
  <1>2. /\ pc = "process" /\ job.via = "SEND" /\ job \in JobType
        /\ UNCHANGED <<boot, ulAlertCounter>>
    BY DEF SendEntry, Types
  <1>3. /\ NextEntry \in Entry /\ NextEntry.part = job.part
        /\ AlertOf(NextEntry) = [session |-> boot, alert |-> ulAlertCounter]
    BY <1>2, NextEntryFacts
  <1>4. x \in Delivered /\ x.entry = NextEntry
    BY <1>3 DEF Delivered
  <1> HIDE DEF x
  <1>5. job.part \in Nat /\ pc' # "getpayload"
    <2>1. job.part \in Nat
      BY <1>2 DEF JobType, Part
    <2>2. pc' # "getpayload"
      BY <1>1, <1>2, AfterFacts
    <2> QED
      BY <2>1, <2>2
  <1>6. pc' = "process" /\ job'.via = "SEND" =>
          job'.part = job.part + 1 /\ (ok \/ job.part > 1)
    BY <1>1, <1>2, AfterFacts
  <1>7. CASE ~ok
    <2>1. UNCHANGED cloud
      BY <1>1, <1>7 DEF Send
    <2>2. cloud' \in Seq(Delivered) /\ PayloadFollowsItsAlert' /\ LastEntry' = LastEntry
      BY <2>1 DEF Following, PayloadFollowsItsAlert, LastEntry
    <2>3. ASSUME pc' = "process", job'.via = "SEND", job'.part > 1
          PROVE  /\ cloud' # <<>> /\ LastEntry'.part < job'.part
                 /\ AlertOf(LastEntry') = [session |-> boot', alert |-> ulAlertCounter']
      <3>1. /\ cloud # <<>> /\ LastEntry.part < job.part
            /\ AlertOf(LastEntry) = [session |-> boot, alert |-> ulAlertCounter]
        BY <1>2, <1>6, <1>7, <2>3 DEF Following
      <3>2. LastEntry.part \in Nat
        <4>1. cloud[Len(cloud)] \in Delivered
          <5> HIDE DEF Delivered
          <5> QED
            BY <3>1 DEF Following
        <4>2. LastEntry \in Entry
          BY <4>1 DEF Delivered, LastEntry
        <4> QED
          BY <4>2 DEF Entry, Part
      <3> QED
        BY <1>2, <1>5, <1>6, <2>1, <2>2, <2>3, <3>1, <3>2
    <2> QED
      BY <1>5, <2>2, <2>3 DEF Following
  <1>8. CASE ok
    <2>1. cloud' = Append(cloud, x)
      BY <1>1, <1>8 DEF Send
    <2>2. /\ cloud' \in Seq(Delivered) /\ PayloadFollowsItsAlert'
          /\ cloud' # <<>> /\ LastEntry' = NextEntry
      BY <1>2, <1>3, <1>4, <2>1, OneMore DEF Following
    <2> QED
      BY <1>2, <1>3, <1>5, <1>6, <2>2 DEF Following
  <1> QED
    BY <1>7, <1>8

\* The other steps leave the cloud alone and start nothing that continues it.
LEMMA FollowingElsewhere ==
  ASSUME Types, Following,
         \/ Boot \/ EraseStored \/ RaiseAlert \/ Crash \/ CrashIgnored
         \/ StoreEntry \/ PowerOff
  PROVE  Following'
  <1>1. UNCHANGED cloud
    BY DEF Boot, EraseStored, RaiseAlert, Crash, BeginAlert, CrashIgnored, StoreEntry,
           PowerOff, seen
  <1>2. pc' # "getpayload"
    <2>1. CASE StoreEntry
      BY <2>1, AfterFacts DEF StoreEntry, Types
    <2> QED
      BY <2>1 DEF Boot, EraseStored, RaiseAlert, Crash, BeginAlert, CrashIgnored, PowerOff
  <1>3. ~(pc' = "process" /\ job'.via = "SEND" /\ job'.part > 1)
    <2>1. CASE StoreEntry
      BY <2>1, AfterFacts DEF StoreEntry, Types
    <2>2. CASE RaiseAlert \/ Crash
      BY <2>2 DEF RaiseAlert, Crash, BeginAlert
    <2> QED
      BY <2>1, <2>2 DEF Boot, EraseStored, CrashIgnored, PowerOff
  <1> QED
    BY <1>1, <1>2, <1>3 DEF Following, PayloadFollowsItsAlert

-----------------------------------------------------------------------------
(* The invariant and what it says.                                         *)

\* UploadInv is an invariant, given that DevInv is one.
LEMMA UploadInvHolds == SpecDevice => []UploadInv
  <1>1. InitDevice => UploadInv
    <2> SUFFICES ASSUME InitDevice PROVE UploadInv
      OBVIOUS
    <2>1. /\ pc = "off" /\ cloud = <<>> /\ ulWrOffset = 0 /\ flash \in FlashImages
      BY DEF InitDevice, Init
    <2>2. \A c \in flash : c.state = "headless"
      BY <2>1 DEF FlashImages, Cell
    <2>3. Ordered
      BY <2>1, <2>2 DEF Ordered, Behind, InOrder, Older, Legible
    <2>4. Following
      BY <2>1 DEF Following, PayloadFollowsItsAlert
    <2> QED
      BY <2>3, <2>4 DEF UploadInv
  <1>2. DevInv /\ UploadInv /\ [NextDevice]_vars => UploadInv'
    <2> SUFFICES ASSUME Types, UploadInv, [NextDevice]_vars PROVE UploadInv'
      BY DEF DevInv, SentInv
    <2>1. CASE UNCHANGED vars
      BY <2>1 DEF vars, port, ram, seen, UploadInv, Ordered, Behind, InOrder, Older,
                  Following, PayloadFollowsItsAlert, LastEntry
    <2>2. Ordered' \/ UNCHANGED vars
      BY OrderedElsewhere, OrderedAfterRaise, OrderedAfterSend, OrderedAfterStore,
         OrderedAfterPowerOff DEF NextDevice, Upload, Halted, UploadInv
    <2>3. Following' \/ UNCHANGED vars
      BY FollowingAfterGetAlert, FollowingAfterGetPayload, FollowingAfterSend,
         FollowingElsewhere DEF NextDevice, Upload, Halted, UploadInv, Ordered
    <2> QED
      BY <2>1, <2>2, <2>3 DEF UploadInv
  <1> QED
    BY <1>1, <1>2, DevInvInductive, PTL DEF SpecDevice

\* The cloud can attribute every payload entry: what came just before it is of
\* the same alert and an earlier part, whatever fails and wherever uploads,
\* sends, writes and erases are cut short.
THEOREM PayloadsFollow == SpecDevice => []PayloadFollowsItsAlert
  <1>1. UploadInv => PayloadFollowsItsAlert
    BY DEF UploadInv, Following
  <1> QED
    BY <1>1, UploadInvHolds, PTL

\* No entry that power or the flash cut short is ever sent.
THEOREM OnlyIntactIsSent == SpecDevice => []DeliveredIntact
  <1>1. ASSUME UploadInv PROVE DeliveredIntact
    <2> SUFFICES ASSUME NEW i \in DOMAIN cloud PROVE cloud[i].intact
      BY DEF DeliveredIntact
    <2>1. cloud[i] \in Delivered
      <3> HIDE DEF Delivered
      <3> QED
        BY <1>1 DEF UploadInv, Following
    <2> QED
      BY <2>1 DEF Delivered
  <1> QED
    BY <1>1, UploadInvHolds, PTL
=============================================================================
