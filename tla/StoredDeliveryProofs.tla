------------------------ MODULE StoredDeliveryProofs ------------------------
(***************************************************************************)
(* What arrives of the alerts that were stored, for every value of the     *)
(* constants of StoredAlerts:                                              *)
(*   - the types of the device's variables;                                *)
(*   - an entry arrives at most once per boot after its own, whatever      *)
(*     fails (Counted);                                                    *)
(*   - with a network and a flash that work, an entry of the oldest stored *)
(*     alert is erased only after it was delivered (Tracked): the cells of *)
(*     an alert follow each other without a gap (Chained), so the upload   *)
(*     cannot step over one.                                               *)
(***************************************************************************)
EXTENDS DeviceUploadProofs, FiniteSetTheorems

-----------------------------------------------------------------------------
(* The invariants.                                                         *)

\* The types that Types leaves out.
MoreTypes ==
  /\ ulRdOffset \in Nat /\ xStorageStrategy \in Strategies
  /\ ulDfmInitialized \in BOOLEAN
  /\ current \in Alert \cup {NoAlert}
  /\ job \in JobType \cup {NoJob}
  /\ ended \subseteq [session : 1 .. MaxBoots, alert : 1 .. MaxAlerts, via : {"SEND", "STORE"}]

\* How often an entry arrived.
Arrivals(e) == {i \in DOMAIN cloud : cloud[i].entry = e}
Times(e) == Cardinality(Arrivals(e))

\* Entries that were not made yet, or not sent and never will be in this boot.
Unsent(e) ==
  \/ e.session > boot
  \/ /\ e.session = boot
     /\ \/ e.alert > ulAlertCounter
        \/ /\ e.alert = ulAlertCounter /\ pc = "process"
           /\ job.via = "STORE" \/ e.part >= job.part

\* What is in flash arrived at most once per boot after its own, and what the
\* upload of this boot has yet to read once less.
Counted ==
  /\ \A e \in Entry : Unsent(e) => Times(e) = 0
  /\ \A e \in Entry : Times(e) <= 1 \/ Times(e) <= boot - e.session
  /\ \A c \in flash : c.state = "whole" =>
       /\ Times(c.entry) <= boot - c.entry.session
       /\ pc \in {"getalert", "getpayload"} /\ ulRdOffset <= c.at =>
            Times(c.entry) < boot - c.entry.session

\* Where the next cell behind this one starts.
After(c) == c.at + Span(Size[c.entry])

\* Cells do not overlap, and the write offset is behind them.
Spaced ==
  /\ \A c, d \in flash : (c.at < d.at => After(c) <= d.at) /\ (c.at = d.at => c = d)
  /\ ulWrOffset # 0 => \A c \in flash : After(c) <= ulWrOffset

WholeOf(a) == {c \in flash : c.state = "whole" /\ AlertOf(c.entry) = a}

\* The next entry goes right behind the last one, which is of the same alert
\* if it is not the first of its own; unless the area is full.
Tip ==
  ulWrOffset # 0 /\ ulWrOffset < Capacity =>
    \E d \in flash :
      /\ d.state = "whole" /\ After(d) = ulWrOffset
      /\ pc = "process" /\ job.via = "STORE" /\ job.part > 1 =>
           AlertOf(d.entry) = [session |-> boot, alert |-> ulAlertCounter]

\* No gap between the entries of an alert.
Chained ==
  \A a \in Alert : \A c, d \in WholeOf(a) :
    d.at < c.at => \E n \in WholeOf(a) : n.at = After(d)

\* Nothing is stored before the erase of main.c, and nothing is there after it.
Early ==
  /\ pc \in Uploading => ulWrOffset = 0
  /\ xStorageStrategy # "IGNORE" /\ ulWrOffset = 0 => flash = {}

Got(a) == \A c \in WholeOf(a) : InCloud(c.entry)

\* The upload has sent the oldest alert up to the cell in front of the read
\* offset.
UpTo(a) ==
  \E d \in WholeOf(a) :
    /\ After(d) = ulRdOffset
    /\ \A c \in WholeOf(a) : c.at <= d.at => InCloud(c.entry)

Progress ==
  \A a \in Alert : Oldest(a) =>
    /\ pc = "reset" => Got(a)
    /\ pc = "getalert" => ulRdOffset = 0 \/ Got(a)
    /\ pc = "getpayload" => Got(a) \/ (current = a /\ UpTo(a))

Tracked == Spaced /\ Tip /\ Chained /\ Early /\ Progress

-----------------------------------------------------------------------------
(* The types.                                                              *)

\* A read moves the read offset forward, behind the entry it found.
LEMMA ReadOffset ==
  ASSUME flash \subseteq CellType, ulRdOffset \in Nat, NEW r, xDfmStoragePortGetAlert(r)
  PROVE  /\ ulRdOffset' \in Nat /\ ulRdOffset <= ulRdOffset'
         /\ UNCHANGED xStorageStrategy
  <1>1. CASE \E c \in Readable(ulRdOffset) : ulRdOffset' = ulRdOffset + Span(Size[c.entry])
    <2>1. PICK c \in flash : ulRdOffset' = ulRdOffset + Span(Size[c.entry])
      BY <1>1 DEF Readable
    <2>2. c.entry \in Entry
      BY <2>1 DEF CellType
    <2> QED
      BY <2>1, <2>2, SpanPositive DEF xDfmStoragePortGetAlert
  <1>2. CASE \E k \in 1 .. (Span(BufferSize) \div 8) : ulRdOffset' = ulRdOffset + 8 * k
    <2>1. Span(BufferSize) \div 8 \in Nat
      BY StorageAssumption DEF Span
    <2>2. PICK k \in 1 .. (Span(BufferSize) \div 8) : ulRdOffset' = ulRdOffset + 8 * k
      BY <1>2
    <2>3. k \in Nat
      BY <2>1
    <2> QED
      BY <2>2, <2>3 DEF xDfmStoragePortGetAlert
  <1>3. CASE UNCHANGED ulRdOffset
    BY <1>3 DEF xDfmStoragePortGetAlert
  <1> QED
    BY <1>1, <1>2, <1>3 DEF xDfmStoragePortGetAlert

\* The alert at work, as it ends, is one of this boot's.
LEMMA JobTyped ==
  ASSUME Types, MoreTypes, pc = "process", NEW ok \in BOOLEAN, AfterEntry(ok)
  PROVE  /\ job' \in JobType \cup {NoJob}
         /\ ended' \subseteq [session : 1 .. MaxBoots, alert : 1 .. MaxAlerts, via : {"SEND", "STORE"}]
  <1>1. job \in JobType /\ boot \in 1 .. MaxBoots /\ ulAlertCounter \in 1 .. MaxAlerts
    BY DeviceAssumption DEF Types
  <1>2. [session |-> boot, alert |-> ulAlertCounter, via |-> job.via]
          \in [session : 1 .. MaxBoots, alert : 1 .. MaxAlerts, via : {"SEND", "STORE"}]
    BY <1>1 DEF JobType
  <1>3. ended' = ended \/ ended' = ended \cup
          {[session |-> boot, alert |-> ulAlertCounter, via |-> job.via]}
    BY <1>1, AfterFacts
  <1>4. job' \in JobType \/ job' = NoJob
    <2>1. CASE pc' = "process"
      BY <1>1, <2>1, AfterFacts
    <2>2. CASE EndAlert(TRUE) \/ EndAlert(FALSE)
      BY <2>2 DEF EndAlert
    <2> QED
      BY <2>1, <2>2 DEF AfterEntry
  <1> QED
    BY <1>2, <1>3, <1>4 DEF MoreTypes

\* The steps that do not end an entry.
LEMMA MoreTypesElsewhere ==
  ASSUME Types, MoreTypes,
         \/ Boot \/ GetAlert \/ GetPayload \/ EraseStored
         \/ RaiseAlert \/ Crash \/ CrashIgnored \/ PowerOff
  PROVE  MoreTypes'
  <1>1. CASE Boot
    BY <1>1, StorageAssumption
       DEF Boot, xDfmStoragePortInitialize, MoreTypes, seen
  <1>2. CASE GetAlert
    <2>1. PICK r \in Result :
            /\ xDfmStoragePortGetAlert(r)
            /\ current' = current \/ (r.intact /\ current' = AlertOf(r.entry))
      BY <1>2 DEF GetAlert, xDfmEntryCreateAlertFromBuffer
    <2>2. current' \in Alert \cup {NoAlert}
      <3>1. ASSUME r.intact PROVE AlertOf(r.entry) \in Alert
        <4>1. PICK c \in flash : r = [ok |-> TRUE, entry |-> c.entry, intact |-> TRUE]
                                 /\ c.entry \in Entry
          BY <2>1, <3>1, ReadPlaces DEF Types
        <4>2. r.entry \in Entry
          BY <4>1
        <4> QED
          BY <4>2 DEF Entry, Alert, AlertOf
      <3> QED
        BY <2>1, <3>1 DEF MoreTypes
    <2>3. ulRdOffset' \in Nat /\ UNCHANGED xStorageStrategy
      BY <2>1, ReadOffset DEF Types, MoreTypes
    <2>4. UNCHANGED <<job, ulDfmInitialized, ended>>
      BY <1>2 DEF GetAlert
    <2> QED
      BY <2>2, <2>3, <2>4 DEF MoreTypes
  <1>3. CASE GetPayload
    <2>1. PICK r \in Result : xDfmStoragePortGetAlert(r)
      BY <1>3 DEF GetPayload
    <2>2. ulRdOffset' \in Nat /\ UNCHANGED xStorageStrategy
      BY <2>1, ReadOffset DEF Types, MoreTypes
    <2> QED
      BY <1>3, <2>2 DEF GetPayload, ram, MoreTypes
  <1>4. CASE EraseStored
    BY <1>4 DEF EraseStored, xDfmStoragePortReset, Strategies, ram, seen, MoreTypes
  <1>5. CASE RaiseAlert \/ Crash
    <2>1. PICK end \in SUBSET {"SEND", "STORE"}, crash \in BOOLEAN : BeginAlert(end, crash)
      BY <1>5, DeviceAssumption DEF RaiseAlert, Crash
    <2>2. job' \in JobType
      BY <2>1, PartsAssumption DEF BeginAlert, JobType, Part, Via
    <2> QED
      BY <2>1, <2>2 DEF BeginAlert, port, seen, MoreTypes
  <1>6. CASE CrashIgnored
    BY <1>6 DEF CrashIgnored, port, ram, seen, MoreTypes
  <1>7. CASE PowerOff
    <2>1. /\ job' = NoJob /\ UNCHANGED <<current, ulDfmInitialized, ended>>
          /\ ulRdOffset' = 0 /\ xStorageStrategy' = ConfigStrategy
      BY <1>7 DEF PowerOff, PowerCycle, xDfmStoragePortInitialize, TornErase, TornWrite, seen
    <2> QED
      BY <2>1, StorageAssumption DEF MoreTypes
  <1> QED
    BY <1>1, <1>2, <1>3, <1>4, <1>5, <1>6, <1>7

\* MoreTypes is an invariant.
LEMMA MoreTypesHolds == SpecDevice => []MoreTypes
  <1>1. InitDevice => MoreTypes
    <2> SUFFICES ASSUME InitDevice PROVE MoreTypes
      OBVIOUS
    <2>1. /\ ulRdOffset = 0 /\ xStorageStrategy = ConfigStrategy /\ ulDfmInitialized = FALSE
          /\ current = NoAlert /\ job = NoJob /\ ended = {}
      BY DEF InitDevice, Init
    <2>2. ulDfmInitialized \in BOOLEAN
      BY <2>1, Zenon
    <2> QED
      BY <2>1, <2>2, StorageAssumption DEF MoreTypes
  <1>2. DevInv /\ MoreTypes /\ [NextDevice]_vars => MoreTypes'
    <2> SUFFICES ASSUME Types, MoreTypes, [NextDevice]_vars PROVE MoreTypes'
      BY DEF DevInv, SentInv
    <2>1. CASE UNCHANGED vars
      BY <2>1 DEF vars, port, ram, seen, MoreTypes
    <2>2. CASE SendEntry
      <3>1. PICK ok \in BOOLEAN : AfterEntry(ok)
        BY <2>2 DEF SendEntry
      <3>2. pc = "process" /\ UNCHANGED <<ulRdOffset, xStorageStrategy, ulDfmInitialized, current>>
        BY <2>2 DEF SendEntry, port
      <3> QED
        BY <3>1, <3>2, JobTyped DEF MoreTypes
    <2>3. CASE StoreEntry
      <3>1. PICK ok \in BOOLEAN : xDfmStorageStore(NextEntry, ok) /\ AfterEntry(ok)
        BY <2>3 DEF StoreEntry
      <3>2. pc = "process" /\ UNCHANGED <<ulDfmInitialized, current>>
        BY <2>3 DEF StoreEntry
      <3>3. ulRdOffset' = ulRdOffset /\ xStorageStrategy' \in Strategies
        BY <3>1 DEF xDfmStorageStore, prvDfmStoragePortWrite, xDfmStoragePortReset,
                    MoreTypes, Strategies
      <3> QED
        BY <3>1, <3>2, <3>3, JobTyped DEF MoreTypes
    <2> QED
      BY <2>1, <2>2, <2>3, MoreTypesElsewhere DEF NextDevice, Upload, Halted
  <1> QED
    BY <1>1, <1>2, DevInvInductive, PTL DEF SpecDevice

\* The variables of the device keep their types, for any number of boots and
\* alerts, and an unreadable entry never gets as far as the cloud: what
\* prvDfmGetAll reads is verified before it is sent.
THEOREM DeviceTypeCorrect == SpecDevice => []DeviceTypeOK
  <1>1. ASSUME DevInv, UploadInv, MoreTypes PROVE DeviceTypeOK
    <2>1. TypeOK
      BY <1>1 DEF DevInv, SentInv, Types, MoreTypes, TypeOK
    <2>2. \A i \in DOMAIN cloud : cloud[i].entry \in Entry
      <3> SUFFICES ASSUME NEW i \in DOMAIN cloud PROVE cloud[i].entry \in Entry
        OBVIOUS
      <3>1. cloud[i] \in Delivered
        <4> HIDE DEF Delivered
        <4> QED
          BY <1>1 DEF UploadInv, Following
      <3> QED
        BY <3>1 DEF Delivered
    <2> QED
      BY <1>1, <2>1, <2>2 DEF DevInv, SentInv, Types, MoreTypes, DeviceTypeOK, JobType
  <1> QED
    BY <1>1, DevInvInductive, UploadInvHolds, MoreTypesHolds, PTL

-----------------------------------------------------------------------------
(* How often an entry arrives.                                             *)

\* The number of arrivals is a number, and one that arrives more counts once.
LEMMA TimesFacts ==
  ASSUME cloud \in Seq(Delivered), NEW e
  PROVE  /\ IsFiniteSet(Arrivals(e)) /\ Times(e) \in Nat
         /\ Arrivals(e) = {i \in 1 .. Len(cloud) : cloud[i].entry = e}
  <1> HIDE DEF Delivered
  <1>1. Len(cloud) \in Nat /\ DOMAIN cloud = 1 .. Len(cloud)
    OBVIOUS
  <1>2. IsFiniteSet(1 .. Len(cloud))
    BY <1>1, FS_Interval
  <1>3. Arrivals(e) = {i \in 1 .. Len(cloud) : cloud[i].entry = e}
    BY <1>1 DEF Arrivals
  <1>4. Arrivals(e) \in SUBSET (1 .. Len(cloud))
    BY <1>3
  <1>5. IsFiniteSet(Arrivals(e))
    BY <1>2, <1>4, FS_Subset
  <1> QED
    BY <1>3, <1>5, FS_CardinalityType DEF Times

\* One arrival more counts once.
LEMMA TimesAfterSend ==
  ASSUME cloud \in Seq(Delivered), NEW x \in Delivered, cloud' = Append(cloud, x), NEW e
  PROVE  Times(e)' = IF x.entry = e THEN Times(e) + 1 ELSE Times(e)
  <1> DEFINE n == Len(cloud)
  <1> HIDE DEF Delivered
  <1>1. /\ n \in Nat /\ cloud' \in Seq(Delivered) /\ Len(cloud') = n + 1
        /\ cloud'[n + 1] = x /\ \A i \in 1 .. n : cloud'[i] = cloud[i]
        /\ DOMAIN cloud' = 1 .. n + 1
    OBVIOUS
  <1>2. IsFiniteSet(Arrivals(e)) /\ Arrivals(e) = {i \in 1 .. n : cloud[i].entry = e}
    BY TimesFacts
  <1>3. Arrivals(e)' = {i \in 1 .. n + 1 : cloud'[i].entry = e}
    BY <1>1 DEF Arrivals
  <1> HIDE DEF n
  <1>4. 1 .. n + 1 = 1 .. n \cup {n + 1} /\ n + 1 \notin 1 .. n
    BY <1>1
  <1>5. n + 1 \notin Arrivals(e)
    BY <1>2, <1>4
  <1>6. CASE x.entry = e
    <2>1. Arrivals(e)' = Arrivals(e) \cup {n + 1}
      BY <1>1, <1>2, <1>3, <1>4, <1>6
    <2> QED
      BY <1>2, <1>5, <1>6, <2>1, FS_AddElement DEF Times
  <1>7. CASE x.entry # e
    <2>1. Arrivals(e)' = Arrivals(e)
      BY <1>1, <1>2, <1>3, <1>4, <1>7
    <2> QED
      BY <1>7, <2>1 DEF Times
  <1> QED
    BY <1>6, <1>7

\* Steps that send nothing, and after which no upload reads what it has read.
LEMMA CountedQuietly ==
  ASSUME Types, Counted, cloud \in Seq(Delivered), UNCHANGED cloud,
         boot' = boot \/ boot' = boot + 1,
         \A c \in flash' : c.state = "whole" => c \in flash,
         \A e \in Entry : Unsent(e)' => Unsent(e),
         pc' \in {"getalert", "getpayload"} =>
           \/ boot' = boot + 1
           \/ pc \in {"getalert", "getpayload"} /\ ulRdOffset <= ulRdOffset',
         ulRdOffset \in Nat, ulRdOffset' \in Nat
  PROVE  Counted'
  <1>1. \A e : Times(e)' = Times(e) /\ Times(e) \in Nat
    BY TimesFacts DEF Times, Arrivals
  <1>2. boot \in Nat /\ \A c \in flash : c.at \in Nat /\ c.entry \in Entry
    BY DeviceAssumption DEF Types, CellType
  <1>3. \A e \in Entry : e.session \in Nat
    BY DEF Entry
  <1>4. \A e \in Entry : Unsent(e)' => Times(e)' = 0
    BY <1>1 DEF Counted
  <1>5. ASSUME NEW e \in Entry
        PROVE  Times(e)' <= 1 \/ Times(e)' <= boot' - e.session
    <2>1. Times(e) <= 1 \/ Times(e) <= boot - e.session
      BY DEF Counted
    <2> QED
      BY <1>1, <1>2, <1>3, <2>1
  <1>6. ASSUME NEW c \in flash', c.state = "whole"
        PROVE  /\ Times(c.entry)' <= boot' - c.entry.session
               /\ pc' \in {"getalert", "getpayload"} /\ ulRdOffset' <= c.at =>
                    Times(c.entry)' < boot' - c.entry.session
    <2>1. c \in flash /\ c.at \in Nat /\ c.entry.session \in Nat
      BY <1>2, <1>3, <1>6
    <2>2. Times(c.entry) <= boot - c.entry.session
      BY <1>6, <2>1 DEF Counted
    <2>3. pc \in {"getalert", "getpayload"} /\ ulRdOffset <= c.at =>
            Times(c.entry) < boot - c.entry.session
      BY <1>6, <2>1 DEF Counted
    <2>4. Times(c.entry) \in Nat /\ Times(c.entry)' = Times(c.entry)
      BY <1>1
    <2> QED
      BY <1>2, <2>1, <2>2, <2>3, <2>4
  <1> QED
    BY <1>4, <1>5, <1>6 DEF Counted

\* The upload sends what it has read: nothing else in flash is this entry, and
\* it is behind now.
LEMMA CountedAfterUpload ==
  ASSUME Types, Counted, InOrder, cloud \in Seq(Delivered), ulRdOffset \in Nat,
         pc \in {"getalert", "getpayload"}, UNCHANGED <<flash, boot, ulAlertCounter>>,
         pc' # "process", ulRdOffset <= ulRdOffset', ulRdOffset' \in Nat,
         NEW c \in flash, c.state = "whole", c.at = ulRdOffset, c.at < ulRdOffset',
         NEW x \in Delivered, x.entry = c.entry, cloud' = Append(cloud, x)
  PROVE  Counted'
  <1>1. \A e : Times(e)' = (IF c.entry = e THEN Times(e) + 1 ELSE Times(e)) /\ Times(e) \in Nat
    BY TimesFacts, TimesAfterSend
  <1>2. /\ boot \in Nat /\ \A d \in flash : d.at \in Nat /\ d.entry \in Entry
        /\ \A e \in Entry : e.session \in Nat /\ e.part \in Nat
    BY DeviceAssumption DEF Types, CellType, Entry, Part
  <1>3. Times(c.entry) < boot - c.entry.session /\ c.entry \in Entry
    BY <1>2 DEF Counted
  <1>4. c.entry.session < boot
    <2>1. Times(c.entry) \in Nat /\ c.entry.session \in Nat
      BY <1>1, <1>2
    <2> QED
      BY <1>2, <1>3, <2>1
  <1>5. ASSUME NEW e \in Entry, Unsent(e)'
        PROVE  Times(e)' = 0
    <2>1. Unsent(e)
      BY <1>5 DEF Unsent
    <2>2. e.session >= boot
      BY <1>2, <2>1 DEF Unsent
    <2> QED
      BY <1>1, <1>2, <1>4, <2>1, <2>2 DEF Counted
  <1>6. ASSUME NEW e \in Entry
        PROVE  Times(e)' <= 1 \/ Times(e)' <= boot' - e.session
    <2>1. Times(e) <= 1 \/ Times(e) <= boot - e.session
      BY DEF Counted
    <2>2. e.session \in Nat /\ Times(e) \in Nat
      BY <1>1, <1>2
    <2>3. CASE e = c.entry
      <3>1. Times(e)' = Times(e) + 1 /\ Times(e) < boot - e.session
        BY <1>1, <1>3, <2>3
      <3> QED
        BY <1>2, <2>2, <3>1
    <2>4. CASE e # c.entry
      <3>1. Times(e)' = Times(e)
        BY <1>1, <2>4
      <3> QED
        BY <2>1, <3>1
    <2> QED
      BY <2>3, <2>4
  <1>7. ASSUME NEW d \in flash', d.state = "whole"
        PROVE  /\ Times(d.entry)' <= boot' - d.entry.session
               /\ pc' \in {"getalert", "getpayload"} /\ ulRdOffset' <= d.at =>
                    Times(d.entry)' < boot' - d.entry.session
    <2>1. /\ d \in flash /\ d.at \in Nat /\ d.entry.session \in Nat
          /\ Times(d.entry) <= boot - d.entry.session /\ Times(d.entry) \in Nat
          /\ ulRdOffset <= d.at => Times(d.entry) < boot - d.entry.session
      BY <1>1, <1>2, <1>7 DEF Counted
    <2>2. CASE d.entry = c.entry
      <3>1. d.at = c.at
        <4>1. Legible(c) /\ Legible(d) /\ c.entry.part \in Nat
          BY <1>2, <1>7 DEF Legible
        <4>2. ~(c.at < d.at) /\ ~(d.at < c.at)
          BY <2>1, <2>2, <4>1 DEF InOrder
        <4>3. c.at \in Nat
          BY <1>2
        <4> QED
          BY <2>1, <4>2, <4>3
      <3> QED
        BY <1>1, <1>2, <2>1, <2>2, <3>1
    <2>3. CASE d.entry # c.entry
      <3>1. Times(d.entry)' = Times(d.entry)
        BY <1>1, <2>3
      <3> QED
        BY <1>2, <2>1, <3>1
    <2> QED
      BY <2>2, <2>3
  <1> QED
    BY <1>5, <1>6, <1>7 DEF Counted

\* A loss of power leaves no whole entry that was not there.
LEMMA WholeAfterPowerOff ==
  ASSUME Types, PowerOff
  PROVE  \A c \in flash' : c.state = "whole" => c \in flash
  <1>1. flash \subseteq CellType
    BY DEF Types
  <1>2. CASE PowerCycle \/ TornErase
    <2>1. flash' = flash \/ \E cut \in Cuts : flash' = ErasedBelow(cut)
      BY <1>2 DEF PowerCycle, TornErase, xDfmStoragePortInitialize
    <2> QED
      BY <1>1, <2>1, ErasedBelowLess
  <1>3. CASE TornWrite(NextEntry)
    <2>1. PICK s \in {"torn", "headless"} :
            flash' = WriteBase \cup {Cell(ulWrOffset, NextEntry, s)}
      BY <1>3 DEF TornWrite, Partial
    <2>2. Cell(ulWrOffset, NextEntry, s).state # "whole"
      BY DEF Cell
    <2> QED
      BY <2>1, <2>2 DEF WriteBase
  <1> QED
    BY <1>2, <1>3 DEF PowerOff

CountedInv == DevInv /\ UploadInv /\ MoreTypes /\ Counted

\* The steps that neither send nor store.
LEMMA CountedElsewhere ==
  ASSUME CountedInv, MoreTypes',
         Boot \/ EraseStored \/ RaiseAlert \/ Crash \/ CrashIgnored \/ PowerOff
  PROVE  Counted'
  <1>1. /\ Types /\ Counted /\ cloud \in Seq(Delivered)
        /\ ulRdOffset \in Nat /\ ulRdOffset' \in Nat
        /\ boot \in Nat /\ ulAlertCounter \in Nat
        /\ \A e \in Entry : e.session \in Nat /\ e.alert \in Nat
    BY DeviceAssumption
       DEF CountedInv, DevInv, SentInv, UploadInv, Following, MoreTypes, Types, Entry
  <1>2. UNCHANGED cloud
    BY DEF Boot, EraseStored, RaiseAlert, Crash, BeginAlert, CrashIgnored, PowerOff, seen
  <1>3. CASE Boot
    <2>1. /\ boot' = boot + 1 /\ ulAlertCounter' = 0 /\ UNCHANGED flash /\ pc' # "process"
      BY <1>3 DEF Boot, xDfmStoragePortInitialize
    <2>2. \A e \in Entry : Unsent(e)' => Unsent(e)
      BY <1>1, <2>1 DEF Unsent
    <2> QED
      BY <1>1, <1>2, <2>1, <2>2, CountedQuietly
  <1>4. CASE RaiseAlert \/ Crash
    <2>1. /\ UNCHANGED <<boot, flash>> /\ ulAlertCounter' = ulAlertCounter + 1 /\ pc' = "process"
      BY <1>4 DEF RaiseAlert, Crash, BeginAlert, port
    <2>2. \A e \in Entry : Unsent(e)' => Unsent(e)
      BY <1>1, <2>1 DEF Unsent
    <2> QED
      BY <1>1, <1>2, <2>1, <2>2, CountedQuietly
  <1>5. CASE EraseStored \/ CrashIgnored \/ PowerOff
    <2>1. UNCHANGED <<boot, ulAlertCounter>> /\ pc' \in {"running", "off"}
      BY <1>5 DEF EraseStored, CrashIgnored, PowerOff, ram
    <2>2. \A c \in flash' : c.state = "whole" => c \in flash
      <3>1. CASE EraseStored
        BY <3>1, <1>1, ErasedBelowLess DEF EraseStored, xDfmStoragePortReset, Types
      <3>2. CASE CrashIgnored
        BY <3>2 DEF CrashIgnored, port
      <3> QED
        BY <1>1, <1>5, <3>1, <3>2, WholeAfterPowerOff
    <2>3. \A e \in Entry : Unsent(e)' => Unsent(e)
      BY <2>1 DEF Unsent
    <2> QED
      BY <1>1, <1>2, <2>1, <2>2, <2>3, CountedQuietly
  <1> QED
    BY <1>3, <1>4, <1>5

\* A turn of prvDfmGetAll.
LEMMA CountedAfterGet ==
  ASSUME CountedInv, GetAlert \/ GetPayload
  PROVE  Counted'
  <1>1. /\ Types /\ Counted /\ InOrder /\ cloud \in Seq(Delivered) /\ ulRdOffset \in Nat
        /\ flash \subseteq CellType
    BY DEF CountedInv, DevInv, SentInv, UploadInv, Ordered, Following, MoreTypes, Types
  <1>2. /\ pc \in {"getalert", "getpayload"} /\ pc' \in {"getalert", "getpayload", "reset"}
        /\ UNCHANGED <<boot, ulAlertCounter>>
    BY DEF GetAlert, GetPayload, ram
  <1>3. PICK r \in Result :
          /\ xDfmStoragePortGetAlert(r)
          /\ UNCHANGED cloud \/ (r.intact /\ cloud' = Append(cloud, r))
    BY DEF GetAlert, GetPayload, Send, xDfmEntryCreateAlertFromBuffer,
           xDfmEntryCreatePayloadChunkFromBuffer
  <1>4. UNCHANGED flash /\ ulRdOffset' \in Nat /\ ulRdOffset <= ulRdOffset'
    BY <1>1, <1>3, ReadFacts, ReadOffset
  <1>5. CASE UNCHANGED cloud
    <2>1. \A e \in Entry : Unsent(e)' => Unsent(e)
      BY <1>2 DEF Unsent
    <2>2. boot' = boot /\ \A c \in flash' : c \in flash
      BY <1>2, <1>4
    <2> QED
      BY <1>1, <1>2, <1>4, <1>5, <2>1, <2>2, CountedQuietly
  <1>6. CASE r.intact /\ cloud' = Append(cloud, r)
    <2>1. PICK c \in flash :
            /\ c.state = "whole" /\ c.at = ulRdOffset /\ c.at < ulRdOffset'
            /\ r = [ok |-> TRUE, entry |-> c.entry, intact |-> TRUE] /\ c.entry \in Entry
      <3>1. PICK c \in Readable(ulRdOffset) :
              r = Found(c) /\ ulRdOffset' = ulRdOffset + Span(Size[c.entry])
        BY <1>3, <1>6 DEF xDfmStoragePortGetAlert, Unreadable, NotWritten
      <3>2. c \in flash /\ c.at = ulRdOffset /\ c.at \in Nat /\ c.entry \in Entry
        BY <1>1, <3>1 DEF Readable, CellType
      <3>3. c.state = "whole" /\ r = [ok |-> TRUE, entry |-> c.entry, intact |-> TRUE]
        BY <1>6, <3>1 DEF Found
      <3>4. c.at < ulRdOffset'
        BY <1>1, <3>1, <3>2, SpanPositive
      <3> QED
        BY <3>2, <3>3, <3>4
    <2>2. r \in Delivered /\ r.entry = c.entry
      BY <2>1 DEF Delivered
    <2> QED
      BY <1>1, <1>2, <1>4, <1>6, <2>1, <2>2, CountedAfterUpload
  <1> QED
    BY <1>3, <1>5, <1>6

\* An entry that is sent when it is made had not arrived before, and is not in
\* flash.
LEMMA CountedAfterSend ==
  ASSUME CountedInv, SendEntry
  PROVE  Counted'
  <1> DEFINE x == [ok |-> TRUE, entry |-> NextEntry, intact |-> TRUE]
  <1>1. /\ Types /\ Counted /\ Older /\ cloud \in Seq(Delivered) /\ ulRdOffset \in Nat
    BY DEF CountedInv, DevInv, SentInv, UploadInv, Ordered, Following, MoreTypes
  <1>2. PICK ok \in BOOLEAN : Send(x, ok) /\ AfterEntry(ok)
    BY DEF SendEntry
  <1>3. /\ pc = "process" /\ job.via = "SEND" /\ job \in JobType /\ job.part \in Nat
        /\ UNCHANGED <<flash, ulRdOffset, boot, ulAlertCounter>>
    BY <1>1 DEF SendEntry, port, Types, JobType, Part
  <1>4. /\ NextEntry \in Entry /\ NextEntry.part = job.part
        /\ NextEntry.session = boot /\ NextEntry.alert = ulAlertCounter
    BY <1>1, <1>3, NextEntryFacts
  <1>5. x \in Delivered /\ x.entry = NextEntry
    BY <1>4 DEF Delivered
  <1> HIDE DEF x
  <1>6. /\ boot \in Nat /\ ulAlertCounter \in Nat
        /\ \A e \in Entry : e.part \in Nat /\ e.session \in Nat /\ e.alert \in Nat
    BY <1>1, DeviceAssumption DEF Types, Entry, Part
  <1>7. /\ pc' \in {"process", "off", "running"}
        /\ pc' = "process" =>
             \/ job'.via = "SEND" /\ job'.part = job.part + 1
             \/ job'.via = "STORE" /\ job.part = 1 /\ ~ok
    <2>1. job.part = 1 \/ job.part > 1
      BY <1>3 DEF JobType, Part
    <2>2. CASE job.part = 1 /\ ~ok /\ job.via = "SEND" /\ "STORE" \in job.end
      <3>1. job' = [job EXCEPT !.via = "STORE"] /\ UNCHANGED pc
        BY <1>2, <2>2 DEF AfterEntry
      <3>2. job'.via = "STORE"
        BY <1>3, <3>1 DEF JobType
      <3> QED
        BY <1>3, <2>2, <3>1, <3>2
    <2>3. CASE ~(job.part = 1 /\ ~ok) /\ job.part < Len(Parts)
      <3>1. job' = [job EXCEPT !.part = job.part + 1] /\ UNCHANGED pc
        BY <1>2, <2>3 DEF AfterEntry
      <3>2. job'.via = "SEND" /\ job'.part = job.part + 1
        BY <1>3, <3>1 DEF JobType
      <3> QED
        BY <1>3, <3>1, <3>2
    <2>4. CASE EndAlert(TRUE) \/ EndAlert(FALSE)
      BY <2>4 DEF EndAlert
    <2> QED
      BY <1>2, <1>3, <2>2, <2>3, <2>4 DEF AfterEntry
  <1>8. \A e \in Entry : Unsent(e)' => Unsent(e)
    <2> SUFFICES ASSUME NEW e \in Entry, Unsent(e)', ~Unsent(e) PROVE FALSE
      OBVIOUS
    <2>1. /\ e.session = boot /\ e.alert = ulAlertCounter /\ pc' = "process"
          /\ job'.via = "STORE" \/ e.part >= job'.part
          /\ ~(e.part >= job.part)
      BY <1>3 DEF Unsent
    <2>2. e.part \in Nat /\ e.part > 0
      BY DEF Entry, Part
    <2> QED
      BY <1>3, <1>7, <2>1, <2>2
  <1>9. CASE ~ok
    <2>1. UNCHANGED cloud
      BY <1>2, <1>9 DEF Send
    <2>2. boot' = boot /\ (\A c \in flash' : c \in flash)
      BY <1>3
    <2>3. pc' \notin {"getalert", "getpayload"} /\ ulRdOffset' \in Nat
      BY <1>1, <1>3, <1>7
    <2> QED
      BY <1>1, <1>8, <2>1, <2>2, <2>3, CountedQuietly
  <1>10. CASE ok
    <2>1. cloud' = Append(cloud, x)
      BY <1>2, <1>10 DEF Send
    <2>2. \A e : Times(e)' = (IF NextEntry = e THEN Times(e) + 1 ELSE Times(e)) /\ Times(e) \in Nat
      BY <1>1, <1>5, <2>1, TimesFacts, TimesAfterSend
    <2>3. Times(NextEntry) = 0
      <3>1. Unsent(NextEntry)
        BY <1>3, <1>4 DEF Unsent
      <3> QED
        BY <1>1, <1>4, <3>1 DEF Counted
    <2>4. \A e \in Entry : e = NextEntry => ~Unsent(e)'
      <3>1. pc' = "process" => job'.via = "SEND" /\ job'.part = job.part + 1
        BY <1>7, <1>10
      <3> QED
        BY <1>3, <1>4, <1>6, <3>1 DEF Unsent
    <2>5. \A e \in Entry : Unsent(e)' => Times(e)' = 0
      BY <1>1, <1>8, <2>2, <2>4 DEF Counted
    <2>6. \A e \in Entry : Times(e)' <= 1 \/ Times(e)' <= boot' - e.session
      BY <1>1, <1>3, <2>2, <2>3 DEF Counted
    <2>7. \A c \in flash' : c.state = "whole" => Times(c.entry)' <= boot' - c.entry.session
      <3> SUFFICES ASSUME NEW c \in flash, c.state = "whole"
                   PROVE  Times(c.entry)' <= boot - c.entry.session
        BY <1>3
      <3>1. c.entry # NextEntry
        BY <1>1, <1>3, <1>4 DEF Older, Legible
      <3> QED
        BY <1>1, <2>2, <3>1 DEF Counted
    <2>8. pc' \notin {"getalert", "getpayload"}
      BY <1>7
    <2> QED
      BY <2>5, <2>6, <2>7, <2>8 DEF Counted
  <1> QED
    BY <1>9, <1>10

\* An entry that is stored has not arrived.
LEMMA CountedAfterStore ==
  ASSUME CountedInv, StoreEntry
  PROVE  Counted'
  <1>1. Types /\ Counted /\ cloud \in Seq(Delivered)
    BY DEF CountedInv, DevInv, SentInv, UploadInv, Following
  <1>2. PICK ok \in BOOLEAN : xDfmStorageStore(NextEntry, ok) /\ AfterEntry(ok)
    BY DEF StoreEntry
  <1>3. /\ pc = "process" /\ job.via = "STORE" /\ job \in JobType
        /\ UNCHANGED <<boot, ulAlertCounter, cloud>>
    BY <1>1 DEF StoreEntry, Types
  <1>4. /\ NextEntry \in Entry
        /\ NextEntry.session = boot /\ NextEntry.alert = ulAlertCounter
    BY <1>1, <1>3, NextEntryFacts
  <1>5. pc' \in {"process", "off", "running"} /\ (pc' = "process" => job'.via = "STORE")
    BY <1>2, <1>3, AfterFacts
  <1>6. \A e : Times(e)' = Times(e)
    BY <1>3 DEF Times, Arrivals
  <1>7. \A e \in Entry : Unsent(e)' => Unsent(e)
    BY <1>3, <1>5 DEF Unsent
  <1>8. \A c \in flash' : c.state = "whole" => c \in flash \/ c.entry = NextEntry
    <2>1. flash \subseteq CellType /\ ulWrOffset \in Nat
      BY <1>1 DEF Types
    <2> QED
      BY <1>2, <1>4, <2>1, StoreFacts
  <1>9. Times(NextEntry) <= boot - NextEntry.session
    <2>1. Times(NextEntry) = 0
      BY <1>1, <1>3, <1>4 DEF Counted, Unsent
    <2>2. boot \in Nat
      BY <1>1, DeviceAssumption DEF Types
    <2> QED
      BY <1>4, <2>1, <2>2
  <1>10. \A c \in flash' : c.state = "whole" => Times(c.entry)' <= boot' - c.entry.session
    BY <1>1, <1>3, <1>6, <1>8, <1>9 DEF Counted
  <1>11. \A e \in Entry :
           /\ Unsent(e)' => Times(e)' = 0
           /\ Times(e)' <= 1 \/ Times(e)' <= boot' - e.session
    BY <1>1, <1>3, <1>6, <1>7 DEF Counted
  <1> QED
    BY <1>5, <1>10, <1>11 DEF Counted

\* Counted is an invariant.
LEMMA CountedHolds == SpecDevice => []Counted
  <1>1. InitDevice => Counted
    <2> SUFFICES ASSUME InitDevice PROVE Counted
      OBVIOUS
    <2>1. /\ pc = "off" /\ cloud = <<>> /\ flash \in FlashImages
      BY DEF InitDevice, Init
    <2>2. \A e : Times(e) = 0
      <3>1. \A e : Arrivals(e) = {}
        BY <2>1 DEF Arrivals
      <3> QED
        BY <3>1, FS_EmptySet DEF Times
    <2>3. \A c \in flash : c.state = "headless"
      BY <2>1 DEF FlashImages, Cell
    <2> QED
      BY <2>2, <2>3 DEF Counted
  <1>2. CountedInv /\ MoreTypes' /\ [NextDevice]_vars => Counted'
    <2> SUFFICES ASSUME CountedInv, MoreTypes', [NextDevice]_vars PROVE Counted'
      OBVIOUS
    <2>1. CASE UNCHANGED vars
      <3>1. \A e : Times(e)' = Times(e) /\ Unsent(e)' = Unsent(e)
        BY <2>1 DEF vars, port, ram, seen, Times, Arrivals, Unsent
      <3> QED
        BY <2>1, <3>1 DEF vars, port, ram, seen, CountedInv, Counted
    <2> QED
      BY <2>1, CountedElsewhere, CountedAfterGet, CountedAfterSend, CountedAfterStore
         DEF NextDevice, Upload, Halted
  <1> QED
    BY <1>1, <1>2, DevInvInductive, UploadInvHolds, MoreTypesHolds, PTL
       DEF SpecDevice, CountedInv

\* An upload sends an entry once: however often boots and crashes interrupt it,
\* whatever fails, an entry arrives at most once per boot after its own.
THEOREM ArrivesOncePerBoot == SpecDevice => []OncePerBoot
  <1>1. ASSUME DevInv, UploadInv, Counted PROVE OncePerBoot
    <2>1. ASSUME NEW e \in Entry PROVE Times(e) > 1 => Times(e) <= boot - e.session
      <3>1. Times(e) <= 1 \/ Times(e) <= boot - e.session
        BY <1>1 DEF Counted
      <3>2. Times(e) \in Nat
        BY <1>1, TimesFacts DEF UploadInv, Following
      <3> QED
        BY <3>1, <3>2
    <2> QED
      BY <2>1 DEF OncePerBoot, Times, Arrivals
  <1> QED
    BY <1>1, DevInvInductive, UploadInvHolds, CountedHolds, PTL

-----------------------------------------------------------------------------
(* The oldest alert: with a network and a flash that work, and nothing     *)
(* stored before main.c has erased.                                        *)

Working == ~CloudFaults /\ ~FlashFaults /\ ConfigStrategy = "IGNORE"

TrackedInv == DevInv /\ UploadInv /\ MoreTypes /\ Tracked

\* Where a cell ends.
LEMMA AfterCell ==
  ASSUME NEW c \in CellType
  PROVE  /\ After(c) = c.at + Span(Size[c.entry]) /\ After(c) \in Nat
         /\ c.at \in Nat /\ c.at < After(c)
  <1>1. c.at \in Nat /\ c.entry \in Entry
    BY DEF CellType
  <1> QED
    BY <1>1, SpanPositive DEF After

\* Pages are erased from the start of the area, so what is left of the cells is
\* in its place, and the whole ones are those from the cut on.
LEMMA ErasedBelowFacts ==
  ASSUME flash \subseteq CellType, NEW cut \in Cuts
  PROVE  /\ \A c \in ErasedBelow(cut) : \E d \in flash :
              /\ c.at = d.at /\ c.entry = d.entry
              /\ c = IF d.at >= cut THEN d ELSE [d EXCEPT !.state = "residue"]
         /\ \A c \in ErasedBelow(cut) : c.state = "whole" => c \in flash /\ c.at >= cut
         /\ \A c \in flash : c.at >= cut => c \in ErasedBelow(cut)
         /\ cut \in Nat
  <1>1. cut \in Nat
    <2>1. PICK p \in 0 .. (Capacity \div PageSize) : cut = p * PageSize
      BY DEF Cuts
    <2>2. p \in Nat /\ PageSize \in Nat
      BY <2>1, StorageAssumption
    <2> QED
      BY <2>1, <2>2
  <1>2. \A d \in flash : LET r == [d EXCEPT !.state = "residue"]
                         IN  r.state = "residue" /\ r.at = d.at /\ r.entry = d.entry
    BY DEF CellType
  <1>3. \A d \in flash : d.at \in Nat
    BY DEF CellType
  <1>4. ASSUME NEW c \in ErasedBelow(cut)
        PROVE  /\ \E d \in flash :
                    /\ c.at = d.at /\ c.entry = d.entry
                    /\ c = IF d.at >= cut THEN d ELSE [d EXCEPT !.state = "residue"]
               /\ c.state = "whole" => c \in flash /\ c.at >= cut
    <2>1. CASE c \in flash /\ c.at >= cut
      BY <2>1
    <2>2. CASE \E d \in flash : d.at < cut /\ c = [d EXCEPT !.state = "residue"]
      <3>1. PICK d \in flash : d.at < cut /\ c = [d EXCEPT !.state = "residue"]
        BY <2>2
      <3>2. ~(d.at >= cut) /\ c.state = "residue" /\ c.at = d.at /\ c.entry = d.entry
        BY <1>1, <1>2, <1>3, <3>1
      <3> QED
        BY <3>1, <3>2
    <2> QED
      BY <2>1, <2>2 DEF ErasedBelow
  <1>5. \A c \in flash : c.at >= cut => c \in ErasedBelow(cut)
    BY DEF ErasedBelow
  <1> QED
    BY <1>1, <1>4, <1>5

\* What an erase leaves is spaced and without gaps.
LEMMA ErasedKeeps ==
  ASSUME Spaced, Chained, flash \subseteq CellType, ulWrOffset' = 0,
         NEW cut \in Cuts, flash' = ErasedBelow(cut)
  PROVE  Spaced' /\ Chained'
  <1>1. Spaced'
    <2> SUFFICES ASSUME NEW c \in flash', NEW d \in flash'
                 PROVE  (c.at < d.at => After(c) <= d.at) /\ (c.at = d.at => c = d)
      BY DEF Spaced
    <2>1. PICK x \in flash : /\ c.at = x.at /\ c.entry = x.entry
                             /\ c = IF x.at >= cut THEN x ELSE [x EXCEPT !.state = "residue"]
      BY ErasedBelowFacts
    <2>2. PICK y \in flash : /\ d.at = y.at /\ d.entry = y.entry
                             /\ d = IF y.at >= cut THEN y ELSE [y EXCEPT !.state = "residue"]
      BY ErasedBelowFacts
    <2>3. After(c) = After(x)
      BY <2>1 DEF After
    <2>4. (x.at < y.at => After(x) <= y.at) /\ (x.at = y.at => x = y)
      BY DEF Spaced
    <2> QED
      BY <2>1, <2>2, <2>3, <2>4
  <1>2. Chained'
    <2> SUFFICES ASSUME NEW a \in Alert, NEW c \in WholeOf(a)', NEW d \in WholeOf(a)',
                        d.at < c.at
                 PROVE  \E n \in WholeOf(a)' : n.at = After(d)
      BY DEF Chained
    <2>1. /\ c \in WholeOf(a) /\ d \in WholeOf(a) /\ d.at >= cut /\ d \in CellType
      BY ErasedBelowFacts DEF WholeOf
    <2>2. PICK n \in WholeOf(a) : n.at = After(d)
      BY <2>1 DEF Chained
    <2>3. n.at >= cut
      BY <2>1, <2>2, AfterCell, ErasedBelowFacts
    <2>4. n \in WholeOf(a)'
      BY <2>2, <2>3, ErasedBelowFacts DEF WholeOf
    <2> QED
      BY <2>2, <2>4
  <1> QED
    BY <1>1, <1>2

\* A cell written at the write offset comes behind all others.
LEMMA AppendSpaced ==
  ASSUME Spaced, flash \subseteq CellType, ulWrOffset \in Nat, ulWrOffset = 0 => flash = {},
         NEW n \in CellType, n.at = ulWrOffset, flash' = flash \cup {n}
  PROVE  /\ \A c \in flash : c.at < n.at /\ After(c) <= n.at
         /\ \A c \in flash' : After(c) <= After(n)
         /\ \A c, d \in flash' : (c.at < d.at => After(c) <= d.at) /\ (c.at = d.at => c = d)
  <1>1. n.at \in Nat /\ After(n) \in Nat /\ n.at < After(n)
    BY AfterCell
  <1>2. \A c \in flash : /\ c.at \in Nat /\ After(c) \in Nat /\ c.at < After(c)
                         /\ After(c) <= ulWrOffset
    BY AfterCell DEF Spaced
  <1>3. \A c \in flash : c.at < n.at /\ After(c) <= n.at
    BY <1>1, <1>2
  <1>4. \A c \in flash' : After(c) <= After(n)
    BY <1>1, <1>2, <1>3
  <1>5. ASSUME NEW c \in flash', NEW d \in flash'
        PROVE  (c.at < d.at => After(c) <= d.at) /\ (c.at = d.at => c = d)
    <2>1. CASE c \in flash /\ d \in flash
      BY <2>1 DEF Spaced
    <2>2. CASE c = n \/ d = n
      BY <1>1, <1>2, <1>3, <2>2
    <2> QED
      BY <2>1, <2>2
  <1> QED
    BY <1>3, <1>4, <1>5

\* A read at the place of a whole cell finds it.
LEMMA ReadFinds ==
  ASSUME Spaced, flash \subseteq CellType, NEW n \in flash, n.state = "whole",
         n.at = ulRdOffset, NEW r, xDfmStoragePortGetAlert(r)
  PROVE  /\ r = [ok |-> TRUE, entry |-> n.entry, intact |-> TRUE]
         /\ ulRdOffset' = After(n)
  <1>1. n \in Readable(ulRdOffset) /\ \A c \in Readable(ulRdOffset) : c = n
    BY DEF Readable, Spaced
  <1>2. r = Found(n) /\ ulRdOffset' = ulRdOffset + Span(Size[n.entry])
    BY <1>1 DEF xDfmStoragePortGetAlert
  <1> QED
    BY <1>2 DEF Found, After

\* What arrived stays arrived, and what is sent arrives.
LEMMA CloudKeeps ==
  ASSUME cloud \in Seq(Delivered),
         UNCHANGED cloud \/ \E x \in Delivered : cloud' = Append(cloud, x)
  PROVE  /\ \A e : InCloud(e) => InCloud(e)'
         /\ \A x \in Delivered : cloud' = Append(cloud, x) =>
              \A e : e = x.entry => InCloud(e)'
  <1> HIDE DEF Delivered
  <1>1. CASE UNCHANGED cloud
    <2>1. \A e : InCloud(e) => InCloud(e)'
      BY <1>1 DEF InCloud
    <2>2. \A x \in Delivered : cloud' # Append(cloud, x)
      BY <1>1
    <2> QED
      BY <2>1, <2>2
  <1>2. ASSUME NEW x \in Delivered, cloud' = Append(cloud, x)
        PROVE  (\A e : InCloud(e) => InCloud(e)') /\ (\A e : e = x.entry => InCloud(e)')
    <2> DEFINE n == Len(cloud)
    <2>1. /\ n \in Nat /\ DOMAIN cloud = 1 .. n /\ DOMAIN cloud' = 1 .. n + 1
          /\ cloud'[n + 1] = x /\ \A i \in 1 .. n : cloud'[i] = cloud[i]
      BY <1>2
    <2> HIDE DEF n
    <2>2. 1 .. n \subseteq 1 .. n + 1 /\ n + 1 \in 1 .. n + 1
      BY <2>1
    <2> QED
      BY <2>1, <2>2 DEF InCloud
  <1> QED
    BY <1>1, <1>2

\* What the invariant says of the types.
LEMMA TrackedTypes ==
  ASSUME TrackedInv
  PROVE  /\ Types /\ MoreTypes /\ InOrder /\ Older /\ cloud \in Seq(Delivered)
         /\ Spaced /\ Tip /\ Chained /\ Early /\ Progress
         /\ flash \subseteq CellType /\ ulWrOffset \in Nat /\ ulRdOffset \in Nat
         /\ ulWrOffset = 0 /\ xStorageStrategy # "IGNORE" => WriteBase = flash /\ flash = {}
         /\ ulWrOffset # 0 => WriteBase = flash
  BY DEF TrackedInv, DevInv, SentInv, UploadInv, Ordered, Following, Tracked, Types, MoreTypes,
         Early, WriteBase

\* Steps that leave the area alone, between entries, and do not upload.
LEMMA TrackedQuietly ==
  ASSUME TrackedInv, UNCHANGED flash,
         \/ ulWrOffset' = 0 /\ xStorageStrategy' = "IGNORE"
         \/ UNCHANGED <<ulWrOffset, xStorageStrategy>>,
         pc' \notin Uploading,
         ~(pc' = "process" /\ job'.via = "STORE" /\ job'.part > 1)
  PROVE  Tracked'
  <1>1. Spaced' /\ Chained'
    BY TrackedTypes DEF Spaced, Chained, WholeOf
  <1>2. Tip'
    BY TrackedTypes DEF Tip
  <1>3. Early' /\ Progress'
    BY TrackedTypes DEF Early, Progress, Uploading
  <1> QED
    BY <1>1, <1>2, <1>3 DEF Tracked

\* The upload starts at the start of the area.
LEMMA TrackedAfterBoot ==
  ASSUME Working, TrackedInv, Boot
  PROVE  Tracked'
  <1>1. /\ pc' = "getalert" /\ ulWrOffset' = 0 /\ ulRdOffset' = 0
        /\ xStorageStrategy' = "IGNORE" /\ UNCHANGED flash
    BY DEF Boot, Working, xDfmStoragePortInitialize
  <1>2. Spaced' /\ Chained' /\ Tip' /\ Early'
    BY <1>1, TrackedTypes DEF Spaced, Chained, WholeOf, Tip, Early
  <1>3. Progress'
    BY <1>1 DEF Progress
  <1> QED
    BY <1>2, <1>3 DEF Tracked

\* The whole area is erased at once.
LEMMA TrackedAfterErase ==
  ASSUME Working, TrackedInv, EraseStored
  PROVE  Tracked'
  <1>1. /\ flash' = {} /\ ulWrOffset = 0 /\ UNCHANGED ulWrOffset /\ pc' = "running"
    BY TrackedTypes DEF EraseStored, Working, xDfmStoragePortReset, Early, Uploading
  <1> QED
    BY <1>1 DEF Tracked, Spaced, Chained, WholeOf, Tip, Early, Uploading, Progress

\* Power fails: an erase stops somewhere, or an entry is cut short.
LEMMA TrackedAfterPowerOff ==
  ASSUME Working, TrackedInv, PowerOff
  PROVE  Tracked'
  <1>1. pc' = "off" /\ ulWrOffset' = 0 /\ xStorageStrategy' = "IGNORE"
    BY DEF PowerOff, Working, PowerCycle, xDfmStoragePortInitialize, TornErase, TornWrite
  <1>2. CASE PowerCycle
    BY <1>1, <1>2, TrackedQuietly DEF PowerCycle, xDfmStoragePortInitialize, Uploading
  <1>3. ASSUME Spaced', Chained' PROVE Tracked'
    BY <1>1, <1>3 DEF Tracked, Tip, Early, Progress, Uploading
  <1>4. CASE TornErase
    <2>1. PICK cut \in Cuts : flash' = ErasedBelow(cut)
      BY <1>4 DEF TornErase
    <2> QED
      BY <1>1, <1>3, <2>1, ErasedKeeps, TrackedTypes
  <1>5. CASE pc = "process" /\ xStorageStrategy # "IGNORE" /\ TornWrite(NextEntry)
    <2>1. PICK s \in {"torn", "headless"} :
            flash' = WriteBase \cup {Cell(ulWrOffset, NextEntry, s)}
      BY <1>5 DEF TornWrite, Partial
    <2> DEFINE n == Cell(ulWrOffset, NextEntry, s)
    <2>2. n \in CellType /\ n.at = ulWrOffset /\ n.state # "whole"
      <3>1. NextEntry \in Entry /\ ulWrOffset \in Nat /\ s \in CellStates
        BY <1>5, NextEntryFacts, TrackedTypes DEF CellStates
      <3> QED
        BY <3>1, CellFacts DEF Cell
    <2>3. flash' = flash \cup {n} /\ (ulWrOffset = 0 => flash = {})
      BY <1>5, <2>1, TrackedTypes
    <2> HIDE DEF n
    <2>4. Spaced'
      BY <1>1, <2>2, <2>3, TrackedTypes, AppendSpaced DEF Spaced
    <2>5. \A a : WholeOf(a)' = WholeOf(a)
      BY <2>2, <2>3 DEF WholeOf
    <2>6. Chained'
      BY <2>5, TrackedTypes DEF Chained
    <2> QED
      BY <1>3, <2>4, <2>6
  <1> QED
    BY <1>2, <1>4, <1>5 DEF PowerOff

\* An entry is stored right behind the one before it.
LEMMA TrackedAfterStore ==
  ASSUME Working, TrackedInv, StoreEntry
  PROVE  Tracked'
  <1>1. PICK ok \in BOOLEAN : xDfmStorageStore(NextEntry, ok) /\ AfterEntry(ok)
    BY DEF StoreEntry
  <1>2. /\ pc = "process" /\ job.via = "STORE" /\ job \in JobType
        /\ UNCHANGED <<boot, ulAlertCounter>>
    BY TrackedTypes DEF StoreEntry, Types
  <1>3. /\ NextEntry \in Entry /\ NextEntry.part = job.part
        /\ AlertOf(NextEntry) = [session |-> boot, alert |-> ulAlertCounter]
    BY <1>2, NextEntryFacts, TrackedTypes
  <1>4. /\ pc' \in {"process", "off", "running"} /\ pc' \notin Uploading
        /\ pc' = "process" => /\ job'.via = "STORE" /\ job'.part = job.part + 1
                              /\ ok \/ job.part > 1
    BY <1>1, <1>2, AfterFacts DEF Uploading
  <1>5. Progress' /\ Early'
    <2>1. Progress'
      BY <1>4 DEF Progress, Uploading
    <2>2. CASE UNCHANGED <<flash, ulWrOffset, xStorageStrategy>>
      BY <1>4, <2>1, <2>2, TrackedTypes DEF Early
    <2>3. CASE ulWrOffset' = ulWrOffset + Span(Size[NextEntry])
      <3>1. ulWrOffset' # 0
        BY <1>3, <2>3, SpanPositive, TrackedTypes
      <3> QED
        BY <1>4, <2>1, <3>1 DEF Early
    <2>4. \/ UNCHANGED <<flash, ulWrOffset, xStorageStrategy>>
          \/ ulWrOffset' = ulWrOffset + Span(Size[NextEntry])
      BY <1>1 DEF Working, xDfmStorageStore, prvDfmStoragePortWrite, xDfmStoragePortReset
    <2> QED
      BY <2>1, <2>2, <2>3, <2>4
  <1>6. CASE UNCHANGED <<flash, ulWrOffset>> /\ ~ok
    <2>1. Spaced' /\ Chained'
      BY <1>6, TrackedTypes DEF Spaced, Chained, WholeOf
    <2>2. Tip'
      BY <1>2, <1>4, <1>6, TrackedTypes DEF Tip
    <2> QED
      BY <1>5, <2>1, <2>2 DEF Tracked
  <1>7. CASE /\ xStorageStrategy # "IGNORE"
             /\ ulWrOffset' = ulWrOffset + Span(Size[NextEntry])
             /\ ~Fits(ulWrOffset, NextEntry) /\ flash' = WriteBase
    <2>1. flash' = flash /\ ulWrOffset' \in Nat /\ ulWrOffset < ulWrOffset'
      BY <1>3, <1>7, SpanPositive, TrackedTypes
    <2>2. ~(ulWrOffset' < Capacity)
      BY <1>7 DEF Fits
    <2>3. Spaced'
      <3>1. \A c \in flash : After(c) <= ulWrOffset'
        <4>1. ASSUME NEW c \in flash PROVE After(c) <= ulWrOffset'
          <5>1. After(c) <= ulWrOffset
            BY <1>7, <4>1, TrackedTypes DEF Spaced
          <5>2. After(c) \in Nat
            BY AfterCell, TrackedTypes
          <5> QED
            BY <2>1, <5>1, <5>2, TrackedTypes
        <4> QED
          BY <4>1
      <3> QED
        BY <2>1, <3>1, TrackedTypes DEF Spaced
    <2>4. Chained' /\ Tip'
      BY <2>1, <2>2, TrackedTypes DEF Chained, WholeOf, Tip
    <2> QED
      BY <1>5, <2>3, <2>4 DEF Tracked
  <1>8. CASE /\ xStorageStrategy # "IGNORE"
             /\ ulWrOffset' = ulWrOffset + Span(Size[NextEntry])
             /\ Fits(ulWrOffset, NextEntry)
             /\ flash' = WriteBase \cup {Cell(ulWrOffset, NextEntry, "whole")}
    <2> DEFINE n == Cell(ulWrOffset, NextEntry, "whole")
    <2>1. /\ n \in CellType /\ n.at = ulWrOffset /\ n.state = "whole" /\ n.entry = NextEntry
          /\ After(n) = ulWrOffset'
      <3>1. ulWrOffset \in Nat /\ "whole" \in CellStates
        BY TrackedTypes DEF CellStates
      <3> QED
        BY <1>3, <1>8, <3>1, CellFacts DEF Cell, After
    <2>2. flash' = flash \cup {n} /\ (ulWrOffset = 0 => flash = {})
      BY <1>8, TrackedTypes
    <2>3. ulWrOffset < Capacity
      BY <1>3, <1>8, SpanPositive, TrackedTypes, StorageAssumption DEF Fits
    <2> HIDE DEF n
    <2>4. /\ \A c \in flash : c.at < n.at /\ After(c) <= n.at
          /\ \A c \in flash' : After(c) <= After(n)
          /\ \A c, d \in flash' : (c.at < d.at => After(c) <= d.at) /\ (c.at = d.at => c = d)
      BY <2>1, <2>2, AppendSpaced, TrackedTypes
    <2>5. Spaced'
      BY <2>1, <2>4 DEF Spaced
    <2>6. Tip'
      <3>1. n \in flash' /\ AlertOf(n.entry) = [session |-> boot, alert |-> ulAlertCounter]
        BY <1>3, <2>1, <2>2
      <3> QED
        BY <1>2, <2>1, <3>1 DEF Tip
    <2>7. Chained'
      <3> SUFFICES ASSUME NEW a \in Alert, NEW c \in WholeOf(a)', NEW d \in WholeOf(a)',
                          d.at < c.at
                   PROVE  \E m \in WholeOf(a)' : m.at = After(d)
        BY DEF Chained
      <3>1. /\ c \in WholeOf(a) \/ (c = n /\ a = AlertOf(NextEntry))
            /\ d \in WholeOf(a) \/ d = n
            /\ WholeOf(a) \subseteq WholeOf(a)'
            /\ WholeOf(a) \subseteq flash
            /\ c = n => n \in WholeOf(a)'
        BY <2>1, <2>2 DEF WholeOf
      <3>2. d # n
        <4>1. c.at < n.at \/ c.at = n.at
          BY <2>4, <3>1
        <4>2. n.at \in Nat /\ c.at \in Nat
          BY <2>1, <3>1, TrackedTypes DEF CellType
        <4> QED
          BY <4>1, <4>2
      <3>3. CASE c \in WholeOf(a)
        BY <3>1, <3>2, <3>3, TrackedTypes DEF Chained
      <3>4. CASE c = n
        <4>1. /\ d \in flash /\ d \in WholeOf(a) /\ Legible(d)
              /\ AlertOf(d.entry) = AlertOf(NextEntry)
          BY <3>1, <3>2, <3>4, <2>1 DEF WholeOf, Legible
        <4>2. job.part > 1
          <5>1. d.entry.session = boot /\ d.entry.alert = ulAlertCounter
            BY <1>3, <4>1 DEF AlertOf
          <5>2. d.entry.part < job.part
            BY <1>2, <4>1, <5>1, TrackedTypes DEF Older
          <5>3. d.entry.part \in Nat /\ d.entry.part > 0 /\ job.part \in Nat
            <6>1. d.entry \in Entry
              BY <4>1, TrackedTypes DEF CellType
            <6>2. d.entry.part \in 1 .. Len(Parts) /\ job.part \in 1 .. Len(Parts)
              BY <1>2, <6>1 DEF Entry, JobType, Part
            <6> QED
              BY <6>2
          <5> QED
            BY <5>2, <5>3
        <4>3. PICK t \in flash : /\ t.state = "whole" /\ After(t) = ulWrOffset
                                 /\ AlertOf(t.entry) = [session |-> boot, alert |-> ulAlertCounter]
          BY <1>2, <2>2, <2>3, <4>1, <4>2, TrackedTypes DEF Tip
        <4>4. t \in WholeOf(a)
          BY <1>3, <3>1, <3>4, <3>2, <4>1, <4>3 DEF WholeOf
        <4>5. CASE d.at < t.at
          <5>1. \E m \in WholeOf(a) : m.at = After(d)
            BY <4>1, <4>4, <4>5, TrackedTypes DEF Chained
          <5> QED
            BY <3>1, <5>1
        <4>6. CASE d.at = t.at
          <5>1. d = t
            BY <4>1, <4>6, TrackedTypes DEF Spaced
          <5> QED
            BY <2>1, <3>1, <3>4, <4>3, <5>1
        <4>7. CASE t.at < d.at
          <5>1. ulWrOffset <= d.at
            BY <4>1, <4>3, <4>7, TrackedTypes DEF Spaced
          <5>2. d.at < ulWrOffset
            BY <2>1, <2>4, <4>1
          <5>3. d.at \in Nat /\ ulWrOffset \in Nat
            BY <4>1, TrackedTypes DEF CellType
          <5> QED
            BY <5>1, <5>2, <5>3
        <4>8. d.at \in Nat /\ t.at \in Nat
          BY <4>1, TrackedTypes DEF CellType
        <4> QED
          BY <4>5, <4>6, <4>7, <4>8
      <3> QED
        BY <3>1, <3>3, <3>4
    <2> QED
      BY <1>5, <2>5, <2>6, <2>7 DEF Tracked
  <1> QED
    BY <1>1, <1>6, <1>7, <1>8
       DEF Working, xDfmStorageStore, prvDfmStoragePortWrite, FLASH_write_at,
           xDfmStoragePortReset

\* The read offset passes an entry of the oldest alert only when it is sent.
LEMMA TrackedAfterGet ==
  ASSUME Working, TrackedInv, GetAlert \/ GetPayload
  PROVE  Tracked'
  <1>1. PICK r \in Result :
          /\ xDfmStoragePortGetAlert(r)
          /\ \/ /\ pc = "getalert" /\ r.ok /\ r.intact /\ TypeOf(r.entry) = "ALERT"
                /\ cloud' = Append(cloud, r) /\ pc' = "getpayload"
                /\ current' = AlertOf(r.entry)
             \/ /\ pc = "getalert" /\ ~(r.ok /\ r.intact /\ TypeOf(r.entry) = "ALERT")
                /\ UNCHANGED cloud /\ pc' = "reset"
             \/ /\ pc = "getpayload" /\ r.ok /\ xDfmEntryCreatePayloadChunkFromBuffer(current, r)
                /\ cloud' = Append(cloud, r) /\ pc' = "getpayload"
                /\ current' = current
             \/ /\ pc = "getpayload"
                /\ ~(r.ok /\ xDfmEntryCreatePayloadChunkFromBuffer(current, r))
                /\ UNCHANGED cloud /\ pc' = "getalert"
    <2>1. CASE GetAlert
      BY <2>1 DEF GetAlert, Send, Working, xDfmEntryCreateAlertFromBuffer
    <2>2. CASE GetPayload
      BY <2>2 DEF GetPayload, Send, Working, ram
    <2> QED
      BY <2>1, <2>2
  <1>2. UNCHANGED <<flash, ulWrOffset, xStorageStrategy>> /\ ulWrOffset = 0
    BY <1>1, ReadFacts, ReadOffset, TrackedTypes DEF Early, Uploading
  <1>3. Spaced' /\ Chained' /\ Tip' /\ Early'
    BY <1>2, TrackedTypes DEF Spaced, Chained, WholeOf, Tip, Early
  <1>4. ASSUME r.intact PROVE r \in Delivered
    <2>1. PICK c \in flash : /\ r = [ok |-> TRUE, entry |-> c.entry, intact |-> TRUE]
                             /\ c.entry \in Entry
      BY <1>1, <1>4, ReadPlaces, TrackedTypes
    <2> QED
      BY <2>1 DEF Delivered
  <1>5. /\ \A e : InCloud(e) => InCloud(e)'
        /\ cloud' = Append(cloud, r) /\ r.intact => \A e : e = r.entry => InCloud(e)'
    <2>1. UNCHANGED cloud \/ (r.intact /\ cloud' = Append(cloud, r))
      BY <1>1 DEF xDfmEntryCreatePayloadChunkFromBuffer
    <2> QED
      BY <1>4, <2>1, CloudKeeps, TrackedTypes
  <1>6. \A a : WholeOf(a)' = WholeOf(a) /\ (Oldest(a)' => Oldest(a)) /\ (Got(a) => Got(a)')
    BY <1>2, <1>5 DEF WholeOf, Oldest, Got
  <1>7. ASSUME NEW a \in Alert, Oldest(a), ~Got(a)
        PROVE  pc' = "getpayload" /\ current' = a /\ UpTo(a)'
    <2>1. PICK first \in flash : first.at = 0 /\ first.entry = First(a) /\ first.state = "whole"
      BY <1>7 DEF Oldest
    <2>2. /\ first \in WholeOf(a) /\ Legible(first) /\ AlertOf(first.entry) = a
          /\ first.entry.part = 1
      BY <2>1 DEF WholeOf, Legible, First, PartOf, AlertOf, Alert
    <2>3. CASE pc = "getalert"
      <3>1. ulRdOffset = 0
        BY <1>7, <2>3, TrackedTypes DEF Progress
      <3>2. /\ r = [ok |-> TRUE, entry |-> first.entry, intact |-> TRUE]
            /\ ulRdOffset' = After(first)
        BY <1>1, <2>1, <3>1, ReadFinds, TrackedTypes
      <3>3. r.ok /\ r.intact /\ r.entry = first.entry
        BY <3>2
      <3>4. TypeOf(r.entry) = "ALERT"
        <4>1. 1 \in Part /\ Parts[1].type = "ALERT"
          BY PartsAssumption DEF Part
        <4> QED
          BY <2>2, <3>3, <4>1 DEF TypeOf
      <3>5. cloud' = Append(cloud, r) /\ pc' = "getpayload" /\ current' = a
        BY <1>1, <2>2, <2>3, <3>3, <3>4
      <3>6. \A c \in WholeOf(a) : c.at <= first.at => InCloud(c.entry)'
        <4> SUFFICES ASSUME NEW c \in WholeOf(a), c.at <= first.at
                     PROVE  InCloud(c.entry)'
          OBVIOUS
        <4>1. c \in flash /\ c.at \in Nat
          BY TrackedTypes DEF WholeOf, CellType
        <4>2. c.at = first.at
          BY <2>1, <4>1
        <4>3. c = first
          BY <4>1, <4>2, TrackedTypes DEF Spaced
        <4> QED
          BY <1>5, <3>3, <3>5, <4>3
      <3> QED
        BY <1>6, <2>2, <3>2, <3>5, <3>6 DEF UpTo
    <2>4. CASE pc = "getpayload"
      <3>1. current = a /\ UpTo(a)
        BY <1>7, <2>4, TrackedTypes DEF Progress
      <3>2. PICK d \in WholeOf(a) :
              /\ After(d) = ulRdOffset
              /\ \A c \in WholeOf(a) : c.at <= d.at => InCloud(c.entry)
        BY <3>1 DEF UpTo
      <3>3. \A c \in WholeOf(a) : c \in flash /\ c \in CellType /\ c.at \in Nat /\ Legible(c)
                                  /\ AlertOf(c.entry) = a /\ c.state = "whole"
        BY TrackedTypes DEF WholeOf, CellType, Legible
      <3>4. PICK c \in WholeOf(a) : d.at < c.at
        <4>1. PICK c \in WholeOf(a) : ~InCloud(c.entry)
          BY <1>7 DEF Got
        <4>2. ~(c.at <= d.at)
          BY <3>2, <4>1
        <4> QED
          BY <3>3, <4>2
      <3>5. PICK n \in WholeOf(a) : n.at = ulRdOffset
        BY <3>2, <3>4, TrackedTypes DEF Chained
      <3>6. /\ r = [ok |-> TRUE, entry |-> n.entry, intact |-> TRUE]
            /\ ulRdOffset' = After(n)
        BY <1>1, <3>3, <3>5, ReadFinds, TrackedTypes
      <3>7. r.ok /\ r.intact /\ r.entry = n.entry /\ AlertOf(r.entry) = current
        BY <3>1, <3>3, <3>6
      <3>8. d.at < n.at
        BY <3>2, <3>3, <3>5, AfterCell
      <3>9. TypeOf(r.entry) \in {"PAYLOAD_HEADER", "PAYLOAD"}
        <4>1. first.at < n.at
          BY <2>1, <3>3, <3>8
        <4>2. first.entry.part < n.entry.part
          BY <2>2, <3>3, <4>1, TrackedTypes DEF InOrder
        <4>3. n.entry.part \in Part /\ n.entry.part # 1
          <5>1. n.entry \in Entry
            BY <3>3 DEF CellType
          <5>2. n.entry.part \in Part /\ n.entry.part \in Nat
            BY <5>1 DEF Entry, Part
          <5> QED
            BY <2>2, <4>2, <5>2
        <4>4. Parts[n.entry.part].type \in {"PAYLOAD_HEADER", "PAYLOAD"}
          <5> DEFINE T == [type : {"ALERT", "PAYLOAD_HEADER", "PAYLOAD"}, size : Nat \ {0}]
          <5>1. Parts \in Seq(T)
            BY PartsAssumption
          <5>2. Parts[n.entry.part] \in T
            <6> HIDE DEF T
            <6> QED
              BY <4>3, <5>1 DEF Part
          <5>3. Parts[n.entry.part].type # "ALERT"
            BY <4>3, PartsAssumption
          <5> QED
            BY <5>2, <5>3
        <4> QED
          BY <3>7, <4>4 DEF TypeOf
      <3>10. cloud' = Append(cloud, r) /\ pc' = "getpayload" /\ current' = a
        BY <1>1, <2>4, <3>1, <3>7, <3>9 DEF xDfmEntryCreatePayloadChunkFromBuffer
      <3>11. \A x \in WholeOf(a) : x.at <= n.at => InCloud(x.entry)'
        <4> SUFFICES ASSUME NEW x \in WholeOf(a), x.at <= n.at
                     PROVE  InCloud(x.entry)'
          OBVIOUS
        <4>1. CASE x.at <= d.at
          BY <1>5, <3>2, <4>1
        <4>2. CASE d.at < x.at
          <5>1. n.at <= x.at
            BY <3>2, <3>3, <3>5, <4>2, TrackedTypes DEF Spaced
          <5>2. x.at = n.at
            BY <3>3, <5>1
          <5>3. x = n
            BY <3>3, <5>2, TrackedTypes DEF Spaced
          <5> QED
            BY <1>5, <3>7, <3>10, <5>3
        <4>3. x.at <= d.at \/ d.at < x.at
          BY <3>3
        <4> QED
          BY <4>1, <4>2, <4>3
      <3> QED
        BY <1>6, <3>6, <3>10, <3>11 DEF UpTo
    <2> QED
      BY <1>1, <2>3, <2>4
  <1>8. Progress'
    BY <1>6, <1>7 DEF Progress
  <1> QED
    BY <1>3, <1>8 DEF Tracked

\* Tracked is an invariant.
LEMMA TrackedHolds == ASSUME Working PROVE SpecDevice => []TrackedInv
  <1>1. InitDevice => Tracked
    <2> SUFFICES ASSUME InitDevice PROVE Tracked
      OBVIOUS
    <2>1. /\ pc = "off" /\ ulWrOffset = 0 /\ xStorageStrategy = "IGNORE" /\ flash \in FlashImages
      BY DEF InitDevice, Init, Working
    <2>2. /\ \A c \in flash : c.state # "whole" /\ c.at = 0
          /\ \A c, d \in flash : c = d
      BY <2>1 DEF FlashImages, Cell
    <2>3. Spaced
      BY <2>1, <2>2 DEF Spaced
    <2> QED
      BY <2>1, <2>2, <2>3 DEF Tracked, Tip, Chained, WholeOf, Early, Uploading, Progress
  <1>2. TrackedInv /\ [NextDevice]_vars => Tracked'
    <2> SUFFICES ASSUME TrackedInv, [NextDevice]_vars PROVE Tracked'
      OBVIOUS
    <2>1. CASE UNCHANGED vars
      BY <2>1 DEF vars, port, ram, seen, TrackedInv, Tracked, Spaced, Tip, Chained, WholeOf,
                  Early, Progress, Oldest, Got, UpTo, InCloud
    <2>2. CASE RaiseAlert \/ Crash \/ CrashIgnored
      <3>1. /\ UNCHANGED <<flash, ulWrOffset, xStorageStrategy>> /\ pc' \notin Uploading
            /\ pc' = "process" => job'.part = 1
        BY <2>2 DEF RaiseAlert, Crash, BeginAlert, CrashIgnored, port, Uploading
      <3> QED
        BY <3>1, TrackedQuietly
    <2>3. CASE SendEntry
      <3>1. PICK ok \in BOOLEAN : AfterEntry(ok)
        BY <2>3 DEF SendEntry
      <3>2. /\ pc = "process" /\ job.via = "SEND" /\ job \in JobType
            /\ UNCHANGED <<flash, ulWrOffset, xStorageStrategy>>
        BY <2>3, TrackedTypes DEF SendEntry, port, Types
      <3>3. /\ pc' \notin Uploading
            /\ ~(pc' = "process" /\ job'.via = "STORE" /\ job'.part > 1)
        BY <3>1, <3>2, AfterFacts DEF Uploading
      <3> QED
        BY <3>2, <3>3, TrackedQuietly
    <2> QED
      BY <2>1, <2>2, <2>3, TrackedAfterBoot, TrackedAfterGet, TrackedAfterErase,
         TrackedAfterStore, TrackedAfterPowerOff DEF NextDevice, Upload, Halted
  <1> QED
    BY <1>1, <1>2, DevInvInductive, UploadInvHolds, MoreTypesHolds, PTL
       DEF SpecDevice, TrackedInv

\* With a network and a flash that work, and the storage strategy of the demo,
\* an entry of the oldest stored alert is erased only after it was delivered,
\* whatever was stored later and wherever power failed: by main.c when the
\* upload has got past it, or by the port's first write, which finds nothing.
THEOREM ErasedAfterDelivery ==
  ASSUME Working
  PROVE  SpecDevice => OldestErasedOnlyAfterDelivery
  <1>1. ASSUME TrackedInv, [NextDevice]_vars,
               NEW c \in flash, c.state = "whole", Oldest(AlertOf(c.entry)), c \notin flash'
        PROVE  InCloud(c.entry)
    <2>1. c.entry \in Entry /\ AlertOf(c.entry) \in Alert
      BY <1>1, TrackedTypes DEF CellType, Entry, AlertOf, Alert
    <2>2. CASE pc = "reset"
      BY <1>1, <2>1, <2>2, TrackedTypes DEF Progress, Got, WholeOf
    <2>3. CASE StoreEntry
      <3>1. PICK ok \in BOOLEAN : xDfmStorageStore(NextEntry, ok)
        BY <2>3 DEF StoreEntry
      <3>2. flash' = flash \/ (xStorageStrategy # "IGNORE" /\ WriteBase \subseteq flash')
        BY <3>1 DEF Working, xDfmStorageStore, prvDfmStoragePortWrite, FLASH_write_at,
                    xDfmStoragePortReset
      <3> QED
        BY <1>1, <3>2, TrackedTypes
    <2>4. CASE PowerOff /\ pc # "reset"
      <3>1. \/ flash' = flash
            \/ xStorageStrategy # "IGNORE" /\ (ulWrOffset = 0 \/ WriteBase \subseteq flash')
        BY <2>4 DEF PowerOff, PowerCycle, xDfmStoragePortInitialize, TornWrite
      <3> QED
        BY <1>1, <3>1, TrackedTypes
    <2>5. CASE EraseStored
      BY <2>2, <2>5 DEF EraseStored
    <2>6. CASE UNCHANGED flash
      BY <1>1, <2>6
    <2>7. CASE GetAlert \/ GetPayload
      BY <2>6, <2>7, ReadFacts DEF GetAlert, GetPayload
    <2> QED
      BY <1>1, <2>2, <2>3, <2>4, <2>5, <2>6, <2>7
         DEF NextDevice, Upload, Halted, Boot, xDfmStoragePortInitialize, RaiseAlert, Crash,
             BeginAlert, CrashIgnored, SendEntry, port, vars
  <1>2. TrackedInv /\ [NextDevice]_vars =>
          [\A c \in flash :
             c.state = "whole" /\ Oldest(AlertOf(c.entry)) /\ c \notin flash'
               => InCloud(c.entry)]_vars
    BY <1>1
  <1> QED
    BY <1>2, TrackedHolds, PTL DEF SpecDevice, OldestErasedOnlyAfterDelivery
=============================================================================
