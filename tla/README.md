# DevAlert demo for the STM32L475: a TLA+ verification development

The repository is a demo of Percepio DevAlert on an STM32L475 board.  Its own
code is the Device Firmware Monitor (DFM, `src/DevAlertDemo/DFM`), the ports DFM
uses for storage and upload, the demo application (`src/main.c`), a flash driver
(`src/st/flash_l4.c`), a crash dump writer, the TraceRecorder, and the host tool
that turns a serial log into alert files
(`src/DevAlertDemo/HostTools/percepio_receiver`).  FreeRTOS, the AWS libraries,
the ST HAL and the Wi-Fi driver are vendored and not modelled.

There are two builds.  In the *Wi-Fi build* the fault handler stores an alert in
flash, resets the processor, and the next boot uploads what it finds in flash and
erases it.  In the *serial build* the fault handler prints the alert on the UART, a
terminal program writes the output to a log file, and `percepio_receiver.py` reads
the log and writes the alert files.

## Inventory

| Part | State | Operations | Interacts with | What makes it correct |
|---|---|---|---|---|
| FLASH storage port, `storageports/FLASH/dfmStoragePort.c`, `st/flash_l4.c` | flash pages; write and read offsets in RAM | initialize, store, get, reset | called by the storage layer and by `main.c`; HAL flash | the log keeps its layout over power loss and failing flash operations; a stored entry is all there |
| Storage layer, `dfmStorage.c` | initialized flag | store and get of alerts, payloads and the session | session (enabled, strategy), port | stores only when the strategy allows it |
| Alerts, `dfmAlert.c` | one alert object, its payload table | begin, add symptom, add payload, end, send all | entries, storage, cloud, session | entries of an alert stay together; an alert is kept until it was delivered |
| Entries, `dfmEntry.c` | one entry buffer | create alert, payload header and chunk; verify one read back | session, alerts | nothing damaged passes verification |
| Session, `dfmSession.c`, `dfm.c` | enabled flag, ids, strategies, alert counter | initialize, enable, disable, new alert id, session id | storage | a remembered disable is remembered; ids tell alerts apart |
| Cloud layer and AWS MQTT port, `dfmCloud.c`, `cloudports/AWS_MQTT` | connection, keep-alive time | initialize, send | MQTT library | one socket, used only in a session the broker accepted |
| Serial cloud port, `cloudports/Serial/dfmCloudPort.c` | none | print an entry | UART | entries are printed so that the receiver can find them |
| `percepio_receiver.py` and its parsers | line buffer, block state, accumulated payload, session id, files | read a line | the log file | what was printed becomes a file, once, whole, with its own alert |
| Crash dump writer, `dfmCrashCatcher.c`, `CrashCatcher.c` | dump buffer | start, dump memory, end | alerts, trace buffer | the dump fits and is well formed |
| TraceRecorder | event buffer | allocate, commit, pop | tasks, interrupts, fault handler | a readable window on the newest events at any instant |
| Retained memory, Zephyr ports | - | - | - | not built in the demo |
| Demo application, `main.c` | - | startup hook, button task | all of the above | erases only what was uploaded |

What is hard here: power loss and resets between any two steps, flash operations
that fail half way, a fault handler that interrupts whatever runs and never returns,
sends that fail during the upload, an erase that follows the upload whatever it did,
two programs (terminal and receiver) on one file, and shared buffers without locks.
`PROJECT.json` lists each hazard at its line.

## Modules

| Module | Models | State and actions |
|---|---|---|
| `FlashStoragePort` | the FLASH port, the flash driver, the strategy check of `dfmStorage.c` | `flash` is a set of cells, one per entry programmed, each with how much of the entry is there; `ulWrOffset`, `ulRdOffset`, `xStorageStrategy` as in the code. One action per port function, with its return value as a parameter; `PowerCycle`, `TornWrite`, `TornErase` for loss of power. `Spec` lets a client call anything |
| `FlashStoragePortProofs` | theorems about the above | - |
| `StoredAlerts` | `dfmAlert.c`, `dfmEntry.c` (verification), `dfmCloud.c`, the startup of `main.c`, the fault handler | `INSTANCE FlashStoragePort`; `pc` says which loop the device is in. `Boot`, one action per turn of each loop of `prvDfmGetAll` (`GetAlert`, `GetPayload`), `EraseStored`, `RaiseAlert`, `Crash`, one action per entry of `prvDfmProcessAlert` (`SendEntry`, `StoreEntry`), `PowerOff` |
| `EntryChannel` | nothing in the code: the abstract specification of a link | `Send`, `Arrive` |
| `SerialLink` | the Serial cloud port, resets, the log file, `percepio_receiver.py` | the log is a sequence of tokens; `entry`, `lineNo` and `done` say what the device prints next; `Transmit` and `DeviceReset` are the device, `ReadLine` is one turn of the receiver's loop: `LineParser`, `DatablockParser`, `WriteEntry` |
| `SerialLinkProofs` | theorems about `SerialLink` | - |
| `StoredAlertsProofs`, `DeviceUploadProofs`, `StoredDeliveryProofs` | theorems about `StoredAlerts` | - |
| `AlertBuilder` | `dfmAlert.c` (begin, add, end, process), `dfmEntry.c` (making entries), session id, name and alert counter of `dfmSession.c`, the fault handler of `dfmCrashCatcher.c` | the one alert object and payload table, the one entry buffer, the session; `pc` and `actor` say where in the code a task or the fault handler is. One action per step the fault handler may cut apart: `BeginAlert`, `NumberAlert`, `FillSlot`, `CountSlot`, `SetupEntry`, `SendEntry`, `StoreEntry`; `Fault` takes over. EXTENDS the next two |
| `MqttPort` | `cloudports/AWS_MQTT/dfmCloudPort.c` | `context` (`xMQTTContext`), `link` and `sockets`, `expired`; `xDfmCloudPortSend` with its reconnection; `Expire`, `BrokerCloses`, `LinkBreaks` happen outside |
| `CrashDump` | the pieces of `CrashCatcher.c` and the buffer of `dfmCrashCatcher.c` | operators only: `Pieces`, `DumpMemory`, `Dump` |
| `AlertBuilderProofs`, `AlertChunksProofs` | theorems about `AlertBuilder`, `MqttPort` and `CrashDump` | - |
| `TraceWindow` | nothing in the code: the abstract specification of the event buffer | `Record`, `Forget`, `Fault`, `Stop` |
| `TraceBuffer` | `trcEventBuffer.c` in overwrite mode, recording in `trcEvent.c`, the hand-over in `dfmCrashCatcher.c` | `head`, `tail`, `slack`, `nextHead` as in the code, in words; one action per store the fault handler may come before; `Fault`, `AddTracePayload` |
| `TraceBufferProofs` | theorems about `TraceBuffer` | - |
| `DfmSession` | enable and disable in `dfmSession.c`, the calls of `dfmStorage.c` under them | the flag in RAM, the flag in storage; `xDfmInitialize`, `xDfmSessionEnable`, `xDfmSessionDisable`, `Reboot` |
| `MCFlashStoragePort`, `MCStoredAlerts`, `MCSerialLink`, `MCAlertBuilder`, `MCTraceBuffer` | instances for TLC | values of the constants; bounds |

How they compose: `StoredAlerts` instantiates the flash port and is shown to use it only as
the port's specification lets a client; `AlertBuilder` runs over the MQTT port and the crash
dump, with the store as a call that succeeds or fails (its insides are `StoredAlerts`);
`SerialLink` implements `EntryChannel`; `TraceBuffer` implements `TraceWindow`. `StoredAlerts`
has many boots and abstracts how an alert is put together, `AlertBuilder` has one boot and
every step of putting it together.

Abstractions worth knowing.

- *Flash.* A cell is `whole`, `torn` (header readable, end marks missing), `headless`
  (first double word only) or `residue` (its beginning was erased). That is what the
  code can tell apart: the first word decides "not written", the length fields move
  the read offset, start and end marks decide verification. Reading behind a
  headless cell moves the offset by any multiple of eight up to the entry buffer's
  size, since the length is whatever the flash holds.
- *Residue.* An erase goes page by page, so power loss or a failing page leaves the
  upper pages. An entry that lies across the cut keeps its tail.
- *Mode of failure of `FLASH_write_at`.* It returns 0 if the first word reads back
  right, whatever happened to the rest; the model has both outcomes.
- *The overwrite flag* the port is given (`dfmStoragePort.h`, `dfmTypes.h:39`) is not
  looked at by the FLASH port, so neither is it in the model: a full area refuses the
  entry under every strategy.
- *Serial output* is a sequence of tokens: `[`, `]`, end of line, the words of the
  protocol, and one token per row of 20 bytes. Rows are the unit the code adds to
  the accumulated payload; the brackets are single characters because
  `LineParser` sees a line cut between them. A row cut in the middle is never
  followed by `]]` on its line, so a whole row or none is enough.
- *The MQTT port* in `StoredAlerts` is a send that may fail, and an initialization that may
  fail; its insides are `MqttPort`. There a connection is `up`, `silent` (the peer is gone and
  nothing has told the device) or `reset`; MQTT, TLS and the broker are calls that these
  states let succeed or fail.
- *Contents of an alert* are tags: each symptom, payload and entry says which
  `xDfmAlertBegin` it was given to, and a piece of a payload is an interval of it.
- *A fault* comes between any two actions. What the fault handler interrupts never
  continues, because the handler ends with a reset; so an interrupted operation
  is just one whose later actions do not happen. Callbacks that write an id or a name may be
  interrupted after a part of it is written.
- *Trace events* are a number and a size. Whole events in memory are remembered also after
  they were popped, since a stale event looks like a live one; a word is garbage when no
  whole event covers it.
- *The interrupted event.* `trcEvent.c` takes the number of an event before the event is
  committed, so the event a fault cuts short leaves a gap of one in the numbers.
  `TraceWindow` allows this gap once: `Fault` says how many numbers are `missing`, none or
  one, and the first event after it skips them.

## Runs

| Run | Instance | What it shows |
|---|---|---|
| `flash` | 2 entries, one as long as the buffer, 2.5 pages; all faults | `TypeOK`, and the three parts of the layout: `WritesGoToErasedFlash`, `CellsAreDisjoint`, `CellsAreInside` |
| `flash_partial_write` | the same | **violated** `StoredMeansProgrammed`: success is reported for an entry that is not all there |
| `stored_crash` | 3 boots, 2 alerts of 4 entries, stored by a task or the fault handler, of which the second does not fit; power fails, nothing else | `StoredEntriesSurviveTheirBoot`, `StoredAlertHasNoGap`, `DeliveredIntact`, `PayloadFollowsItsAlert`, `OncePerBoot`, `OldestErasedOnlyAfterDelivery`, and the liveness property `OldestAlertReachesCloud` |
| `stored_faulty` | 2 boots, 2 alerts; the task's alert is sent or else stored; sends, connecting, flash and power fail | `DeliveredIntact`, `PayloadFollowsItsAlert`, `SentAlertIsNotStored` |
| `stored_send_all` | 2 boots, 2 alerts, no failures | **violated** `SendAllSendsAll`: of two stored alerts the second is skipped, then erased |
| `serial` | 2 boots, an alert of 2 entries (2 and 3 rows), reset anywhere, lines read whole | `SessionHoldsOneAlert`, and `ImplementsChannel`: the link implements `EntryChannel`, liveness included |
| `serial_pieces` | 1 boot; a line may be read while it is being written | **violated** `PiecesArePutTogether`: an entry is lost |
| `serial_batch` | 2 boots, two alerts read within a second | **violated** `WrittenEntriesAreKept`: the second alert overwrites the files of the first |
| `session_disable` | a port that keeps the session | **violated** `DisableIsRemembered`: `xDfmEnable(0)` enables although storage holds the disabled flag |
| `alerts` | 2 alerts of a task (symptoms and payloads up to one more than fit; payloads of one chunk, two chunks, a chunk and a rest), the fault handler's alert; callbacks fail, connections expire, break and are refused | `NothingOfAnotherAlert`, `SameIdSameAlert`, `OneSession`, `ChunksTileTheirPayload`, `DumpIsWhole`; of the port `SocketMatchesContext` and `PublishesInSession`; and the liveness property `EndReturns` |
| `trace` | 21 words, events of 2 and 5 words, 12 events of tasks and up to 2 of the fault handler | `ReadableAtAnyInstant`, `PopsOnlyWholeEvents`, `ClaimedWordsAreFree`, and `KeepsTheNewest`: the buffer implements `TraceWindow` |
| `trace_wrap` | the same | **violated** `HeadAndTailStayApart`: a wrap can empty the buffer |

Why the bounds are enough. *Flash*: a third page cut and a third entry add positions
but no new relation between cells and cuts; the small entry (5 bytes) leaves padding,
the large one (8) is the multiple of eight that gets eight bytes of padding; offsets
are bounded one buffer beyond the end, where every read and every write fails the
same way. *StoredAlerts*: an alert is one alert entry, a payload header and a
chunk, so that each kind of entry can be torn or lost; two alerts show what one
does to the other. `stored_crash` has three boots: what boot 1 stored, boot 3 uploads
again after boot 2 was interrupted, and uploads read over areas that an interrupted erase has
left half erased. Its alerts have a second, small chunk, and the area (96 bytes) refuses
the first chunk of the second alert where the small one would still fit. `stored_faulty`
has two boots, since a third with all faults is out of TLC's reach (over ten million
states): there nothing is uploaded after an interrupted upload, and no half-erased area is
read by one. Its properties are for that checked again in `stored_crash`, without failing sends and
flash, and proved for any number of boots with them. Its area (72 bytes) has no room for the
second alert, that of `stored_send_all` (120) has. No two boots' entries lie in flash at
once: the first write of a boot erases, or fails.
*SerialLink*: two entries of different length and one reset at any token.
*AlertBuilder*: chunks of 2000 bytes and 300 bytes of stack are the demo's; the tables are
smaller (4 symptoms and 2 payloads, where `dfmConfig.h` has 8 and 8), and a task fills both and asks for one
more; the theorems hold for any size. Two
alerts of a task show what one leaves for the next, and the fault handler's alert is a
third; the connection may change any number of times. *TraceBuffer*: twelve events go round
twice, the lap ends with zero to four words of slack, and all the branches of
`xTraceEventBufferAlloc` and their loops are taken; the real buffer is just under 1000 bytes
and its events at most 64, and the branches depend only on how an event compares with the
words in front of the tail and behind the head. `CHECK_DEADLOCK` is off in these two,
where the fault handler's reset and the bounds on alerts and events end the run.

Each property of a passing run has a mutant in `PROJECT.json`: a plausible mistake in
one definition with which the run fails on that property.

### What the violations say

1. `FLASH_write_at` (`flash_l4.c:149`) sets its result to success after the first
   word that reads back right.
2. `prvDfmGetAll` (`dfmAlert.c:863`) reads the next alert while it looks for more payload
   of the last one, and drops it; `main.c:516` then erases everything. A send that
   fails, or `xDfmInitialize` failing because the cloud cannot be reached, ends the
   upload early with the same erase. Up to one stored alert and no failure, nothing is
   lost: `OldestErasedOnlyAfterDelivery`.
3. `LineParser.process` (`percepio_receiver.py:102`) looks for `]]` in the last piece of a
   line only. If all of a first entry's rest and the beginning of the next one are lost
   this way, a file can even hold rows of two entries: the checksum that
   would tell is not sent.
4. Two alerts read within one second (`percepio_receiver.py:217`), which is what
   processing an existing log does, have the same session id, alert id and file names.
5. `xDfmSessionEnable` (`dfmSession.c:127`) reads the stored flag through
   `xDfmStorageGetSession`, which fails while DFM is disabled (`dfmStorage.c:83`). So
   `xDfmInitialize`, `xDfmDisable(1)`, which stores the flag, `xDfmEnable(0)` leave DFM enabled with
   the disabled flag in storage, and so does a reboot.

6. `xTraceEventBufferAlloc` (`trcEventBuffer.c:170`): in the branch where the head is behind
   the tail, a wrap waits for the tail not to be 0, where it has to wait for it to have
   left the last words of the old lap. If the tail is still there the wrap turns those words
   into slack, the next pop sets the tail to 0, where the head is, and what is left in the
   buffer is the event being recorded alone. The buffer stays well formed (`KeepsTheNewest`
   and the other properties of `trace` hold): what is lost is the trace before that event,
   which the alert of a fault shortly afterwards then lacks.

### Known behaviour that no run states

- *An MQTT session the broker has closed is never reopened.* `MqttPort` has it in
  `DisconnectFails`: after the keep-alive time a send first calls `MQTT_Disconnect`, which
  fails on a connection that was reset, and then returns without reconnecting; so does
  every send until the next boot. The alert is then stored (`EndReturns` includes these
  behaviours). No comment or test promises otherwise, so there is no run that a promise of
  the repository would fail.
- *The strategy is IGNORE until the erase of `main.c`.* A fault before that, or after an
  erase that failed, cannot store its alert. `StoredAlerts` has this; its properties speak
  of stores that succeeded.
- *The stack region of a crash dump* goes up from the stack pointer by a fixed size, also
  beyond the end of RAM.

## Fairness

- `StoredAlerts`: weak fairness of `Boot` (a device that is off is switched on, or comes
  out of the reset of `CRASH_FINALIZE`), of `Upload` and of building entries (one
  processor, which runs whatever is next). Nothing is assumed about faults, alerts or
  power. Power may fail at every upload, so the liveness property allows the
  bound on boots to be used up.
- `AlertBuilder`: weak fairness of `Building` (whoever has begun an alert goes on to add to it
  and to end it; a task need not raise another one) and of `Process`. Both are the running
  code itself; a call of the network or of a callback returns, with success or not, since
  every one has a timeout. Nothing is assumed about the connection or about faults.
- `TraceBuffer`: none; its properties are safety.
- `SerialLink`: weak fairness of `ReadLine` (the receiver polls the log once a second).
  The device may stop at any time.
- `EntryChannel`: weak fairness of `Arrive`, which the refinement shows `ReadLine` provides.

## Proofs

Every safety property that the passing runs check of the flash port, of stored alerts, of the
serial link, of building an alert, of the MQTT port, of the crash dump and of the trace buffer is
a theorem, for every value of the constants that the named assumptions admit.

### The flash port

`FlashStoragePortProofs` holds for every set of entries, every size function, capacity,
page size, configured strategy, with or without flash faults; its assumptions are
`EntryAssumption` and `FlashAssumption` of `FlashStoragePort`.

- `PortTypeCorrect == Spec => []TypeOK`.
- `PortLayout == Spec => [](WritesGoToErasedFlash /\ CellsAreDisjoint /\ CellsAreInside)`.

The three parts of the layout are not inductive by themselves: that a new cell is
disjoint from the others follows from the write offset being beyond them, which holds
only once something was written since the boot (before, the offset is 0 and the flash
holds the last boot's entries; the write erases first). `Inv` therefore joins the type
invariant, the placing of each cell (`WellPlaced`) and the three parts. The lemmas
`EndOfCell`, `NewCell` and `AppendCell` say what one more cell does to them,
`EraseKeepsPlaces` what an interrupted erase does; the step proof then has one case per
action. `SpanExceedsSize` is the arithmetic fact behind it: the padding is never
zero, so a cell ends strictly before the offset moves on.

`WritesErased` and `StaysInside` name two of the parts as theorems of their own.

### Stored alerts

`StoredAlertsProofs`, `DeviceUploadProofs` and `StoredDeliveryProofs` hold for every number of boots and alerts,
every way an alert is cut into entries, every size of entries, area and pages, every end type
of the task's and the fault handler's alerts, with faults of flash, network and power; the
assumptions are `PartsAssumption`, `DeviceAssumption` and `StorageAssumption` of `StoredAlerts`;
the last says of its entries, area and pages what the flash port assumes of its constants.

- `SentIsNotStored == SpecDevice => []SentAlertIsNotStored`.
- `StoredEntriesSurvive`: if the flash works, `SpecDevice => []StoredEntriesSurviveTheirBoot`. (With
  failing flash operations it is false: run `flash_partial_write`.)
- `StoredWithoutGap`: if the flash works, `SpecDevice => []StoredAlertHasNoGap`.
- `DeviceUsesPort == SpecDevice => Spec`: the device implements the port's specification.
- `PayloadsFollow == SpecDevice => []PayloadFollowsItsAlert`, and
  `OnlyIntactIsSent == SpecDevice => []DeliveredIntact`.
- `DeviceTypeCorrect == SpecDevice => []DeviceTypeOK`.
- `ArrivesOncePerBoot == SpecDevice => []OncePerBoot`.
- `ErasedAfterDelivery`: under `Working`, `SpecDevice => OldestErasedOnlyAfterDelivery`.

The first three rest on `DevInv`. `SentAlertIsNotStored` alone is not inductive: a store
of the next alert could bring back an entry of a sent one. `Recent` excludes it: ids
only grow, so what ended and what is in flash is older than the alert at work. `Kept` says
that the entries of this boot that are whole in flash are those whose store succeeded, and that the
write offset is no longer 0 once there is one; since only a write at offset 0 erases, nothing
erases them before the next boot, and the erase of `main.c` comes before anything is stored.
An alert is reported as stored also if its payload entries were refused, so that it is not
whole in flash by being reported. `Gapless` says that it is whole up to some part: either nothing was
refused so far, or the area is `Closed`. The write offset has moved on when the size check
refuses an entry, so it stays beyond the end and nothing is stored behind the refused entry.
`StoreFacts` and
`ErasedBelowLess` say what a store and an interrupted erase do, and then there is one
lemma per action (`BootKeeps` ... `PowerOffKeeps`).

`PayloadsFollow` rests on `UploadInv`. The upload compares ids but not parts, so that its order
is right only because the flash is: `InOrder` says that the legible entries of an alert lie
in the order of their parts. To keep that through a store needs `Behind` (everything lies
below the write offset) and `Older` (the parts of the alert at work that are in flash are
earlier ones, and there is none while it is being sent). `Following` says what came last
to the cloud and that it lies in front of what is read next; the read offset only grows.
`OneMore` is the lemma about one more entry in the cloud.

`ArrivesOncePerBoot` rests on `Counted`. That an entry arrived at most once per boot after its own
says nothing about the next arrival; what does is how often an entry *in flash* arrived: at most
once per boot after its own, and strictly less often while the upload has yet to read it. An
entry that was not made yet, or is about to be stored or sent, arrived not at all (`Unsent`).

`ErasedAfterDelivery` assumes `Working`: the cloud answers, flash operations succeed, and the
configured strategy is IGNORE, as in the demo. Boots, faults, alerts and loss of power stay as they
are. None of the first two can be dropped, since an upload that fails is followed by the same
erase (see below); the third says that nothing is stored before that erase. Why the upload gets
everything of the oldest alert is `Tracked`: cells neither overlap nor leave a gap inside an alert
(`Spaced`, `Chained`), the next entry goes right behind the last one, which is of the same alert
(`Tip`), and so, by `Progress`, the read offset stands behind a cell of the oldest alert up to
which all of it has arrived, or the whole alert has. A loss of power in an erase cuts off the
lower cells, which leaves what remains chained; that needs the cut to be the same for all
cells (`ErasedBelowFacts`).

### Building an alert

`AlertBuilderProofs` and `AlertChunksProofs` hold for every table size, chunk size, trace size, any calls of the
tasks and any number of alerts, from `BuilderAssumption`, `NetworkAssumption` and
`DumpAssumption`. `BuilderAssumption` bounds a payload by what 2^16 - 1 chunks hold: the
chunk counter is a `uint16_t`, and a larger payload (131 MB in the demo) cannot lie in the
device's memory.

- `PortConsistent == Spec => []SocketMatchesContext` and
  `PublishesAccepted == Spec => []PublishesInSession`, by `PortInv`, which
  adds the types; the case with substance is a reconnection, in which each call may fail.
- `AlertsStayApart == Spec => []NothingOfAnotherAlert`,
  `IdsNameAlerts == Spec => []SameIdSameAlert`, `SessionIdIsKept == Spec => []OneSession`.
- `BuilderTypeCorrect == Spec => []BuilderTypeOK`, `ChunksTile == Spec => []ChunksTileTheirPayload`,
  `DumpArrivesWhole == Spec => []DumpIsWhole`.

The three about whose alert it is rest on `Inv`. `Owned` says at each place of the builder whose the alert object and the
filled slots of the payload table are: clean after the reset, otherwise the latest begun,
also in a slot that is filled but not counted yet. That makes the reset at the
begin enough, wherever the fault strikes. `Named` says that what was handed on has ids up to
the counter, that the counter's id is the alert at work's once it has one, and that all of it
has the session id that the buffer holds. `AlertShape` and `Counters` are the types this needs.

The last three rest on `PieceInv` and `PlanInv`. `JobAt` says where in its payload `ulOffset` is when
a chunk's entry is made, `Making` that the entry in the callback is the one for the job; the
arithmetic of the rounded-up division is `ChunkCountFacts` and `ChunkFacts`, from products
that are compared with the payload's size. `DumpIsWhole` needs more than `Dump(fp).dropped = 0`, which holds for
every stack size since the buffer has room for 44 bytes more than all pieces: `PlanInv` follows the
calls of the fault handler, so that the second payload of its alert is the dump and has its
size, whether the trace took a slot before it or not.

### The trace buffer

`TraceBufferProofs` holds for every size of the buffer, every set of event
sizes, any number of events and a fault at any store, from `SizesAssumption`: the buffer has
room for four of the largest events and a word (the demo's has room for 15) and is shorter than 2^30
words, so that a `uint32_t` can count its bytes.

- `TraceTypeCorrect`, `Readable`, `PopsWholeEvents` and `ClaimedWordsFree`: `Spec` implies the
  invariants `TraceTypeOK`, `ReadableAtAnyInstant`, `PopsOnlyWholeEvents`, `ClaimedWordsAreFree`.
- `ImplementsTraceWindow == Spec => KeepsTheNewest`: the buffer implements `TraceWindow`.

`TraceInv` is the inductive invariant. `TiledInv` says which words are covered by whole events:
those from 0 to the head, and those of the old lap from the tail to the slack. This alone is
not kept, since a wrap could leave the tail anywhere: `PhaseInv` and `TailInv` say where head and tail
can be at each store of an allocation. The fault handler starts from whatever the
interrupted allocation left, so the bound on the tail (`TailBound`) depends on whether it
has taken over; this is where four events of room are needed. `PopStep` is the lemma about
one pop.

In `TraceWindow` the buffer is a sequence of numbers, in memory it is events at addresses. The
lemmas on ranks (`RankFacts` and those behind it) are about any finite set of events at
different places: the order of a set without its first, with one behind all others, and of two
sets of which one lies behind the other, which is what a pop, a commit and a wrap do. `NumberInv`
says that no number is used twice and none is skipped but by the fault.

### The serial link

`SerialLinkProofs` holds for an alert of any entries of two or more rows, any number of boots
and a reset at any token, from `SerialAssumption`. Its theorems say `~Pieces`, since the run
`serial_pieces` shows what happens otherwise.

- `SerialTypeCorrect`: `Spec => []SerialTypeOK` if lines are read whole.
- `OneAlertASession`: `Spec => []SessionHoldsOneAlert` if, besides, no two alerts are received
  within a second (`~SameSecond`; otherwise see the run `serial_batch`).
- `LinkIsChannel`: `Spec => Channel!Spec` if lines are read whole: every step is a `Send`, an
  `Arrive` or neither. `ImplementsChannel` adds fairness.

The receiver sees a text of which any boot's part may break off anywhere. `LinkInv` says that the
text has an explanation (`Traced`): a sequence of places in the device's output, one for each
token of the log and one for the last token read, each directly behind the one before it unless a
boot begins there (`Linked`). It is a witness of the proof, not a variable. What lies in front of
a token on its line also lies in front of it in the log (`Lines`), so a line read is a line that
was printed, or ends with the first line of a boot (`WhatIsRead`) and then not in `]]`; this is
why nothing of an alert that was cut off is put together with the next. `Received` says what
the receiver has, having read up to a place: inside an entry, all its rows so far; behind
the header of an alert, a session whose files are all of that boot. `Counts` ties the entries that
end in the log to those printed and written, which gives order and "once".

### Only model-checked

- Liveness (`OldestAlertReachesCloud`, `EndReturns`, and `Arrive`'s fairness in
  `ImplementsChannel`), since the proof system does not handle `ENABLED`. `TraceWindow` and the
  flash port's `Spec` have no fairness, so those refinements are proved whole.
- What the runs that expect a violation show.

## Plan

Done, in this order: `FlashStoragePort` with its proofs, `StoredAlerts`, `EntryChannel`,
`SerialLink`, `DfmSession`, `TraceBuffer`, `CrashDump`, `MqttPort`, `AlertBuilder` with its proofs,
the proofs about `StoredAlerts`, about `TraceBuffer` with its refinement, about chunks and the
crash dump, and about `SerialLink`.

Left to model: two tasks that build alerts at once (nothing in the code protects them, and
nothing says that they may), the layout of an entry's bytes in `dfmEntry.c` against the
parsers of the receiver.

## Not modelled

FreeRTOS, the AWS libraries, the ST HAL and BSP, the Wi-Fi driver and the build files are
vendored or generated; they are most of the repository's lines, and what the demo's own code
uses of them appears as calls that succeed or fail. Retained memory is switched off
(`DFM_CFG_RETAINED_MEMORY` is 0) and the Zephyr ports are not built. Of the TraceRecorder only
the event buffer is modelled: the entry table, the timestamps and the events' contents are data
formats, and the RingBuffer stream port never transfers or flushes. The host tools that
upload to S3 or a sandbox are separate programs. Checks of null pointers and of the
initialized flags, which fail only by a programming mistake, are left out, as are the fault
handler's check of its own stack, which only stops the device, and the blinking of LEDs.

## Running

`tlc -config <cfg> <module>` for each run of `PROJECT.json`; `tlapm` on each of
`FlashStoragePortProofs.tla`, `StoredAlertsProofs.tla`, `DeviceUploadProofs.tla`,
`StoredDeliveryProofs.tla`, `SerialLinkProofs.tla`, `AlertBuilderProofs.tla`,
`AlertChunksProofs.tla` and `TraceBufferProofs.tla` for the proofs.
