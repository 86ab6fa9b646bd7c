-------------------------- MODULE FlashStoragePort --------------------------
(***************************************************************************)
(* The FLASH storage port of the Device Firmware Monitor (DFM): an         *)
(* append-only log of entries in a few flash pages, the write and read     *)
(* offsets kept in RAM, and the flash driver under it                      *)
(* (DFM/storageports/FLASH/dfmStoragePort.c and st/flash_l4.c), with the   *)
(* strategy check that dfmStorage.c makes in front of it.                  *)
(*                                                                         *)
(* The content of the pages is a set of cells, one per entry that was      *)
(* programmed.  A cell remembers which part of the entry is really there:  *)
(*   "whole"    every double word                                          *)
(*   "torn"     the header, but not the end markers                        *)
(*   "headless" the first double word, but not the length fields           *)
(*   "residue"  not the first double word (its page was erased), some rest *)
(* Everything outside the cells is erased (0xFF).                          *)
(***************************************************************************)
EXTENDS Integers, FiniteSets

CONSTANTS
  Entry,         (* The entries that may be stored.                          *)
  Size,          (* The size in bytes of each entry (xDfmEntryGetSize).      *)
  NoEntry,       (* What a buffer holds when no entry can be made out.       *)
  Capacity,      (* sizeof(dfmFlashData.data), DFM_CFG_FLASHSTORAGE_SIZE.    *)
  PageSize,      (* The erase granularity.                                   *)
  BufferSize,    (* sizeof(pxDfmEntryData->buffer).                          *)
  ConfigStrategy,(* DFM_CFG_STORAGE_STRATEGY.                                *)
  FlashFaults    (* Whether HAL erase and program operations may fail.       *)

Strategies == {"IGNORE", "OVERWRITE", "SKIP"}

ASSUME EntryAssumption ==
  /\ NoEntry \notin Entry
  /\ Size \in [Entry -> Nat \ {0}]
  /\ \A e \in Entry : Size[e] <= BufferSize

ASSUME FlashAssumption ==
  /\ Capacity \in Nat
  /\ PageSize \in Nat \ {0}
  /\ BufferSize \in Nat
  /\ ConfigStrategy \in Strategies
  /\ FlashFaults \in BOOLEAN

VARIABLES
  flash,           (* Persistent: the cells programmed since the last erase. *)
  ulWrOffset,      (* RAM: where the next entry goes.                        *)
  ulRdOffset,      (* RAM: where the next entry is read.                     *)
  xStorageStrategy (* RAM: the session's storage strategy.                   *)

portVars == <<flash, ulWrOffset, ulRdOffset, xStorageStrategy>>

-----------------------------------------------------------------------------
(* Layout of the log.                                                      *)

\* Mutant: the padding goes the wrong way.
SpanTruncated(s) == s - (s % 8)

\* The space an entry of s bytes takes: "+= size; += 8 - size % 8", so a
\* multiple of 8 gets eight bytes more than it needs.
Span(s) == s + (8 - (s % 8))

Cell(at, e, s) == [at |-> at, entry |-> e, state |-> s]

CellStates == {"whole", "torn", "headless", "residue"}

\* One past the last byte of a cell.
End(c) == c.at + Size[c.entry]

\* What a program operation that stops early can leave behind.
Partial(at, e) == { Cell(at, e, s) : s \in {"torn", "headless"} }

\* The cells left when the pages below cut are erased and the others not.
ErasedBelow(cut) ==
  {c \in flash : c.at >= cut} \cup
  { [c EXCEPT !.state = "residue"] : c \in {d \in flash : d.at < cut /\ cut < End(d)} }

\* sizeof(dfmFlashData) is a little more than Capacity, so one more page is
\* erased than the data needs.
Cuts == { p * PageSize : p \in 0 .. (Capacity \div PageSize) }

\* Mutant: the end is checked before the offset moves.
FitsBeforeAdvancing(at, e) == at < Capacity

\* "if (ulWrOffset >= sizeof(dfmFlashData.data)) return DFM_FAIL".
Fits(at, e) == at + Span(Size[e]) < Capacity

-----------------------------------------------------------------------------
(* What a read returns.  ok is DFM_SUCCESS; an entry that is not intact    *)
(* fails prvDfmEntryVerify.                                                *)

Result == [ok : BOOLEAN, entry : Entry \cup {NoEntry}, intact : BOOLEAN]

NotWritten == [ok |-> FALSE, entry |-> NoEntry, intact |-> FALSE]
Unreadable == [ok |-> TRUE,  entry |-> NoEntry, intact |-> FALSE]
Found(c)   == [ok |-> TRUE,  entry |-> c.entry, intact |-> c.state = "whole"]

\* Cells whose length fields can be read at offset o.
Readable(o) == {c \in flash : c.at = o /\ c.state \in {"whole", "torn"}}

\* Cells that put bytes at offset o which do not form an entry header.
Garbage(o) == {c \in flash : \/ c.at = o /\ c.state = "headless"
                             \/ c.at < o /\ o < End(c)}

-----------------------------------------------------------------------------
(* Operations.  Each is an action; ok or r is its return value.            *)

\* xDfmStoragePortInitialize, and the session's storage strategy set by
\* xDfmSessionInitialize, both called by xDfmInitialize.
xDfmStoragePortInitialize ==
  /\ ulWrOffset' = 0
  /\ ulRdOffset' = 0
  /\ xStorageStrategy' = ConfigStrategy
  /\ UNCHANGED flash

\* FLASH_unlock_erase on the whole area, page after page up to a failing one,
\* then the strategy is forced to OVERWRITE.  The offsets are left alone.
xDfmStoragePortReset(ok) ==
  /\ \/ /\ ok
        /\ flash' = {}
        /\ xStorageStrategy' = "OVERWRITE"
     \/ /\ ~ok
        /\ FlashFaults
        /\ \E cut \in Cuts : flash' = ErasedBelow(cut)
        /\ UNCHANGED xStorageStrategy
  /\ UNCHANGED <<ulWrOffset, ulRdOffset>>

\* Mutant: the entry buffer is reused before it is programmed.
FLASH_write_at_cleared(base, at, e, ok) == ok /\ flash' = base \cup {Cell(at, NoEntry, "whole")}

\* FLASH_write_at programs double words until one fails.  The check that
\* follows returns 0 as soon as the first word reads back right.
FLASH_write_at(base, at, e, ok) ==
  \/ /\ ok
     /\ flash' = base \cup {Cell(at, e, "whole")}
  \/ /\ ok
     /\ FlashFaults
     /\ \E c \in Partial(at, e) : flash' = base \cup {c}
  \/ /\ ~ok
     /\ FlashFaults
     /\ flash' = base

\* Mutant: the first write after a boot does not erase.
WriteBaseKept == flash

\* Mutant: every write erases.
WriteBaseErased == {}

\* The cells present when the entry itself is programmed: the first write
\* after a boot erases the pages.
WriteBase == IF ulWrOffset = 0 THEN {} ELSE flash

\* Mutant: the offset moves only when the entry was written.
WriteAdvancingOnSuccess(e, ok) ==
  \/ /\ ulWrOffset = 0
     /\ ~ok
     /\ xDfmStoragePortReset(FALSE)
  \/ /\ ulWrOffset' = IF ok THEN ulWrOffset + Span(Size[e]) ELSE ulWrOffset
     /\ xStorageStrategy' = IF ulWrOffset = 0 THEN "OVERWRITE" ELSE xStorageStrategy
     /\ UNCHANGED ulRdOffset
     /\ IF Fits(ulWrOffset, e)
        THEN FLASH_write_at(WriteBase, ulWrOffset, e, ok)
        ELSE ~ok /\ flash' = WriteBase

\* prvDfmStoragePortWrite.  The overwrite flag is not looked at, and the
\* offset has moved on before the size is checked.
prvDfmStoragePortWrite(e, ok) ==
  \/ /\ ulWrOffset = 0
     /\ ~ok
     /\ xDfmStoragePortReset(FALSE)
  \/ /\ ulWrOffset' = ulWrOffset + Span(Size[e])
     /\ xStorageStrategy' = IF ulWrOffset = 0 THEN "OVERWRITE" ELSE xStorageStrategy
     /\ UNCHANGED ulRdOffset
     /\ IF Fits(ulWrOffset, e)
        THEN FLASH_write_at(WriteBase, ulWrOffset, e, ok)
        ELSE ~ok /\ flash' = WriteBase

\* xDfmStorageStoreAlert and xDfmStorageStorePayloadChunk.
xDfmStorageStore(e, ok) ==
  \/ /\ xStorageStrategy = "IGNORE"
     /\ ~ok
     /\ UNCHANGED <<flash, ulWrOffset, ulRdOffset, xStorageStrategy>>
  \/ /\ xStorageStrategy # "IGNORE"
     /\ prvDfmStoragePortWrite(e, ok)

\* Mutant: the read offset stays where it is.
GetAlertAgain(r) ==
  /\ \/ \E c \in Readable(ulRdOffset) : r = Found(c)
     \/ Readable(ulRdOffset) = {} /\ r = NotWritten
  /\ UNCHANGED <<flash, ulWrOffset, ulRdOffset, xStorageStrategy>>

\* xDfmStoragePortGetAlert, which xDfmStoragePortGetPayloadChunk also calls:
\* neither looks at the type, the session or the alert of the entry.  A size
\* read from garbage is anything up to the buffer size it is capped to.
xDfmStoragePortGetAlert(r) ==
  /\ \/ /\ \E c \in Readable(ulRdOffset) :
             /\ r = Found(c)
             /\ ulRdOffset' = ulRdOffset + Span(Size[c.entry])
     \/ /\ Readable(ulRdOffset) = {}
        /\ Garbage(ulRdOffset) # {} \/ ulRdOffset >= Capacity
        /\ r = Unreadable
        /\ \E k \in 1 .. (Span(BufferSize) \div 8) : ulRdOffset' = ulRdOffset + 8 * k
     \/ /\ {c \in Readable(ulRdOffset) \cup Garbage(ulRdOffset) : c.at = ulRdOffset} = {}
        /\ r = NotWritten
        /\ UNCHANGED ulRdOffset
  /\ UNCHANGED <<flash, ulWrOffset, xStorageStrategy>>

xDfmSessionSetStorageStrategy(s) ==
  /\ xStorageStrategy' = s
  /\ UNCHANGED <<flash, ulWrOffset, ulRdOffset>>

-----------------------------------------------------------------------------
(* Power failures.  RAM starts again as xDfmInitialize leaves it.          *)

PowerCycle == xDfmStoragePortInitialize

\* Power is lost while an entry is programmed.
TornWrite(e) ==
  /\ xStorageStrategy # "IGNORE"
  /\ Fits(ulWrOffset, e)
  /\ \E c \in Partial(ulWrOffset, e) : flash' = WriteBase \cup {c}
  /\ ulWrOffset' = 0
  /\ ulRdOffset' = 0
  /\ xStorageStrategy' = ConfigStrategy

\* Power is lost while the pages are erased.
TornErase ==
  /\ \E cut \in Cuts : flash' = ErasedBelow(cut)
  /\ ulWrOffset' = 0
  /\ ulRdOffset' = 0
  /\ xStorageStrategy' = ConfigStrategy

-----------------------------------------------------------------------------
(* The port under any sequence of calls a client may make.                 *)

\* The flash as it leaves the programmer: erased, or the zeros of the
\* initializer of dfmFlashData, which read as an entry of no use.
FlashImages ==
  { {} } \cup
  { {Cell(0, e, "headless")} : e \in {d \in Entry : Size[d] < Capacity} }

Init ==
  /\ flash \in FlashImages
  /\ ulWrOffset = 0
  /\ ulRdOffset = 0
  /\ xStorageStrategy = ConfigStrategy

Store == \E e \in Entry, ok \in BOOLEAN : xDfmStorageStore(e, ok)
Get   == \E r \in Result : xDfmStoragePortGetAlert(r)
Reset == \E ok \in BOOLEAN : xDfmStoragePortReset(ok)
SetStrategy == \E s \in Strategies : xDfmSessionSetStorageStrategy(s)
LosePower == PowerCycle \/ TornErase \/ \E e \in Entry : TornWrite(e)

Next == Store \/ Get \/ Reset \/ SetStrategy \/ LosePower

Spec == Init /\ [][Next]_portVars

-----------------------------------------------------------------------------
(* Properties.                                                             *)

CellType == [at : Nat, entry : Entry, state : CellStates]

\* The variables of the port keep their types.
TypeOK ==
  /\ flash \subseteq CellType
  /\ ulWrOffset \in Nat
  /\ ulRdOffset \in Nat
  /\ xStorageStrategy \in Strategies

\* Once something was written since the boot, everything programmed lies
\* below the write offset: the next write only touches erased flash, which
\* the double-word programming of the flash requires.
WritesGoToErasedFlash ==
  ulWrOffset # 0 => \A c \in flash : End(c) < ulWrOffset

\* Two entries never share a byte of the flash.
CellsAreDisjoint ==
  \A c, d \in flash : c # d => End(c) < d.at \/ End(d) < c.at

\* No entry reaches the end of the area, so what the erase covers is what
\* the writes use.
CellsAreInside == \A c \in flash : End(c) < Capacity

Layout == WritesGoToErasedFlash /\ CellsAreDisjoint /\ CellsAreInside

-----------------------------------------------------------------------------
(* What a comment of the code promises and the code does not keep.         *)

\* FLASH_write_at documents "0: Success" (st/flash_l4.c:115), and the port
\* passes it on as DFM_SUCCESS: an entry reported stored is all there.
StoredMeansProgrammed ==
  [][\A e \in Entry :
       xDfmStorageStore(e, TRUE) => Cell(ulWrOffset, e, "whole") \in flash']_portVars
=============================================================================
