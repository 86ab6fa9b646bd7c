----------------------- MODULE FlashStoragePortProofs -----------------------
(***************************************************************************)
(* Proofs about FlashStoragePort, for every set of entries, every size of  *)
(* the area and of its pages, and with flash operations that may fail: the *)
(* types, and the layout of the log (Layout).                              *)
(*                                                                         *)
(* Layout is inductive together with TypeOK.  The step that matters is a   *)
(* write: the new cell starts at ulWrOffset, above everything that is      *)
(* there, and ulWrOffset moves past it because Span(s) > s.                *)
(***************************************************************************)
EXTENDS FlashStoragePort, TLAPS

\* The space an entry takes is more than its size.
LEMMA SpanExceedsSize ==
  ASSUME NEW s \in Nat
  PROVE  Span(s) \in Nat /\ s < Span(s)
  BY SMT DEF Span

\* The end of a well-typed cell is its start plus the size of its entry.
LEMMA EndOfCell ==
  ASSUME NEW c \in CellType
  PROVE  /\ End(c) = c.at + Size[c.entry]
         /\ End(c) \in Nat
         /\ c.at < End(c)
  <1>1. c.at \in Nat /\ c.entry \in Entry
    BY DEF CellType
  <1>2. Size[c.entry] \in Nat /\ Size[c.entry] > 0
    BY <1>1, EntryAssumption
  <1> QED
    BY <1>1, <1>2 DEF End

\* A new cell is well typed and has the place it was given.
LEMMA NewCell ==
  ASSUME NEW at \in Nat, NEW e \in Entry, NEW s \in CellStates
  PROVE  /\ Cell(at, e, s) \in CellType
         /\ Cell(at, e, s).at = at
         /\ End(Cell(at, e, s)) = at + Size[e]
  BY DEF Cell, CellType, End

\* S is laid out as the port wants it, below limit.
WellPlaced(S, limit) ==
  /\ S \subseteq CellType
  /\ \A c \in S : End(c) < limit
  /\ \A c, d \in S : c # d => End(c) < d.at \/ End(d) < c.at

\* A cell that is added where the others end keeps the layout.
LEMMA AppendCell ==
  ASSUME NEW S, NEW at \in Nat, WellPlaced(S, at),
         NEW e \in Entry, NEW s \in CellStates,
         NEW limit \in Nat, at + Span(Size[e]) <= limit
  PROVE  WellPlaced(S \cup {Cell(at, e, s)}, limit)
  <1> DEFINE n == Cell(at, e, s)
  <1>1. n \in CellType /\ n.at = at /\ End(n) = at + Size[e]
    BY NewCell
  <1>2. Size[e] \in Nat /\ Size[e] < Span(Size[e]) /\ Span(Size[e]) \in Nat
    BY EntryAssumption, SpanExceedsSize
  <1>3. End(n) < limit /\ at < limit
    BY <1>1, <1>2
  <1>4. ASSUME NEW c \in S
        PROVE  End(c) < limit /\ End(c) < n.at
    <2>1. c \in CellType /\ End(c) < at
      BY DEF WellPlaced
    <2>2. End(c) \in Nat
      BY <2>1, EndOfCell
    <2> QED
      BY <1>1, <1>3, <2>1, <2>2
  <1> HIDE DEF n
  <1>5. S \cup {n} \subseteq CellType
    BY <1>1 DEF WellPlaced
  <1>6. \A c \in S \cup {n} : End(c) < limit
    BY <1>3, <1>4
  <1>7. \A c, d \in S \cup {n} : c # d => End(c) < d.at \/ End(d) < c.at
    BY <1>4 DEF WellPlaced
  <1>8. WellPlaced(S \cup {n}, limit)
    BY <1>5, <1>6, <1>7 DEF WellPlaced
  <1> QED
    BY <1>8 DEF n

\* An erase that stops early leaves cells where cells were.
LEMMA EraseKeepsPlaces ==
  ASSUME NEW cut \in Nat, NEW limit, WellPlaced(flash, limit)
  PROVE  WellPlaced(ErasedBelow(cut), limit)
  <1> DEFINE torn(d) == [d EXCEPT !.state = "residue"]
             cutOff == {d \in flash : d.at < cut /\ cut < End(d)}
  <1>1. ASSUME NEW d \in CellType
        PROVE  /\ torn(d) \in CellType
               /\ torn(d).at = d.at
               /\ End(torn(d)) = End(d)
    <2>1. torn(d) = [at |-> d.at, entry |-> d.entry, state |-> "residue"]
      BY DEF CellType
    <2>2. d.at \in Nat /\ d.entry \in Entry /\ "residue" \in CellStates
      BY DEF CellType, CellStates
    <2> QED
      BY <2>1, <2>2 DEF CellType, End
  <1>2. ErasedBelow(cut) = {c \in flash : c.at >= cut} \cup {torn(d) : d \in cutOff}
    BY DEF ErasedBelow
  <1>3. cutOff \subseteq flash /\ flash \subseteq CellType
    BY DEF WellPlaced
  <1> HIDE DEF torn, cutOff
  <1>4. ASSUME NEW c \in ErasedBelow(cut)
        PROVE  \E d \in flash : /\ c \in CellType
                                /\ c.at = d.at
                                /\ End(c) = End(d)
                                /\ \/ c = d /\ d \notin cutOff
                                   \/ c = torn(d) /\ d \in cutOff
    <2>1. CASE c \in flash /\ c.at >= cut
      <3>1. c.at \in Nat /\ c \in CellType
        BY <1>3, <2>1 DEF CellType
      <3>2. c \notin cutOff
        BY <2>1, <3>1 DEF cutOff
      <3> QED
        BY <2>1, <3>1, <3>2
    <2>2. CASE \E d \in cutOff : c = torn(d)
      BY <1>1, <1>3, <2>2
    <2> QED
      BY <1>2, <2>1, <2>2
  <1>5. ASSUME NEW c \in ErasedBelow(cut), NEW d \in ErasedBelow(cut), c # d
        PROVE  End(c) < d.at \/ End(d) < c.at
    <2>1. PICK x \in flash : /\ c.at = x.at /\ End(c) = End(x)
                             /\ \/ c = x /\ x \notin cutOff
                                \/ c = torn(x) /\ x \in cutOff
      BY <1>4
    <2>2. PICK y \in flash : /\ d.at = y.at /\ End(d) = End(y)
                             /\ \/ d = y /\ y \notin cutOff
                                \/ d = torn(y) /\ y \in cutOff
      BY <1>4
    <2>3. x # y
      BY <1>5, <2>1, <2>2
    <2> QED
      BY <2>1, <2>2, <2>3 DEF WellPlaced
  <1>6. \A c \in ErasedBelow(cut) : c \in CellType /\ End(c) < limit
    BY <1>4 DEF WellPlaced
  <1> QED
    BY <1>5, <1>6 DEF WellPlaced

-----------------------------------------------------------------------------

\* The inductive invariant in the form the steps need it.
Inv ==
  /\ WellPlaced(flash, Capacity)
  /\ ulWrOffset # 0 => WellPlaced(flash, ulWrOffset)
  /\ ulWrOffset \in Nat
  /\ ulRdOffset \in Nat
  /\ xStorageStrategy \in Strategies

\* It is the type invariant and the layout.
LEMMA InvMeaning == Inv <=> TypeOK /\ Layout
  BY DEF Inv, WellPlaced, TypeOK, Layout, WritesGoToErasedFlash, CellsAreDisjoint, CellsAreInside

\* Nothing programmed is laid out well.
LEMMA EmptyPlaced == \A limit : WellPlaced({}, limit)
  BY DEF WellPlaced

\* The flash leaves the programmer laid out well.
LEMMA InitInv == Init => Inv
  <1> SUFFICES ASSUME Init PROVE Inv
    OBVIOUS
  <1>1. xStorageStrategy \in Strategies /\ ulWrOffset = 0 /\ ulRdOffset = 0
    BY FlashAssumption DEF Init
  <1>2. CASE flash = {}
    BY <1>1, <1>2, EmptyPlaced DEF Inv
  <1>3. CASE \E e \in Entry : Size[e] < Capacity /\ flash = {Cell(0, e, "headless")}
    <2>1. PICK e \in Entry : Size[e] < Capacity /\ flash = {Cell(0, e, "headless")}
      BY <1>3
    <2>2. "headless" \in CellStates
      BY DEF CellStates
    <2> DEFINE n == Cell(0, e, "headless")
    <2>3. n \in CellType /\ End(n) = 0 + Size[e]
      BY <2>2, NewCell
    <2>4. Size[e] \in Nat
      BY EntryAssumption
    <2> HIDE DEF n
    <2>5. End(n) < Capacity
      BY <2>1, <2>3, <2>4
    <2>6. WellPlaced({n}, Capacity)
      BY <2>3, <2>5 DEF WellPlaced
    <2> QED
      BY <1>1, <2>1, <2>6 DEF Inv, n
  <1> QED
    BY <1>2, <1>3 DEF Init, FlashImages

\* A failing erase stops at the start of a page.
LEMMA CutsAreOffsets == Cuts \subseteq Nat
  <1> SUFFICES ASSUME NEW p \in 0 .. (Capacity \div PageSize) PROVE p * PageSize \in Nat
    BY DEF Cuts
  <1> QED
    BY FlashAssumption

\* The offsets and the strategy that xDfmInitialize sets go with any flash that
\* is laid out well.
LEMMA InitializeInv ==
  ASSUME WellPlaced(flash, Capacity)',
         ulWrOffset' = 0, ulRdOffset' = 0, xStorageStrategy' = ConfigStrategy
  PROVE  Inv'
  BY FlashAssumption DEF Inv

\* Erasing, completely or not, keeps the invariant.
LEMMA ResetInv ==
  ASSUME Inv, NEW ok \in BOOLEAN, xDfmStoragePortReset(ok)
  PROVE  Inv'
  <1>1. CASE flash' = {} /\ xStorageStrategy' = "OVERWRITE"
    BY <1>1, EmptyPlaced DEF Inv, xDfmStoragePortReset, Strategies
  <1>2. CASE (\E cut \in Cuts : flash' = ErasedBelow(cut)) /\ xStorageStrategy' = xStorageStrategy
    <2>1. PICK cut \in Cuts : flash' = ErasedBelow(cut)
      BY <1>2
    <2>2. \A limit : WellPlaced(flash, limit) => WellPlaced(flash', limit)
      BY <2>1, CutsAreOffsets, EraseKeepsPlaces
    <2> QED
      BY <1>2, <2>2 DEF Inv, xDfmStoragePortReset
  <1> QED
    BY <1>1, <1>2 DEF xDfmStoragePortReset

\* What is there when an entry is programmed ends below the write offset.
LEMMA WriteBasePlaced ==
  ASSUME Inv
  PROVE  WellPlaced(WriteBase, ulWrOffset) /\ WellPlaced(WriteBase, Capacity)
  BY EmptyPlaced DEF Inv, WriteBase

\* Any cell an attempt to program e can leave keeps the flash laid out well.
LEMMA ProgramInv ==
  ASSUME Inv, NEW e \in Entry, NEW s \in CellStates, NEW limit \in Nat,
         ulWrOffset + Span(Size[e]) <= limit
  PROVE  WellPlaced(WriteBase \cup {Cell(ulWrOffset, e, s)}, limit)
  <1>1. ulWrOffset \in Nat
    BY DEF Inv
  <1> QED
    BY <1>1, WriteBasePlaced, AppendCell

\* The write offset moves up, so what ended below it still does.
LEMMA PlacedHigher ==
  ASSUME NEW S, NEW low \in Nat, NEW high \in Nat, low <= high, WellPlaced(S, low)
  PROVE  WellPlaced(S, high)
  <1>1. \A c \in S : End(c) \in Nat
    BY EndOfCell DEF WellPlaced
  <1> QED
    BY <1>1 DEF WellPlaced

\* Storing an entry keeps the invariant, also when the entry does not fit, when
\* programming stops early and when the erase before the first write fails.
LEMMA WriteInv ==
  ASSUME Inv, NEW e \in Entry, NEW ok \in BOOLEAN, prvDfmStoragePortWrite(e, ok)
  PROVE  Inv'
  <1>1. CASE xDfmStoragePortReset(FALSE)
    BY <1>1, ResetInv
  <1>2. CASE /\ ulWrOffset' = ulWrOffset + Span(Size[e])
             /\ xStorageStrategy' = IF ulWrOffset = 0 THEN "OVERWRITE" ELSE xStorageStrategy
             /\ ulRdOffset' = ulRdOffset
             /\ IF Fits(ulWrOffset, e)
                THEN FLASH_write_at(WriteBase, ulWrOffset, e, ok)
                ELSE ~ok /\ flash' = WriteBase
    <2>1. /\ ulWrOffset \in Nat /\ ulRdOffset \in Nat /\ xStorageStrategy \in Strategies
          /\ Span(Size[e]) \in Nat /\ Size[e] < Span(Size[e]) /\ Size[e] \in Nat
          /\ Capacity \in Nat
      BY EntryAssumption, FlashAssumption, SpanExceedsSize DEF Inv
    <2>2. ulWrOffset' \in Nat /\ ulWrOffset <= ulWrOffset'
      BY <1>2, <2>1
    <2>3. xStorageStrategy' \in Strategies /\ ulRdOffset' \in Nat
      BY <1>2, <2>1 DEF Strategies
    <2>4. CASE flash' = WriteBase
      <3>1. WellPlaced(flash', Capacity) /\ WellPlaced(flash', ulWrOffset')
        BY <2>1, <2>2, <2>4, WriteBasePlaced, PlacedHigher
      <3> QED
        BY <2>2, <2>3, <3>1 DEF Inv
    <2>5. CASE /\ Fits(ulWrOffset, e)
               /\ \E s \in CellStates : flash' = WriteBase \cup {Cell(ulWrOffset, e, s)}
      <3>1. PICK s \in CellStates : flash' = WriteBase \cup {Cell(ulWrOffset, e, s)}
        BY <2>5
      <3>2. ulWrOffset + Span(Size[e]) <= ulWrOffset' /\ ulWrOffset + Span(Size[e]) <= Capacity
        BY <1>2, <2>1, <2>5 DEF Fits
      <3>3. WellPlaced(flash', ulWrOffset') /\ WellPlaced(flash', Capacity)
        BY <2>1, <2>2, <3>1, <3>2, ProgramInv
      <3> QED
        BY <2>2, <2>3, <3>3 DEF Inv
    <2>6. ASSUME FLASH_write_at(WriteBase, ulWrOffset, e, ok)
          PROVE  \/ flash' = WriteBase
                 \/ \E s \in CellStates : flash' = WriteBase \cup {Cell(ulWrOffset, e, s)}
      BY <2>6 DEF FLASH_write_at, Partial, CellStates
    <2> QED
      BY <1>2, <2>4, <2>5, <2>6
  <1> QED
    BY <1>1, <1>2 DEF prvDfmStoragePortWrite

\* Reading moves the read offset only.
LEMMA GetInv ==
  ASSUME Inv, NEW r \in Result, xDfmStoragePortGetAlert(r)
  PROVE  Inv'
  <1>1. ulRdOffset \in Nat /\ BufferSize \in Nat
    BY FlashAssumption DEF Inv
  <1>2. Span(BufferSize) \div 8 \in Nat
    BY <1>1, SMT DEF Span
  <1>3. ulRdOffset' \in Nat
    <2>1. CASE \E c \in Readable(ulRdOffset) : ulRdOffset' = ulRdOffset + Span(Size[c.entry])
      <3>1. PICK c \in flash : ulRdOffset' = ulRdOffset + Span(Size[c.entry])
        BY <2>1 DEF Readable
      <3>2. c.entry \in Entry
        BY DEF Inv, WellPlaced, CellType
      <3>3. Span(Size[c.entry]) \in Nat
        BY <3>2, EntryAssumption, SpanExceedsSize
      <3> QED
        BY <1>1, <3>1, <3>3
    <2>2. CASE \E k \in 1 .. (Span(BufferSize) \div 8) : ulRdOffset' = ulRdOffset + 8 * k
      BY <1>1, <1>2, <2>2
    <2>3. CASE ulRdOffset' = ulRdOffset
      BY <1>1, <2>3
    <2> QED
      BY <2>1, <2>2, <2>3 DEF xDfmStoragePortGetAlert
  <1> QED
    BY <1>3 DEF Inv, xDfmStoragePortGetAlert

\* Power may fail while an entry is programmed.
LEMMA TornWriteInv ==
  ASSUME Inv, NEW e \in Entry, TornWrite(e)
  PROVE  Inv'
  <1>1. PICK s \in CellStates : flash' = WriteBase \cup {Cell(ulWrOffset, e, s)}
    BY DEF TornWrite, Partial, CellStates
  <1>2. ulWrOffset + Span(Size[e]) <= Capacity /\ Capacity \in Nat
    BY EntryAssumption, FlashAssumption, SpanExceedsSize DEF TornWrite, Fits, Inv
  <1>3. WellPlaced(flash', Capacity)
    BY <1>1, <1>2, ProgramInv
  <1> QED
    BY <1>3, InitializeInv DEF TornWrite

\* Power may fail while the pages are erased.
LEMMA TornEraseInv ==
  ASSUME Inv, TornErase
  PROVE  Inv'
  <1>1. PICK cut \in Cuts : flash' = ErasedBelow(cut)
    BY DEF TornErase
  <1>2. WellPlaced(flash', Capacity)
    BY <1>1, CutsAreOffsets, EraseKeepsPlaces DEF Inv
  <1> QED
    BY <1>2, InitializeInv DEF TornErase

\* Every step of the port keeps the invariant.
LEMMA NextInv == Inv /\ [Next]_portVars => Inv'
  <1> SUFFICES ASSUME Inv, [Next]_portVars PROVE Inv'
    OBVIOUS
  <1>1. CASE Store
    <2>1. PICK e \in Entry, ok \in BOOLEAN : xDfmStorageStore(e, ok)
      BY <1>1 DEF Store
    <2>2. CASE prvDfmStoragePortWrite(e, ok)
      BY <2>2, WriteInv
    <2>3. CASE UNCHANGED portVars
      BY <2>3 DEF Inv, portVars, WellPlaced
    <2> QED
      BY <2>1, <2>2, <2>3 DEF xDfmStorageStore, portVars
  <1>2. CASE Get
    BY <1>2, GetInv DEF Get
  <1>3. CASE Reset
    BY <1>3, ResetInv DEF Reset
  <1>4. CASE SetStrategy
    BY <1>4 DEF SetStrategy, xDfmSessionSetStorageStrategy, Inv, WellPlaced
  <1>5. CASE PowerCycle
    <2>1. WellPlaced(flash, Capacity)'
      BY <1>5 DEF PowerCycle, xDfmStoragePortInitialize, Inv, WellPlaced
    <2> QED
      BY <1>5, <2>1, InitializeInv DEF PowerCycle, xDfmStoragePortInitialize
  <1>6. CASE TornErase
    BY <1>6, TornEraseInv
  <1>7. CASE \E e \in Entry : TornWrite(e)
    BY <1>7, TornWriteInv
  <1>8. CASE UNCHANGED portVars
    BY <1>8 DEF Inv, portVars, WellPlaced
  <1> QED
    BY <1>1, <1>2, <1>3, <1>4, <1>5, <1>6, <1>7, <1>8 DEF Next, LosePower

\* Inv holds in every reachable state of the port.
LEMMA InvHolds == Spec => []Inv
  BY InitInv, NextInv, PTL DEF Spec

\* The variables of the storage port keep their types, for every set of
\* entries, every size of the area and any failures of the flash.
THEOREM PortTypeCorrect == Spec => []TypeOK
  <1>1. Inv => TypeOK
    BY InvMeaning
  <1> QED
    BY <1>1, InvHolds, PTL

\* The log in flash is always laid out as the port needs it: prvDfmStoragePortWrite
\* only programs erased flash, no two entries overlap and none leaves the area,
\* however erases, writes and power fail.
THEOREM PortLayout == Spec => [](WritesGoToErasedFlash /\ CellsAreDisjoint /\ CellsAreInside)
  <1>1. Inv => WritesGoToErasedFlash /\ CellsAreDisjoint /\ CellsAreInside
    BY InvMeaning DEF Layout
  <1> QED
    BY <1>1, InvHolds, PTL

\* What the next write programs is erased, for any size of the pages.
THEOREM WritesErased == Spec => []WritesGoToErasedFlash
  BY PortLayout, PTL

\* No entry reaches the end of the area, for any size of it.
THEOREM StaysInside == Spec => []CellsAreInside
  BY PortLayout, PTL
=============================================================================
