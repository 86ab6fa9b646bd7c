----------------------------- MODULE SerialLink -----------------------------
(***************************************************************************)
(* The serial build of the demo, from the fault handler to the alert files *)
(* on the host: the Serial cloud port prints the entries of an alert as    *)
(* text (DFM/cloudports/Serial/dfmCloudPort.c), a terminal appends what    *)
(* arrives to a log file, and percepio_receiver.py reads the log line by   *)
(* line and writes a file per entry.                                       *)
(*                                                                         *)
(* The device may be reset in the middle of a print, and the receiver may  *)
(* read a line of which only a part has arrived.  Prints of other tasks do *)
(* not mix with an alert: in the demo only the fault handler sends one     *)
(* (see DFM_CFG_LOCK_SERIAL in dfmCloudPortConfig.h).                      *)
(*                                                                         *)
(* The log is a sequence of tokens.  A row of up to 20 bytes, of an entry  *)
(* printed as hexadecimal numbers, is one token.                           *)
(***************************************************************************)
EXTENDS Naturals, Sequences

CONSTANTS
  Rows,       (* Rows of each entry of an alert; the first is its header.    *)
  MaxBoots,   (* Bound: boots of the device.                                 *)
  Pieces,     (* Whether a line may be read before all of it has arrived.    *)
  SameSecond  (* Whether two alerts may be received within a second.         *)

Part  == 1 .. Len(Rows)
Boot  == 1 .. MaxBoots
Entry == [boot : Boot, part : Part]

ASSUME SerialAssumption ==
  /\ Rows \in Seq(Nat \ {0, 1}) /\ Len(Rows) >= 1
  /\ MaxBoots \in Nat \ {0}
  /\ Pieces \in BOOLEAN
  /\ SameSecond \in BOOLEAN

VARIABLES
  boot,        (* Device: the number of the boot.                            *)
  entry,       (* The entry being printed; 0 before the first one, and       *)
               (* Len(Rows) + 1 when the alert is out.                       *)
  lineNo,      (* Which line of it.                                          *)
  done,        (* The tokens of this line that were sent.                    *)
  log,         (* The log file, as far as it was not read yet.               *)
  printed,     (* Observed: entries printed to the end.                      *)
  line_buffer, (* Receiver: LineParser.line_buffer                           *)
  parsing,     (* LineParser.parsing                                         *)
  block,       (* block_parse_state = Parsing                                *)
  accumulated, (* accumulated_payload, as rows.                              *)
  session_id,  (* The second the last alert was received in; 0 for "".       *)
  files,       (* The alert files: the rows written, by name.                *)
  written,     (* Observed: the entries written, in order.                   *)
  alive        (* No exception has ended the receiver.                       *)

place    == <<entry, lineNo, done>>
device   == <<boot, place, log, printed>>
receiver == <<line_buffer, parsing, block, accumulated, session_id, files, written, alive>>
vars == <<device, receiver>>

-----------------------------------------------------------------------------
(* The device's output.                                                    *)

NoRow == [boot |-> 0, part |-> 0, row |-> 0]
Tok(k) == [kind |-> k, row |-> NoRow]
RowOf(b, p, r) == [boot |-> b, part |-> p, row |-> r]
TheRows(b, p) == [r \in 1 .. Rows[p] |-> RowOf(b, p, r)]

\* The mark at either end of an entry: "[[ ... ]]" and a newline.
Mark(k) == <<Tok("["), Tok("["), Tok(k), Tok("]"), Tok("]"), Tok("nl")>>

\* A turn of prvPrintDataAsHex: "[[ DATA:", the bytes, " ]]\n".
DataLine(b, p, r) ==
  <<Tok("["), Tok("["), Tok("DATA"), [kind |-> "row", row |-> RowOf(b, p, r)],
    Tok("]"), Tok("]"), Tok("nl")>>

\* prvSerialPortUploadEntry: an empty line, the start mark, the rows, the end
\* mark. In front of the first entry the boot prints a line of its own.
LastLine(p) == IF p = 0 THEN 0 ELSE Rows[p] + 2

Text(b, p, l) ==
  IF p = 0 THEN <<Tok("text"), Tok("nl")>>
  ELSE IF l = 0 THEN <<Tok("nl")>>
  ELSE IF l = 1 THEN Mark("Begins")
  ELSE IF l < LastLine(p) THEN DataLine(b, p, l - 1)
  ELSE Mark("Ended")

\* What is printed next, behind the last token of a line: the next line of the
\* entry, or the next entry in the order of prvDfmProcessAlert.
NextLine ==
  /\ done' = 0
  /\ IF lineNo < LastLine(entry)
     THEN /\ lineNo' = lineNo + 1
          /\ UNCHANGED <<entry, printed>>
     ELSE /\ lineNo' = 0
          /\ entry' = entry + 1
          /\ printed' = IF entry = 0 THEN printed
                        ELSE Append(printed, [boot |-> boot, part |-> entry])

\* The next token reaches the log.
Transmit ==
  /\ entry <= Len(Rows)
  /\ log' = Append(log, Text(boot, entry, lineNo)[done + 1])
  /\ IF done + 1 < Len(Text(boot, entry, lineNo))
     THEN /\ done' = done + 1
          /\ UNCHANGED <<entry, lineNo, printed>>
     ELSE NextLine
  /\ UNCHANGED <<boot, receiver>>

\* CRASH_FINALIZE resets the device when the alert is out; the reset button
\* or a loss of power may do so before.
DeviceReset ==
  /\ boot < MaxBoots
  /\ boot' = boot + 1
  /\ entry' = 0 /\ lineNo' = 0 /\ done' = 0
  /\ UNCHANGED <<log, printed, receiver>>

-----------------------------------------------------------------------------
(* LineParser.process.  The result says whether a line is complete.        *)

Kind(s, i) == s[i].kind
Opens(s)  == Len(s) >= 2 /\ Kind(s, 1) = "[" /\ Kind(s, 2) = "["
Closes(s) == Len(s) >= 2 /\ Kind(s, Len(s)) = "]" /\ Kind(s, Len(s) - 1) = "]"

Parsed(ret, buf, more) == [ret |-> ret, buffer |-> buf, parsing |-> more]

\* Not in the middle of a line.
ProcessFresh(line) ==
  IF Opens(line) /\ Closes(line) THEN Parsed(TRUE, line, FALSE)
  ELSE IF Opens(line) \/ line = <<Tok("[")>> THEN Parsed(FALSE, line, TRUE)
  ELSE Parsed(FALSE, <<>>, FALSE)

\* In the middle of one: only the new piece is looked at for "]]".
ProcessRest(line) ==
  LET whole == line_buffer \o line
  IN  IF Opens(line) /\ Closes(line) THEN Parsed(TRUE, line, FALSE)
      ELSE IF Opens(line) THEN Parsed(FALSE, line, TRUE)
      ELSE IF Closes(line) THEN Parsed(TRUE, whole, FALSE)
      ELSE IF Opens(whole) THEN Parsed(FALSE, whole, TRUE)
      ELSE Parsed(FALSE, <<>>, FALSE)

LineParser(line) == IF parsing THEN ProcessRest(line) ELSE ProcessFresh(line)

-----------------------------------------------------------------------------
(* DatablockParser.process_line.                                           *)

\* unhexlify of anything but digits raises an exception nobody catches.
DatablockParser(line) ==
  LET inner == SubSeq(line, 3, Len(line) - 2)
  IN  IF ~(Opens(line) /\ Closes(line)) \/ inner = <<>> THEN "NotDfm"
      ELSE IF inner = <<Tok("Begins")>> THEN "Start"
      ELSE IF Kind(inner, 1) = "DATA" /\ Len(inner) > 1 /\ Kind(inner, 2) = "row"
           THEN IF \A i \in 2 .. Len(inner) : Kind(inner, i) = "row" THEN "Data" ELSE "Raises"
      ELSE IF Kind(inner, 1) = "Ended" THEN "End"
      ELSE "NotDfm"

-----------------------------------------------------------------------------
(* DfmEntryParser on the accumulated bytes.                                *)

\* Mutant: the type of a payload entry is taken for an alert's.
is_header_payload(acc) == acc[1].row = 1 /\ acc[1].part # 1

\* DfmEntryParser.is_header, from the first row alone.
is_header(acc) == acc[1].row = 1 /\ acc[1].part = 1

\* EntryHeader.is_valid: start markers, and end markers where the sizes in the
\* header put them.
is_valid(acc) ==
  /\ acc[1].row = 1
  /\ Len(acc) >= Rows[acc[1].part]
  /\ LET last == acc[Rows[acc[1].part]]
     IN  last.row = Rows[last.part] /\ Rows[last.part] = Rows[acc[1].part]

\* Too short for the fields that are read: an exception nobody catches.
Truncated(acc) == Len(acc) = 1

\* EntryHeader.data
data(acc) == SubSeq(acc, 1, Rows[acc[1].part])

\* generate_mqtt_topic.  The device's alert id is 1 in every boot and the
\* device name is the same, so neither tells two alerts apart.
topic(session, acc) == <<session, acc[1].part>>

\* Mutant: only the first alert gets a session id.
SecondsOnce == IF session_id > 0 THEN {session_id} ELSE {1}

\* What time.time() can say when an alert header is received.
Seconds == IF SameSecond /\ session_id > 0 THEN {session_id, session_id + 1} ELSE {session_id + 1}

\* What becomes of a complete block, with --upload file.
WriteEntry(acc) ==
  /\ session_id' \in IF is_header(acc) THEN Seconds ELSE {session_id}
  /\ alive' = ~Truncated(acc)
  /\ IF alive' /\ is_valid(acc)
     THEN /\ files' = [t \in DOMAIN files \cup {topic(session_id', acc)} |->
                         IF t = topic(session_id', acc) THEN data(acc) ELSE files[t]]
          /\ written' = Append(written, [boot |-> acc[1].boot, part |-> acc[1].part])
     ELSE UNCHANGED <<files, written>>

-----------------------------------------------------------------------------
(* The main loop of percepio_receiver.py: one readline().                  *)

\* Mutant: a start in the middle of a block is ignored.
NewBlockOnce(acc) == IF block THEN acc ELSE <<>>

\* A start empties the accumulated payload, also in the middle of a block.
NewBlock(acc) == <<>>

HandleLine(line, kind) ==
  IF kind = "Raises" THEN
    /\ alive' = FALSE
    /\ UNCHANGED <<block, accumulated, session_id, files, written>>
  ELSE IF kind = "Start" THEN
    /\ block' = TRUE
    /\ accumulated' = NewBlock(accumulated)
    /\ UNCHANGED <<session_id, files, written, alive>>
  ELSE IF kind = "Data" /\ block THEN
    /\ accumulated' = Append(accumulated, line[4].row)
    /\ UNCHANGED <<block, session_id, files, written, alive>>
  ELSE IF kind = "End" /\ block THEN
    /\ block' = FALSE
    /\ IF accumulated = <<>>
       THEN UNCHANGED <<session_id, files, written, alive>>
       ELSE WriteEntry(accumulated)
    /\ UNCHANGED accumulated
  ELSE UNCHANGED <<block, accumulated, session_id, files, written, alive>>

NewLines == {i \in DOMAIN log : Kind(log, i) = "nl"}

\* How far a readline() gets: to the next newline, or to the end of what has
\* arrived so far.
ReadTo ==
  IF NewLines # {} THEN {i \in NewLines : \A j \in NewLines : i <= j}
  ELSE IF Pieces /\ log # <<>> THEN {Len(log)}
  ELSE {}

ReadLine ==
  /\ alive
  /\ \E end \in ReadTo :
       LET line   == SubSeq(log, 1, IF Kind(log, end) = "nl" THEN end - 1 ELSE end)
           parsed == LineParser(line)
       IN  /\ log' = SubSeq(log, end + 1, Len(log))
           /\ line_buffer' = parsed.buffer
           /\ parsing' = parsed.parsing
           /\ IF parsed.ret
              THEN HandleLine(parsed.buffer, DatablockParser(parsed.buffer))
              ELSE UNCHANGED <<block, accumulated, session_id, files, written, alive>>
  /\ UNCHANGED <<boot, place, printed>>

\* The device is off after its last boot and the log is read; or the receiver
\* is gone.
Over ==
  /\ boot = MaxBoots /\ entry > Len(Rows)
  /\ ReadTo = {} \/ ~alive
  /\ UNCHANGED vars

-----------------------------------------------------------------------------
Init ==
  /\ boot = 1
  /\ entry = 0 /\ lineNo = 0 /\ done = 0
  /\ log = <<>>
  /\ printed = <<>>
  /\ line_buffer = <<>>
  /\ parsing = FALSE
  /\ block = FALSE
  /\ accumulated = <<>>
  /\ session_id = 0
  /\ files = <<>>
  /\ written = <<>>
  /\ alive = TRUE

Next == Transmit \/ DeviceReset \/ ReadLine \/ Over

Spec == Init /\ [][Next]_vars

\* The receiver polls the log once a second.
FairSpec == Spec /\ WF_vars(ReadLine)

-----------------------------------------------------------------------------
(* Properties.                                                             *)

\* The variables keep their types: in particular no payload is ever written
\* before an alert gave it a session.
SerialTypeOK ==
  /\ boot \in Boot
  /\ entry \in 0 .. Len(Rows) + 1
  /\ lineNo \in 0 .. IF entry \in Part THEN LastLine(entry) ELSE 0
  /\ entry <= Len(Rows) => done \in 0 .. Len(Text(boot, entry, lineNo)) - 1
  /\ printed \in Seq(Entry) /\ written \in Seq(Entry)
  /\ parsing \in BOOLEAN /\ block \in BOOLEAN /\ alive \in BOOLEAN
  /\ session_id \in Nat
  /\ DOMAIN files \subseteq (Nat \ {0}) \X Part

\* Read line by line, the files of a session are entries of one alert, each of
\* them whole: whatever part of an alert a reset cut off, what is left of it is
\* neither written nor put together with the next alert.
SessionHoldsOneAlert ==
  \A s \in { t[1] : t \in DOMAIN files } : \E b \in Boot : \A t \in DOMAIN files :
    t[1] = s => files[t] = TheRows(b, t[2])

\* Read line by line, the link is the channel of EntryChannel: what the device
\* printed completely arrives, once and in order, wherever it is reset.
Channel == INSTANCE EntryChannel WITH Item <- Entry, sent <- printed, arrived <- written

ImplementsChannel == Channel!FairSpec

\* "If parsing in the middle of data being written to file, try to get the
\* whole line" (percepio_receiver.py:164): an entry printed completely is
\* written once the log was read past its end.
PiecesArePutTogether ==
  log = <<>> =>
    \A i \in DOMAIN printed : \E j \in DOMAIN written : written[j] = printed[i]

\* "this created a new SessionID based on the current time"
\* (percepio_receiver.py:212): an entry that was written is kept.
WrittenEntriesAreKept ==
  \A i \in DOMAIN written :
    \E t \in DOMAIN files : files[t] = TheRows(written[i].boot, written[i].part)
=============================================================================
