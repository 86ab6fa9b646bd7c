------------------------- MODULE AlertChunksProofs --------------------------
(***************************************************************************)
(* Proofs about what AlertBuilder puts into the entries, for any calls that*)
(* make up the alerts, any chunk size and table sizes, and a fault between *)
(* any two steps:                                                          *)
(*   - the alert object, the payload table and the job keep their bounds;  *)
(*   - the chunk entries of a payload tile it;                             *)
(*   - the crash dump the fault handler hands on is whole.                 *)
(*                                                                         *)
(* They rest on PieceInv: JobAt says where in its payload ulOffset is when *)
(* a chunk's entry is made, Making that the entry handed on is the one the *)
(* job stands at; and for the dump on PlanInv, which follows the calls of  *)
(* the fault handler.                                                      *)
(***************************************************************************)
EXTENDS AlertBuilderProofs, Integers

-----------------------------------------------------------------------------
(* The crash dump's buffer.                                                *)

\* The buffer with everything written so far in it.
BufferAt(n) == [used |-> n, dropped |-> 0]

\* The buffer takes the pieces one after the other: some function does, so
\* the recursive one is defined.
LEMMA BufferFollows ==
  ASSUME NEW pieces, NEW g,
         g = [k \in 0 .. Len(pieces) |->
                IF k = 0 THEN EmptyBuffer ELSE DumpMemory(g[k - 1], pieces[k])]
  PROVE  BufferAfter(pieces)
           = [k \in 0 .. Len(pieces) |->
                IF k = 0 THEN EmptyBuffer
                ELSE DumpMemory(BufferAfter(pieces)[k - 1], pieces[k])]
  <1> DEFINE Follows(f) == f = [k \in 0 .. Len(pieces) |->
                IF k = 0 THEN EmptyBuffer ELSE DumpMemory(f[k - 1], pieces[k])]
             after == CHOOSE f : Follows(f)
  <1>1. BufferAfter(pieces) = after
    BY Zenon DEF BufferAfter
  <1>2. Follows(g)
    OBVIOUS
  <1> HIDE DEF Follows
  <1>3. Follows(after)
    BY <1>2, Zenon
  <1> HIDE DEF after
  <1> QED
    BY <1>1, <1>3 DEF Follows

\* A piece is written where there is room.
LEMMA PieceIsWritten ==
  ASSUME NEW used \in Nat, NEW size \in Nat, used + size < CRASH_DUMP_BUFFER_SIZE
  PROVE  DumpMemory(BufferAt(used), size) = BufferAt(used + size)
  <1>1. ~(used + size >= CRASH_DUMP_BUFFER_SIZE)
    BY DumpAssumption DEF CRASH_DUMP_BUFFER_SIZE
  <1>2. size = 0 => used + size = used
    OBVIOUS
  <1> QED
    BY <1>1, <1>2 DEF DumpMemory, BufferAt

\* Pieces that add up to less than the buffer are all written.
LEMMA AllWritten ==
  ASSUME NEW pieces \in Seq(Nat), NEW sums,
         sums \in [0 .. Len(pieces) -> Nat],
         sums[0] = 0,
         \A k \in 1 .. Len(pieces) :
           /\ sums[k] = sums[k - 1] + pieces[k]
           /\ sums[k] < CRASH_DUMP_BUFFER_SIZE
  PROVE  /\ BufferAfter(pieces)[0] = BufferAt(sums[0])
         /\ \A k \in 1 .. Len(pieces) :
              BufferAfter(pieces)[k - 1] = BufferAt(sums[k - 1])
                => BufferAfter(pieces)[k] = BufferAt(sums[k])
  <1> DEFINE n == Len(pieces)
             g == [k \in 0 .. n |-> BufferAt(sums[k])]
             buffer == BufferAfter(pieces)
  <1>1. EmptyBuffer = BufferAt(0)
    BY DEF EmptyBuffer, BufferAt
  <1>2. \A k \in 1 .. n : DumpMemory(BufferAt(sums[k - 1]), pieces[k]) = BufferAt(sums[k])
    <2> TAKE k \in 1 .. n
    <2>1. k - 1 \in 0 .. n /\ pieces[k] \in Nat
      OBVIOUS
    <2>2. sums[k - 1] \in Nat /\ sums[k - 1] + pieces[k] = sums[k]
      BY <2>1
    <2>3. sums[k - 1] + pieces[k] < CRASH_DUMP_BUFFER_SIZE
      BY <2>2
    <2> QED
      BY <2>1, <2>2, <2>3, PieceIsWritten
  <1>3. g = [k \in 0 .. n |->
               IF k = 0 THEN EmptyBuffer ELSE DumpMemory(g[k - 1], pieces[k])]
    <2>1. \A k \in 0 .. n :
            BufferAt(sums[k]) = IF k = 0 THEN EmptyBuffer ELSE DumpMemory(g[k - 1], pieces[k])
      <3> TAKE k \in 0 .. n
      <3>1. CASE k = 0
        BY <1>1, <3>1
      <3>2. CASE k # 0
        <4>1. k \in 1 .. n /\ k - 1 \in 0 .. n
          BY <3>2
        <4>2. g[k - 1] = BufferAt(sums[k - 1])
          BY <4>1
        <4> QED
          BY <1>2, <3>2, <4>1, <4>2
      <3> QED
        BY <3>1, <3>2
    <2> QED
      BY <2>1
  <1> HIDE DEF g
  <1>4. buffer = [k \in 0 .. n |->
                    IF k = 0 THEN EmptyBuffer ELSE DumpMemory(buffer[k - 1], pieces[k])]
    BY <1>3, BufferFollows
  <1> HIDE DEF buffer
  <1>5. buffer[0] = BufferAt(0)
    BY <1>1, <1>4
  <1>6. \A k \in 1 .. n : buffer[k] = DumpMemory(buffer[k - 1], pieces[k])
    BY <1>4
  <1>7. \A k \in 1 .. n : buffer[k - 1] = BufferAt(sums[k - 1]) => buffer[k] = BufferAt(sums[k])
    BY <1>2, <1>6
  <1> QED
    BY <1>5, <1>7 DEF buffer

\* All pieces together fit: none is dropped.
LEMMA DumpFits ==
  ASSUME NEW fp \in BOOLEAN
  PROVE  Dump(fp) = BufferAt((IF fp THEN 256 ELSE 124) + StackCapture)
  <1> DEFINE f == IF fp THEN 132 ELSE 0
             S == StackCapture
             list == Pieces(fp)
             total == <<4, 8, 24, 56, 60, 64, 76, 88, 88 + f, 96 + f, 96 + f + S,
                        104 + f + S, 124 + f + S>>
             sums == [k \in 0 .. 13 |-> IF k = 0 THEN 0 ELSE total[k]]
             buffer == BufferAfter(list)
  <1>1. list = <<4, 4, 16, 32, 4, 4, 12, 12, f, 8, S, 8, 20>>
    BY DEF Pieces
  <1>2. f \in 0 .. 132 /\ S \in Nat
    BY DumpAssumption
  <1>3. 124 + f = IF fp THEN 256 ELSE 124
    OBVIOUS
  <1> HIDE DEF f, list
  <1>4. Len(list) = 13 /\ list \in Seq(Nat)
    BY <1>1, <1>2
  <1>5. sums \in [0 .. 13 -> Nat] /\ sums[0] = 0
    BY <1>2
  <1>6. \A k \in 1 .. 13 : sums[k] = sums[k - 1] + list[k]
    BY <1>1, <1>2
  <1>7. \A k \in 1 .. 13 : sums[k] < CRASH_DUMP_BUFFER_SIZE
    BY <1>2 DEF CRASH_DUMP_BUFFER_SIZE
  <1>8. sums[13] = 124 + f + S
    BY <1>2
  <1> HIDE DEF sums
  <1>9. /\ buffer[0] = BufferAt(sums[0])
        /\ \A k \in 1 .. 13 :
             buffer[k - 1] = BufferAt(sums[k - 1]) => buffer[k] = BufferAt(sums[k])
    <2>1. /\ sums \in [0 .. Len(list) -> Nat]
          /\ \A k \in 1 .. Len(list) :
               /\ sums[k] = sums[k - 1] + list[k]
               /\ sums[k] < CRASH_DUMP_BUFFER_SIZE
      BY <1>4, <1>5, <1>6, <1>7
    <2>2. /\ BufferAfter(list)[0] = BufferAt(sums[0])
          /\ \A k \in 1 .. Len(list) :
               BufferAfter(list)[k - 1] = BufferAt(sums[k - 1])
                 => BufferAfter(list)[k] = BufferAt(sums[k])
      BY <1>4, <1>5, <2>1, AllWritten
    <2> QED
      BY <1>4, <2>2
  <1> HIDE DEF buffer
  <1>10. /\ buffer[1] = BufferAt(sums[1]) /\ buffer[2] = BufferAt(sums[2])
         /\ buffer[3] = BufferAt(sums[3]) /\ buffer[4] = BufferAt(sums[4])
    BY <1>9
  <1>11. /\ buffer[5] = BufferAt(sums[5]) /\ buffer[6] = BufferAt(sums[6])
         /\ buffer[7] = BufferAt(sums[7]) /\ buffer[8] = BufferAt(sums[8])
    BY <1>9, <1>10
  <1>12. buffer[13] = BufferAt(sums[13])
    BY <1>9, <1>11
  <1>13. Dump(fp) = buffer[13]
    BY <1>4 DEF Dump, buffer, list
  <1>14. 124 + f + S = (IF fp THEN 256 ELSE 124) + S
    BY <1>3
  <1> QED
    BY <1>8, <1>12, <1>13, <1>14

-----------------------------------------------------------------------------
(* Chunks of a payload.                                                    *)

\* Division rounds down.
LEMMA DivFacts ==
  ASSUME NEW a \in Nat, NEW c \in Nat \ {0}
  PROVE  /\ a \div c \in Nat
         /\ (a \div c) * c <= a
         /\ a < (a \div c) * c + c
  OBVIOUS

\* What fits is not cut off.
LEMMA ModSmall ==
  ASSUME NEW a \in Nat, NEW b \in Nat, a < b
  PROVE  a % b = a
  OBVIOUS

LEMMA ProductLess ==
  ASSUME NEW q \in Nat, NEW m \in Int, NEW c \in Nat \ {0}, q * c < c * m
  PROVE  q < m
  OBVIOUS

LEMMA ProductMonotone ==
  ASSUME NEW p \in Int, NEW q \in Int, NEW c \in Nat, p <= q
  PROVE  p * c <= q * c
  OBVIOUS

\* A payload of the size there can be has its chunks counted, and the last
\* one is not empty.
LEMMA ChunkCountFacts ==
  ASSUME NEW size \in 1 .. ChunkSize * MostChunks
  PROVE  /\ ChunkCount(size) \in Nat
         /\ (ChunkCount(size) - 1) * ChunkSize < size
         /\ size <= ChunkCount(size) * ChunkSize
  <1> DEFINE q == (size - 1) \div ChunkSize
  <1>1. ChunkSize \in Nat \ {0} /\ MostChunks \in Int /\ MostChunks + 1 \in Nat
    BY BuilderAssumption DEF MostChunks
  <1>2. size - 1 \in Nat /\ size \in Nat /\ size - 1 < ChunkSize * MostChunks
    BY <1>1
  <1>3. q \in Nat /\ q * ChunkSize <= size - 1 /\ size - 1 < q * ChunkSize + ChunkSize
    BY <1>1, <1>2, DivFacts
  <1> HIDE DEF q
  <1>4. q < MostChunks
    <2>1. q * ChunkSize \in Int /\ ChunkSize * MostChunks \in Int
      BY <1>1, <1>3
    <2>2. q * ChunkSize < ChunkSize * MostChunks
      BY <1>2, <1>3, <2>1
    <2> QED
      BY <1>1, <1>3, <2>2, ProductLess
  <1>5. ChunkCount(size) = q + 1
    <2>1. q + 1 \in Nat /\ q + 1 < MostChunks + 1
      BY <1>1, <1>3, <1>4
    <2>2. (q + 1) % (MostChunks + 1) = q + 1
      BY <1>1, <2>1, ModSmall
    <2> QED
      BY <2>2 DEF ChunkCount, q
  <1>6. (q + 1) * ChunkSize = q * ChunkSize + ChunkSize /\ q + 1 - 1 = q
    BY <1>1, <1>3
  <1>7. q * ChunkSize \in Nat
    BY <1>1, <1>3
  <1> QED
    BY <1>1, <1>2, <1>3, <1>5, <1>6, <1>7

\* Every chunk but the last is full, and the last one reaches the end.
LEMMA ChunkFacts ==
  ASSUME NEW size \in 1 .. ChunkSize * MostChunks,
         NEW c \in Nat, 0 < c, c <= ChunkCount(size)
  PROVE  /\ (c - 1) * ChunkSize \in Nat
         /\ (c - 1) * ChunkSize < size
         /\ (c - 1) * ChunkSize + ChunkSize = c * ChunkSize
         /\ c < ChunkCount(size) => size - (c - 1) * ChunkSize > ChunkSize
         /\ c = ChunkCount(size) => size - (c - 1) * ChunkSize <= ChunkSize
  <1> DEFINE n == ChunkCount(size)
             o == (c - 1) * ChunkSize
             e == c * ChunkSize
  <1>1. ChunkSize \in Nat \ {0} /\ size \in Nat
    BY BuilderAssumption DEF MostChunks
  <1>2. n \in Nat /\ (n - 1) * ChunkSize < size /\ size <= n * ChunkSize
    BY ChunkCountFacts
  <1> HIDE DEF n
  <1>3. o \in Nat /\ e \in Nat /\ o + ChunkSize = e
    BY <1>1
  <1>4. (n - 1) * ChunkSize \in Int /\ n * ChunkSize \in Int
    BY <1>1, <1>2
  <1>5. o <= (n - 1) * ChunkSize
    BY <1>1, <1>2, ProductMonotone DEF n
  <1>6. c < n => e <= (n - 1) * ChunkSize
    BY <1>1, <1>2, ProductMonotone
  <1>7. c = n => e = n * ChunkSize
    OBVIOUS
  <1> HIDE DEF o, e
  <1>8. /\ o < size
        /\ c < n => size - o > ChunkSize
        /\ c = n => size - o <= ChunkSize
    BY <1>1, <1>2, <1>3, <1>4, <1>5, <1>6, <1>7
  <1> QED
    BY <1>3, <1>8 DEF o, e, n

-----------------------------------------------------------------------------
(* The invariant.                                                          *)

Sizes == 0 .. ChunkSize * MostChunks

Tables ==
  /\ alert \in [of : 0 .. begun, symptoms : [1 .. MaxSymptoms -> 0 .. begun],
                count : 0 .. MaxSymptoms]
  /\ payloads \in [slots : [1 .. MaxPayloads -> [of : 0 .. begun, size : Sizes]],
                   count : 0 .. MaxPayloads]
  /\ \A k \in 1 .. payloads.count : payloads.slots[k].size > 0

\* An alert is numbered once it is begun, an id made once it is asked for.
Numbers ==
  /\ begun \in Nat /\ ulAlertCounter \in 0 .. begun
  /\ pc = "begun" => ulAlertCounter < begun
  /\ callbacks \in Nat /\ sessionId \in 0 .. callbacks

\* What is being counted has a slot.
Counting ==
  pc = "counting" =>
    /\ script # <<>>
    /\ Head(script).op = "symptom" => alert.count < MaxSymptoms
    /\ Head(script).op # "symptom" =>
         /\ payloads.count < MaxPayloads
         /\ payloads.slots[payloads.count + 1].size = Head(script).size
         /\ Head(script).size > 0

\* Where the job stands: at the alert, at a payload's header or at one of
\* its chunks, with ulOffset behind the chunks before it.
At(j) ==
  /\ j.payload <= payloads.count
  /\ j.payload = 0 => j.chunk = 0
  /\ j.chunk = 0 => j.offset = 0
  /\ j.chunk > 0 =>
       /\ j.chunk <= ChunkCount(payloads.slots[j.payload].size)
       /\ j.offset = (j.chunk - 1) * ChunkSize

Jobs == [via : {"none", "send", "store"}, payload : Nat, chunk : Nat, offset : Nat]

Processing == pc \in {"setup", "callback"}

JobAt ==
  /\ job \in Jobs
  /\ IF Processing THEN At(job) ELSE job = NoJob

\* Once the alert entry is made there is a session, so that no entry after
\* it is passed over; and the entry handed on is the one the job stands at.
Making ==
  /\ entry.kind \in {"NONE", "ALERT", "HEADER", "CHUNK"}
  /\ pc = "callback" => entry = EntryFor(sessionId)
  /\ Processing /\ (pc = "callback" \/ job.payload > 0) => sessionId # 0 /\ deviceName

PieceInv ==
  /\ Tables /\ Numbers /\ Counting /\ JobAt /\ Making
  /\ deviceName \in BOOLEAN /\ actor \in {"task", "fault"} /\ pc \in Places
  /\ script \in Seq(Call)

\* What the fault handler has yet to add: symptoms, then the trace if there
\* are two calls left, the dump if there is one.
Calls(rest, fp) ==
  \A k \in 1 .. Len(rest) :
    /\ k = Len(rest) => rest[k] = [op |-> "payload", size |-> Dump(fp).used]
    /\ k = Len(rest) - 1 => rest[k] = [op |-> "payload", size |-> TraceSize]
    /\ k < Len(rest) - 1 => rest[k].op = "symptom"

Planned(fp) ==
  /\ Calls(script, fp)
  /\ Len(script) > 1 => payloads.count = 0
  /\ Len(script) = 1 => payloads.count = 1
  /\ Len(script) = 0 /\ payloads.count > 1 => payloads.slots[2].size = Dump(fp).used

PlanInv == actor = "fault" /\ pc \notin {"idle", "reset"} => \E fp \in BOOLEAN : Planned(fp)

-----------------------------------------------------------------------------
(* What the parts of PieceInv rest on.                                     *)

\* The entry made for the job, field by field.
LEMMA EntryFacts ==
  ASSUME NEW session
  PROVE  LET e == EntryFor(session)
         IN  /\ e.kind \in {"ALERT", "HEADER", "CHUNK"}
             /\ job.payload # 0 /\ job.chunk = 0 =>
                  /\ e.kind = "HEADER" /\ e.payload = job.payload
                  /\ e.len = 0 /\ e.size = Slot.size
             /\ job.payload # 0 /\ job.chunk # 0 =>
                  /\ e.kind = "CHUNK"
                  /\ e.index = job.chunk /\ e.count = ChunkCount(Slot.size)
                  /\ e.from = job.offset /\ e.len = ChunkLen /\ e.size = Slot.size
             /\ e.kind = "CHUNK" => job.payload # 0 /\ job.chunk # 0
             /\ e.kind = "HEADER" => job.payload # 0 /\ job.chunk = 0
  <1>1. CASE job.payload = 0
    BY <1>1 DEF EntryFor, NoEntry
  <1>2. CASE job.payload # 0 /\ job.chunk = 0
    BY <1>2 DEF EntryFor, NoEntry
  <1>3. CASE job.payload # 0 /\ job.chunk # 0
    BY <1>3 DEF EntryFor, NoEntry
  <1> QED
    BY <1>1, <1>2, <1>3

\* The entry depends on nothing else.
LEMMA EntryStays ==
  ASSUME UNCHANGED <<alert, payloads, job, ulAlertCounter>>
  PROVE  EntryFor(sessionId') = (EntryFor(sessionId))'
  BY DEF EntryFor, Slot, ChunkLen

\* A payload that was added has a size whose chunks can be counted.
LEMMA SlotFacts ==
  ASSUME Tables, NEW p \in Nat, p # 0, p <= payloads.count
  PROVE  payloads.slots[p].size \in 1 .. ChunkSize * MostChunks
  <1>1. p \in 1 .. MaxPayloads /\ p \in 1 .. payloads.count
    BY BuilderAssumption DEF Tables
  <1>2. payloads.slots[p].size \in Sizes
    BY <1>1 DEF Tables
  <1> QED
    BY <1>1, <1>2 DEF Tables, Sizes

\* A reset empties the tables.
LEMMA ResetKeepsTables ==
  ASSUME prvDfmAlertReset, begun' \in Nat
  PROVE  Tables'
  <1>1. alert' = [of |-> 0, symptoms |-> [k \in 1 .. MaxSymptoms |-> 0], count |-> 0]
    BY DEF prvDfmAlertReset
  <1>2. payloads' = [slots |-> [k \in 1 .. MaxPayloads |-> EmptySlot], count |-> 0]
    BY DEF prvDfmAlertReset
  <1>3. 0 \in Sizes
    BY BuilderAssumption DEF Sizes, MostChunks
  <1>4. EmptySlot \in [of : 0 .. begun', size : Sizes]
    BY <1>3 DEF EmptySlot
  <1>5. payloads' \in [slots : [1 .. MaxPayloads -> [of : 0 .. begun', size : Sizes]],
                       count : 0 .. MaxPayloads]
    BY <1>2, <1>4, BuilderAssumption
  <1>6. alert' \in [of : 0 .. begun', symptoms : [1 .. MaxSymptoms -> 0 .. begun'],
                    count : 0 .. MaxSymptoms]
    BY <1>1, BuilderAssumption
  <1>7. payloads'.count = 0
    BY <1>2
  <1> QED
    BY <1>5, <1>6, <1>7 DEF Tables

\* Ending an alert goes on with an entry of it ...
GoesOn ==
  /\ UNCHANGED alertVars
  /\ pc' = "setup"
  /\ job' \in Jobs /\ At(job')

\* ... or the alert is over.
IsOver ==
  /\ prvDfmAlertReset
  /\ pc' \in {"idle", "reset"}
  /\ job' = NoJob

\* A way of ending starts at the alert entry.
LEMMA StartIsAt ==
  ASSUME Tables, NEW via \in {"send", "store"}
  PROVE  /\ Start(via) \in Jobs /\ At(Start(via)) /\ Start(via).payload = 0
         /\ NoJob \in Jobs
  <1>1. Start(via) = [via |-> via, payload |-> 0, chunk |-> 0, offset |-> 0]
    BY DEF Start, NoJob
  <1>2. payloads.count \in Nat
    BY DEF Tables
  <1> QED
    BY <1>1, <1>2 DEF Jobs, At, NoJob

\* What follows a failure of the alert entry.
LEMMA NextWayGoes ==
  ASSUME Tables, NextWay
  PROVE  (GoesOn /\ job'.payload = 0) \/ IsOver
  <1>1. CASE job.via = "send"
    BY <1>1, StartIsAt DEF NextWay, GoesOn
  <1>2. CASE job.via # "send"
    BY <1>2 DEF NextWay, Finish, IsOver
  <1> QED
    BY <1>1, <1>2

\* The next payload's header is somewhere the job can stand.
LEMMA NextPayloadAt ==
  ASSUME job \in Jobs
  PROVE  /\ NextPayload \in Jobs
         /\ NextPayload.payload <= payloads.count => At(NextPayload)
  <1> DEFINE p == job.payload + 1
  <1>1. p \in Nat /\ p # 0
    BY DEF Jobs
  <1>2. NextPayload = [job EXCEPT !.payload = p, !.chunk = 0, !.offset = 0]
    BY DEF NextPayload
  <1> HIDE DEF p
  <1>3. /\ NextPayload \in Jobs
        /\ NextPayload.payload = p /\ NextPayload.chunk = 0 /\ NextPayload.offset = 0
    BY <1>1, <1>2 DEF Jobs
  <1> QED
    BY <1>1, <1>3 DEF At

\* After an entry that was made, ulOffset is moved by what is in it: to the
\* first chunk from the header, by a full chunk from any chunk but the last.
LEMMA NextChunkAt ==
  ASSUME PieceInv, pc = "callback"
  PROVE  LET next == NextChunk(entry.len)
         IN  next \in Jobs /\ (next.payload <= payloads.count => At(next))
  <1> DEFINE p == job.payload
             size == payloads.slots[p].size
             c == job.chunk + 1
             o == job.offset + entry.len
             n == [job EXCEPT !.chunk = c, !.offset = o]
  <1>1. job \in Jobs /\ At(job)
    BY DEF PieceInv, JobAt, Processing
  <1>2. CASE ~(p > 0 /\ job.chunk < ChunkCount(size))
    <2>1. NextChunk(entry.len) = NextPayload
      BY <1>2 DEF NextChunk, Slot
    <2> QED
      BY <1>1, <2>1, NextPayloadAt
  <1>3. CASE p > 0 /\ job.chunk < ChunkCount(size)
    <2>1. p \in Nat /\ p # 0 /\ p <= payloads.count /\ job.chunk \in Nat /\ job.offset \in Nat
      BY <1>1, <1>3 DEF Jobs, At
    <2>2. size \in 1 .. ChunkSize * MostChunks
      BY <2>1, SlotFacts DEF PieceInv
    <2>3. /\ job.chunk = 0 => entry.len = 0
          /\ job.chunk # 0 => entry.len = ChunkLen
      BY <2>1, EntryFacts DEF PieceInv, Making
    <2>4. ChunkCount(size) \in Nat /\ ChunkSize \in Nat /\ size \in Nat
      <3>1. ChunkCount(size) \in Nat
        BY <2>2, ChunkCountFacts
      <3> HIDE DEF size
      <3> QED
        BY <2>2, <3>1, BuilderAssumption DEF MostChunks
    <2>5. o = (c - 1) * ChunkSize /\ o \in Nat
      <3>1. CASE job.chunk = 0
        <4>1. job.offset = 0 /\ entry.len = 0 /\ c = 1
          BY <1>1, <2>3, <3>1 DEF At
        <4> QED
          BY <2>4, <4>1
      <3>2. CASE job.chunk # 0
        <4> DEFINE full == job.chunk * ChunkSize
                   before == (job.chunk - 1) * ChunkSize
        <4>1. job.offset = before
          BY <1>1, <2>1, <3>2 DEF At
        <4>2. 0 < job.chunk /\ job.chunk <= ChunkCount(size)
          BY <1>3, <2>1, <2>4, <3>2
        <4>3. before \in Nat /\ before + ChunkSize = full /\ size - before > ChunkSize
          BY <1>3, <2>1, <2>2, <4>2, ChunkFacts
        <4> HIDE DEF before
        <4>4. ChunkLen = ChunkSize
          BY <2>4, <4>1, <4>3 DEF ChunkLen, Slot
        <4>5. o = full
          BY <2>3, <3>2, <4>1, <4>3, <4>4
        <4>6. c - 1 = job.chunk
          BY <2>1
        <4> QED
          BY <2>4, <4>3, <4>5, <4>6
      <3> QED
        BY <3>1, <3>2
    <2>6. c \in Nat /\ c > 0 /\ c <= ChunkCount(size)
      BY <1>3, <2>1, <2>4
    <2>7. NextChunk(entry.len) = n
      BY <1>3 DEF NextChunk, Slot
    <2> HIDE DEF c, o
    <2>8. n \in Jobs /\ n.payload = p /\ n.chunk = c /\ n.offset = o
      BY <1>1, <2>5, <2>6 DEF Jobs
    <2>9. At(n)
      BY <2>1, <2>5, <2>6, <2>8 DEF At
    <2> QED
      BY <2>7, <2>8, <2>9
  <1> QED
    BY <1>2, <1>3

\* What follows an entry.
LEMMA GoOnGoes ==
  ASSUME NEW next \in Jobs, next.payload <= payloads.count => At(next), GoOn(next)
  PROVE  GoesOn \/ IsOver
  BY DEF GoOn, Finish, GoesOn, IsOver

\* Going on or being over keeps the tables and the job.
LEMMA OnwardKeepsPieces ==
  ASSUME Tables, Numbers, Counting, pc \in {"setup", "callback"}, GoesOn \/ IsOver,
         UNCHANGED begun
  PROVE  Tables' /\ Counting' /\ JobAt' /\ pc' \in {"idle", "reset", "setup"}
  <1>1. CASE GoesOn
    BY <1>1 DEF GoesOn, Tables, Counting, JobAt, At, Processing, alertVars
  <1>2. CASE IsOver
    <2>1. Tables'
      BY <1>2, ResetKeepsTables DEF IsOver, Numbers
    <2>2. NoJob \in Jobs
      BY StartIsAt
    <2> QED
      BY <1>2, <2>1, <2>2 DEF IsOver, Counting, JobAt, Processing
  <1> QED
    BY <1>1, <1>2

\* The fault handler's calls are calls: the dump is not larger than its
\* buffer. Its last two add the trace and the dump.
LEMMA FaultCalls ==
  ASSUME NEW s \in FaultAlerts
  PROVE  s \in Seq(Call) /\ Len(s) > 1 /\ \E fp \in BOOLEAN : Calls(s, fp)
  <1> DEFINE trace == [op |-> "payload", size |-> TraceSize]
             dump(fp) == [op |-> "payload", size |-> Dump(fp).used]
  <1>1. PICK symptoms \in {<<Symptom, Symptom, Symptom>>,
                           <<Symptom, Symptom, Symptom, Symptom>>}, fp \in BOOLEAN :
          s = symptoms \o <<trace, dump(fp)>>
    BY DEF FaultAlerts
  <1>2. Symptom \in Call /\ Symptom.op = "symptom"
    BY BuilderAssumption DEF Symptom, Call, MostChunks
  <1>3. trace \in Call
    BY BuilderAssumption DEF Call, MostChunks
  <1>4. dump(fp) \in Call
    <2>1. Dump(fp).used = (IF fp THEN 256 ELSE 124) + StackCapture
      BY DumpFits DEF BufferAt
    <2>2. Dump(fp).used \in 0 .. CRASH_DUMP_BUFFER_SIZE
      BY <2>1, DumpAssumption DEF CRASH_DUMP_BUFFER_SIZE
    <2>3. Dump(fp).used \in 0 .. ChunkSize * MostChunks
      <3> DEFINE u == Dump(fp).used
      <3>1. u \in 0 .. CRASH_DUMP_BUFFER_SIZE
        BY <2>2
      <3> HIDE DEF u
      <3>2. u \in 0 .. ChunkSize * MostChunks
        BY <3>1, BuilderAssumption DEF MostChunks
      <3> QED
        BY <3>2 DEF u
    <2> QED
      BY <2>3 DEF Call
  <1> DEFINE t == trace
             d == dump(fp)
  <1>5. t = [op |-> "payload", size |-> TraceSize]
        /\ d = [op |-> "payload", size |-> Dump(fp).used]
    OBVIOUS
  <1>6. s = symptoms \o <<t, d>> /\ t \in Call /\ d \in Call
    BY <1>1, <1>3, <1>4
  <1> HIDE DEF t, d, trace, dump
  <1>7. /\ symptoms \in Seq(Call) /\ Len(symptoms) \in {3, 4}
        /\ \A k \in 1 .. Len(symptoms) : symptoms[k] = Symptom
    <2>1. CASE symptoms = <<Symptom, Symptom, Symptom>>
      BY <1>2, <2>1
    <2>2. CASE symptoms = <<Symptom, Symptom, Symptom, Symptom>>
      BY <1>2, <2>2
    <2> QED
      BY <1>1, <2>1, <2>2
  <1> DEFINE n == Len(symptoms)
  <1>8. s \in Seq(Call) /\ Len(s) = n + 2
    BY <1>6, <1>7
  <1>9. \A k \in 1 .. n : s[k] = Symptom
    BY <1>6, <1>7
  <1>10. s[n + 1] = t /\ s[n + 2] = d
    BY <1>6, <1>7
  <1>11. \A k \in 1 .. Len(s) :
           /\ k = Len(s) => k = n + 2
           /\ k = Len(s) - 1 => k = n + 1
           /\ k < Len(s) - 1 => k \in 1 .. n
    BY <1>7, <1>8
  <1>12. Calls(s, fp)
    BY <1>2, <1>5, <1>9, <1>10, <1>11 DEF Calls
  <1> QED
    BY <1>7, <1>8, <1>12

-----------------------------------------------------------------------------
(* The steps keep PieceInv.                                                *)

\* A new alert: nothing is in its tables, no job is under way.
LEMMA BeginKeepsPieces ==
  ASSUME PieceInv, BeginAlert
  PROVE  PieceInv'
  <1>1. /\ pc = "idle" /\ pc' = "begun" /\ begun' = begun + 1 /\ prvDfmAlertReset
        /\ UNCHANGED <<ulAlertCounter, sessionId, deviceName, callbacks, entry, actor, job>>
    BY DEF BeginAlert, sessionVars
  <1>2. begun \in Nat /\ ulAlertCounter \in 0 .. begun
    BY DEF PieceInv, Numbers
  <1>3. Tables'
    BY <1>1, <1>2, ResetKeepsTables
  <1>4. Numbers'
    BY <1>1, <1>2 DEF PieceInv, Numbers
  <1>5. Counting' /\ JobAt' /\ Making'
    BY <1>1 DEF PieceInv, Counting, JobAt, Making, Processing
  <1>6. script' \in Seq(Call)
    <2>1. script' \in TaskAlerts \/ script' \in FaultAlerts
      BY DEF BeginAlert
    <2> QED
      BY <2>1, FaultCalls, BuilderAssumption
  <1>7. deviceName' \in BOOLEAN
    BY <1>1, Zenon DEF PieceInv
  <1>8. actor' \in {"task", "fault"} /\ pc' \in Places
    BY <1>1 DEF PieceInv, Places
  <1> QED
    BY <1>3, <1>4, <1>5, <1>6, <1>7, <1>8 DEF PieceInv

\* Its number is not above the alerts begun.
LEMMA NumberKeepsPieces ==
  ASSUME PieceInv, NumberAlert
  PROVE  PieceInv'
  <1>1. /\ pc = "begun" /\ pc' = "building" /\ ulAlertCounter' = ulAlertCounter + 1
        /\ alert' = [alert EXCEPT !.of = begun]
        /\ UNCHANGED <<payloads, sessionId, deviceName, callbacks, entry, actor, script,
                       job, begun>>
    BY DEF NumberAlert, xDfmSessionGenerateNewAlertId
  <1>2. begun \in Nat
    BY DEF PieceInv, Numbers
  <1>3. Tables'
    BY <1>1, <1>2 DEF PieceInv, Tables
  <1>4. Numbers'
    BY <1>1 DEF PieceInv, Numbers
  <1>5. Counting' /\ JobAt' /\ Making'
    BY <1>1 DEF PieceInv, Counting, JobAt, Making, Processing
  <1>6. deviceName' \in BOOLEAN
    BY <1>1, Zenon DEF PieceInv
  <1>7. actor' \in {"task", "fault"} /\ pc' \in Places /\ script' \in Seq(Call)
    BY <1>1 DEF PieceInv, Places
  <1> QED
    BY <1>3, <1>4, <1>5, <1>6, <1>7 DEF PieceInv

\* A slot is filled where there is room for one more.
LEMMA FillKeepsPieces ==
  ASSUME PieceInv, FillSlot
  PROVE  PieceInv'
  <1>1. /\ pc = "building" /\ pc' = "counting" /\ script # <<>> /\ HasRoom(Head(script))
        /\ UNCHANGED <<ulAlertCounter, sessionId, deviceName, callbacks, entry, actor,
                       script, job, begun>>
    BY DEF FillSlot, sessionVars
  <1>2. begun \in Nat /\ begun \in 0 .. begun
    BY DEF PieceInv, Numbers
  <1>3. Head(script) \in Call
    BY <1>1 DEF PieceInv
  <1>4. Numbers' /\ JobAt' /\ Making'
    BY <1>1 DEF PieceInv, Numbers, JobAt, Making, Processing
  <1>5. Tables' /\ Counting'
    <2>1. CASE Head(script).op = "symptom"
      <3>1. /\ alert' = [alert EXCEPT !.symptoms[alert.count + 1] = begun]
            /\ UNCHANGED payloads
        BY <2>1 DEF FillSlot
      <3>2. alert.count < MaxSymptoms
        BY <1>1, <2>1 DEF HasRoom
      <3>3. Tables' /\ alert'.count = alert.count
        BY <1>1, <1>2, <3>1 DEF PieceInv, Tables
      <3> QED
        BY <1>1, <2>1, <3>2, <3>3 DEF Counting
    <2>2. CASE Head(script).op # "symptom"
      <3> DEFINE size == Head(script).size
                 slot == [of |-> begun, size |-> size]
                 next == payloads.count + 1
      <3>1. payloads' = [payloads EXCEPT !.slots[next] = slot] /\ UNCHANGED alert
        BY <2>2 DEF FillSlot
      <3>2. payloads.count < MaxPayloads /\ size > 0
        BY <1>1, <2>2 DEF HasRoom
      <3>3. slot \in [of : 0 .. begun, size : Sizes] /\ slot.size = size
        BY <1>2, <1>3 DEF Call, Sizes
      <3>4. /\ payloads.count \in 0 .. MaxPayloads /\ MaxPayloads \in Nat
            /\ payloads.slots \in [1 .. MaxPayloads -> [of : 0 .. begun, size : Sizes]]
            /\ payloads = [slots |-> payloads.slots, count |-> payloads.count]
        BY BuilderAssumption DEF PieceInv, Tables
      <3>5. /\ payloads' \in [slots : [1 .. MaxPayloads -> [of : 0 .. begun, size : Sizes]],
                              count : 0 .. MaxPayloads]
            /\ payloads'.count = payloads.count
            /\ payloads'.slots[next] = slot
            /\ \A k \in 1 .. payloads.count : payloads'.slots[k] = payloads.slots[k]
        <4>1. next \in 1 .. MaxPayloads
          BY <3>2, <3>4
        <4>2. \A k \in 1 .. payloads.count : k \in 1 .. MaxPayloads /\ k # next
          BY <3>4
        <4> HIDE DEF slot, next, size
        <4> DEFINE slots == [payloads.slots EXCEPT ![next] = slot]
        <4>3. payloads' = [slots |-> slots, count |-> payloads.count]
          BY <3>1, <3>4
        <4>4. /\ slots \in [1 .. MaxPayloads -> [of : 0 .. begun, size : Sizes]]
              /\ slots[next] = slot
              /\ \A k \in 1 .. payloads.count : slots[k] = payloads.slots[k]
          BY <3>3, <3>4, <4>1, <4>2
        <4> HIDE DEF slots
        <4> QED
          BY <3>4, <4>3, <4>4
      <3> HIDE DEF slot, next, size
      <3>6. Tables'
        BY <1>1, <3>1, <3>5 DEF PieceInv, Tables
      <3>7. Counting'
        BY <1>1, <2>2, <3>2, <3>3, <3>5 DEF Counting, next, size
      <3> QED
        BY <3>6, <3>7
    <2> QED
      BY <2>1, <2>2
  <1>6. deviceName' \in BOOLEAN
    BY <1>1, Zenon DEF PieceInv
  <1>7. actor' \in {"task", "fault"} /\ pc' \in Places /\ script' \in Seq(Call)
    BY <1>1 DEF PieceInv, Places
  <1> QED
    BY <1>4, <1>5, <1>6, <1>7 DEF PieceInv

\* It is counted, and stays within the table.
LEMMA CountKeepsPieces ==
  ASSUME PieceInv, CountSlot
  PROVE  PieceInv'
  <1>1. /\ pc = "counting" /\ pc' = "building" /\ script' = Tail(script)
        /\ UNCHANGED <<ulAlertCounter, sessionId, deviceName, callbacks, entry, actor,
                       job, begun>>
    BY DEF CountSlot, sessionVars
  <1>2. Numbers' /\ JobAt' /\ Making' /\ Counting'
    BY <1>1 DEF PieceInv, Numbers, JobAt, Making, Processing, Counting
  <1>3. Tables'
    <2>1. CASE Head(script).op = "symptom"
      <3>1. alert' = [alert EXCEPT !.count = @ + 1] /\ UNCHANGED payloads
        BY <2>1 DEF CountSlot
      <3>2. alert.count < MaxSymptoms
        BY <1>1, <2>1 DEF PieceInv, Counting
      <3>3. alert.count + 1 \in 0 .. MaxSymptoms
        <4>1. alert.count \in 0 .. MaxSymptoms /\ MaxSymptoms \in Nat
          BY BuilderAssumption DEF PieceInv, Tables
        <4> QED
          BY <3>2, <4>1
      <3> QED
        BY <1>1, <3>1, <3>3 DEF PieceInv, Tables
    <2>2. CASE Head(script).op # "symptom"
      <3>1. payloads' = [payloads EXCEPT !.count = @ + 1] /\ UNCHANGED alert
        BY <2>2 DEF CountSlot
      <3>2. payloads.count < MaxPayloads /\ payloads.slots[payloads.count + 1].size > 0
        BY <1>1, <2>2 DEF PieceInv, Counting
      <3>3. payloads.count + 1 \in 0 .. MaxPayloads
        <4>1. payloads.count \in 0 .. MaxPayloads /\ MaxPayloads \in Nat
          BY BuilderAssumption DEF PieceInv, Tables
        <4> QED
          BY <3>2, <4>1
      <3>4. /\ payloads' \in [slots : [1 .. MaxPayloads -> [of : 0 .. begun, size : Sizes]],
                              count : 0 .. MaxPayloads]
            /\ payloads'.slots = payloads.slots /\ payloads'.count = payloads.count + 1
        BY <3>1, <3>3 DEF PieceInv, Tables
      <3>5. \A k \in 1 .. payloads'.count : k \in 1 .. payloads.count \/ k = payloads.count + 1
        BY <3>4 DEF PieceInv, Tables
      <3>6. \A k \in 1 .. payloads'.count : payloads'.slots[k].size > 0
        BY <3>2, <3>4, <3>5 DEF PieceInv, Tables
      <3> QED
        BY <1>1, <3>1, <3>4, <3>6 DEF PieceInv, Tables
    <2> QED
      BY <2>1, <2>2
  <1>4. deviceName' \in BOOLEAN
    BY <1>1, Zenon DEF PieceInv
  <1>5. script' \in Seq(Call)
    <2>1. script \in Seq(Call) /\ script # <<>>
      BY <1>1 DEF PieceInv, Counting
    <2> QED
      BY <1>1, <2>1
  <1>6. actor' \in {"task", "fault"} /\ pc' \in Places
    BY <1>1 DEF PieceInv, Places
  <1> QED
    BY <1>2, <1>3, <1>4, <1>5, <1>6 DEF PieceInv

\* A call that fails is left out; the alert's end starts at the alert entry.
LEMMA AddFailsAndEndKeepPieces ==
  ASSUME PieceInv, AddFails \/ EndAlert
  PROVE  PieceInv'
  <1>1. /\ pc = "building" /\ pc' \in {"building", "setup"}
        /\ UNCHANGED <<alert, payloads, ulAlertCounter, sessionId, deviceName, callbacks,
                       entry, actor, begun>>
    BY DEF AddFails, EndAlert, alertVars, sessionVars
  <1>2. Tables'
    BY <1>1 DEF PieceInv, Tables
  <1>3. Numbers' /\ Counting'
    BY <1>1 DEF PieceInv, Numbers, Counting
  <1>4. script' \in Seq(Call)
    <2>1. CASE AddFails
      <3>1. script \in Seq(Call) /\ script # <<>> /\ script' = Tail(script)
        BY <2>1 DEF PieceInv, AddFails
      <3> QED
        BY <3>1
    <2>2. CASE EndAlert
      BY <2>2 DEF EndAlert, PieceInv
    <2> QED
      BY <2>1, <2>2
  <1>5. JobAt' /\ (pc' = "setup" => job'.payload = 0)
    <2>1. CASE AddFails
      BY <2>1 DEF AddFails, PieceInv, JobAt, Processing
    <2>2. CASE EndAlert
      <3>1. PICK via \in {"send", "store"} : job' = Start(via)
        BY <2>2 DEF EndAlert
      <3>2. job' \in Jobs /\ At(job') /\ job'.payload = 0
        BY <3>1, StartIsAt DEF PieceInv
      <3>3. pc' = "setup"
        BY <2>2 DEF EndAlert
      <3> QED
        BY <1>1, <3>2, <3>3 DEF JobAt, Processing, At
    <2> QED
      BY <2>1, <2>2
  <1>6. Making'
    BY <1>1, <1>5 DEF PieceInv, Making, Processing
  <1>7. deviceName' \in BOOLEAN
    BY <1>1, Zenon DEF PieceInv
  <1>8. actor' \in {"task", "fault"} /\ pc' \in Places
    BY <1>1 DEF PieceInv, Places
  <1> QED
    BY <1>2, <1>3, <1>4, <1>5, <1>6, <1>7, <1>8 DEF PieceInv

\* A session is there once it was obtained, and only a missing one fails.
LEMMA SessionObtained ==
  ASSUME Numbers, NEW ok \in BOOLEAN, GetSession(ok), deviceName \in BOOLEAN
  PROVE  /\ callbacks' \in Nat /\ sessionId' \in 0 .. callbacks'
         /\ deviceName' \in BOOLEAN
         /\ ok => sessionId' # 0 /\ deviceName'
         /\ ~ok => sessionId = 0 \/ ~deviceName
  <1>1. callbacks \in Nat /\ sessionId \in 0 .. callbacks
    BY DEF Numbers
  <1>2. \/ sessionId' = SessionIdObtained
           /\ callbacks' = IF sessionId' = sessionId THEN callbacks ELSE callbacks + 1
        \/ ~ok /\ sessionId' \in {0, callbacks + 1} /\ callbacks' = callbacks + 1
    BY Zenon DEF GetSession
  <1>3. SessionIdObtained = IF sessionId # 0 THEN sessionId ELSE callbacks + 1
    BY DEF SessionIdObtained
  <1>4. callbacks' \in Nat /\ sessionId' \in 0 .. callbacks' /\ (ok => sessionId' # 0)
    BY <1>1, <1>2, <1>3
  <1>5. deviceName' \in BOOLEAN /\ (ok => deviceName')
    BY Zenon DEF GetSession
  <1>6. ~ok => sessionId = 0 \/ ~deviceName
    BY Zenon DEF GetSession
  <1> QED
    BY <1>4, <1>5, <1>6, Zenon

\* An entry is made as the job says; without session it is the alert entry
\* that is not made.
LEMMA SetupKeepsPieces ==
  ASSUME PieceInv, SetupEntry
  PROVE  PieceInv'
  <1>1. PICK ok \in BOOLEAN :
          /\ GetSession(ok)
          /\ IF ok
             THEN /\ entry' = EntryFor(sessionId')
                  /\ pc' = "callback"
                  /\ UNCHANGED <<job, alertVars>>
             ELSE /\ IF job.payload = 0
                     THEN NextWay
                     ELSE GoOn(IF job.chunk = 0 THEN NextPayload ELSE NextChunk(0))
                  /\ UNCHANGED entry
    BY DEF SetupEntry
  <1>2. pc = "setup" /\ UNCHANGED <<ulAlertCounter, begun, actor, script>>
    BY DEF SetupEntry
  <1>3. /\ callbacks' \in Nat /\ sessionId' \in 0 .. callbacks'
        /\ deviceName' \in BOOLEAN
        /\ ok => sessionId' # 0 /\ deviceName'
        /\ ~ok => sessionId = 0 \/ ~deviceName
    BY <1>1, SessionObtained DEF PieceInv
  <1>4. actor' \in {"task", "fault"} /\ script' \in Seq(Call)
    BY <1>2 DEF PieceInv
  <1>5. CASE ok
    <2>1. entry' = EntryFor(sessionId') /\ pc' = "callback" /\ UNCHANGED <<job, alert, payloads>>
      BY <1>1, <1>5 DEF alertVars
    <2>2. Tables' /\ Counting' /\ JobAt'
      BY <1>2, <2>1 DEF PieceInv, Tables, Counting, JobAt, At, Processing
    <2>3. Numbers'
      BY <1>2, <1>3, <2>1 DEF PieceInv, Numbers
    <2>4. entry' = (EntryFor(sessionId))'
      BY <1>2, <2>1, EntryStays
    <2>5. entry'.kind \in {"ALERT", "HEADER", "CHUNK"}
      BY <2>1, EntryFacts
    <2>6. Making'
      <3>1. sessionId' # 0 /\ deviceName'
        BY <1>3, <1>5, Zenon
      <3>2. entry'.kind \in {"NONE", "ALERT", "HEADER", "CHUNK"}
        BY <2>5
      <3> QED
        BY <2>4, <3>1, <3>2, Zenon DEF Making
    <2>7. pc' \in Places
      BY <2>1 DEF Places
    <2> QED
      BY <1>3, <1>4, <2>2, <2>3, <2>6, <2>7, Zenon DEF PieceInv
  <1>6. CASE ~ok
    <2>1. job.payload = 0
      <3>1. job \in Jobs
        BY DEF PieceInv, JobAt
      <3>2. ~(job.payload > 0)
        BY <1>2, <1>3, <1>6 DEF PieceInv, Making, Processing
      <3> QED
        BY <3>1, <3>2 DEF Jobs
    <2>2. NextWay /\ UNCHANGED entry
      BY <1>1, <1>6, <2>1
    <2>3. (GoesOn /\ job'.payload = 0) \/ IsOver
      BY <2>2, NextWayGoes DEF PieceInv
    <2>4. Tables' /\ Counting' /\ JobAt' /\ pc' \in {"idle", "reset", "setup"}
      BY <1>2, <2>3, OnwardKeepsPieces DEF PieceInv
    <2>5. Numbers'
      BY <1>2, <1>3, <2>4 DEF PieceInv, Numbers
    <2>6. job'.payload = 0
      BY <2>3 DEF IsOver, NoJob
    <2>7. Making'
      BY <2>2, <2>4, <2>6 DEF PieceInv, Making, Processing
    <2>8. pc' \in Places
      BY <2>4 DEF Places
    <2> QED
      BY <1>3, <1>4, <2>4, <2>5, <2>7, <2>8, Zenon DEF PieceInv
  <1> QED
    BY <1>5, <1>6

\* An entry that was handed on or failed is followed by the next one.
LEMMA HandOnKeepsPieces ==
  ASSUME PieceInv, SendEntry \/ StoreEntry
  PROVE  PieceInv'
  <1>1. /\ pc = "callback"
        /\ UNCHANGED <<ulAlertCounter, sessionId, deviceName, callbacks, entry, actor,
                       script, begun>>
        /\ \E ok \in BOOLEAN : AfterCallback(ok)
    BY DEF SendEntry, StoreEntry, sessionVars
  <1>2. GoesOn \/ IsOver
    <2>1. GoOn(NextChunk(entry.len)) \/ NextWay
      BY <1>1 DEF AfterCallback
    <2>2. CASE GoOn(NextChunk(entry.len))
      BY <1>1, <2>2, NextChunkAt, GoOnGoes
    <2>3. CASE NextWay
      BY <2>3, NextWayGoes DEF PieceInv
    <2> QED
      BY <2>1, <2>2, <2>3
  <1>3. Tables' /\ Counting' /\ JobAt' /\ pc' \in {"idle", "reset", "setup"}
    BY <1>1, <1>2, OnwardKeepsPieces DEF PieceInv
  <1>4. Numbers'
    BY <1>1, <1>3 DEF PieceInv, Numbers
  <1>5. sessionId # 0 /\ deviceName
    BY <1>1, Zenon DEF PieceInv, Making, Processing
  <1>6. Making'
    <2>1. sessionId' # 0 /\ deviceName'
      BY <1>1, <1>5, Zenon
    <2>2. pc' # "callback" /\ entry'.kind \in {"NONE", "ALERT", "HEADER", "CHUNK"}
      BY <1>1, <1>3 DEF PieceInv, Making
    <2> QED
      BY <2>1, <2>2, Zenon DEF Making
  <1>7. deviceName' \in BOOLEAN
    BY <1>1, Zenon DEF PieceInv
  <1>8. actor' \in {"task", "fault"} /\ pc' \in Places /\ script' \in Seq(Call)
    BY <1>1, <1>3 DEF PieceInv, Places
  <1> QED
    BY <1>3, <1>4, <1>6, <1>7, <1>8 DEF PieceInv

\* A fault drops the job; the interrupted tables stay until the next begin.
LEMMA FaultKeepsPieces ==
  ASSUME PieceInv, Fault
  PROVE  PieceInv'
  <1>1. /\ pc' = "idle" /\ job' = NoJob /\ script' = <<>> /\ actor' = "fault"
        /\ UNCHANGED <<alert, payloads, ulAlertCounter, begun, entry>>
        /\ \/ UNCHANGED <<sessionId, callbacks>>
           \/ sessionId' \in {0, callbacks + 1} /\ callbacks' = callbacks + 1
    BY DEF Fault, alertVars
  <1>2. Tables'
    BY <1>1 DEF PieceInv, Tables
  <1>3. Numbers'
    BY <1>1 DEF PieceInv, Numbers
  <1>4. NoJob \in Jobs
    BY StartIsAt DEF PieceInv
  <1>5. Counting' /\ JobAt' /\ Making'
    BY <1>1, <1>4 DEF PieceInv, Counting, JobAt, Making, Processing
  <1>6. deviceName' \in BOOLEAN
    BY Zenon DEF PieceInv, Fault
  <1>7. actor' \in {"task", "fault"} /\ pc' \in Places /\ script' \in Seq(Call)
    BY <1>1 DEF Places
  <1> QED
    BY <1>2, <1>3, <1>5, <1>6, <1>7 DEF PieceInv

\* The connection is none of these.
LEMMA RestKeepsPieces ==
  ASSUME PieceInv, OutsideDevice \/ UNCHANGED vars
  PROVE  PieceInv'
  <1>1. UNCHANGED <<alert, payloads, ulAlertCounter, sessionId, deviceName, callbacks,
                    entry, actor, pc, script, job, begun>>
    BY DEF OutsideDevice, vars, alertVars, sessionVars, runVars
  <1>2. Tables' /\ Numbers' /\ Counting' /\ JobAt'
    BY <1>1 DEF PieceInv, Tables, Numbers, Counting, JobAt, At, Processing
  <1>3. EntryFor(sessionId') = (EntryFor(sessionId))' /\ sessionId' = sessionId
    BY <1>1, EntryStays
  <1>4. Making'
    <2>1. pc' = "callback" => entry' = (EntryFor(sessionId))'
      BY <1>1, <1>3 DEF PieceInv, Making
    <2>2. Processing' /\ (pc' = "callback" \/ job'.payload > 0) => sessionId' # 0 /\ deviceName'
      BY <1>1, Zenon DEF PieceInv, Making, Processing
    <2>3. entry'.kind \in {"NONE", "ALERT", "HEADER", "CHUNK"}
      BY <1>1 DEF PieceInv, Making
    <2> QED
      BY <2>1, <2>2, <2>3, Zenon DEF Making
  <1>5. deviceName' \in BOOLEAN
    BY <1>1, Zenon DEF PieceInv
  <1>6. actor' \in {"task", "fault"} /\ pc' \in Places /\ script' \in Seq(Call)
    BY <1>1 DEF PieceInv
  <1> QED
    BY <1>2, <1>4, <1>5, <1>6 DEF PieceInv

\* PieceInv is inductive.
LEMMA PieceInvInductive == Spec => []PieceInv
  <1>1. Init => PieceInv
    <2> SUFFICES ASSUME Init PROVE PieceInv
      OBVIOUS
    <2>1. 0 \in Sizes /\ MaxSymptoms \in Nat /\ MaxPayloads \in Nat
      BY BuilderAssumption DEF Sizes, MostChunks
    <2>2. alert = [of |-> 0, symptoms |-> [k \in 1 .. MaxSymptoms |-> 0], count |-> 0]
          /\ payloads = [slots |-> [k \in 1 .. MaxPayloads |-> EmptySlot], count |-> 0]
          /\ begun = 0
      BY DEF Init
    <2>3. EmptySlot \in [of : 0 .. 0, size : Sizes]
      BY <2>1 DEF EmptySlot
    <2>4. Tables
      BY <2>1, <2>2, <2>3 DEF Tables
    <2>5. NoJob \in Jobs
      BY StartIsAt, <2>4
    <2>6. Numbers /\ Counting /\ JobAt /\ Making
      BY <2>5 DEF Init, Numbers, Counting, JobAt, Making, Processing, NoEntry
    <2>7. deviceName \in BOOLEAN
      BY Zenon DEF Init
    <2>8. actor \in {"task", "fault"} /\ pc \in Places /\ script \in Seq(Call)
      BY DEF Init, Places
    <2> QED
      BY <2>4, <2>6, <2>7, <2>8 DEF PieceInv
  <1>2. PieceInv /\ [Next]_vars => PieceInv'
    BY BeginKeepsPieces, NumberKeepsPieces, FillKeepsPieces, CountKeepsPieces,
       AddFailsAndEndKeepPieces, SetupKeepsPieces, HandOnKeepsPieces, FaultKeepsPieces,
       RestKeepsPieces DEF Next, Build, Process
  <1> QED
    BY <1>1, <1>2, PTL DEF Spec

\* The alert object, the tables, the counters and the job keep their bounds
\* whatever the alerts are made of and wherever a fault cuts them off: no
\* slot behind the last one is written, no payload that is not there is
\* read.
THEOREM BuilderTypeCorrect == Spec => []BuilderTypeOK
  <1>1. PieceInv => BuilderTypeOK
    <2> SUFFICES ASSUME PieceInv PROVE BuilderTypeOK
      OBVIOUS
    <2>1. Sizes \subseteq Nat
      BY BuilderAssumption DEF Sizes, MostChunks
    <2>2. payloads \in [slots : [1 .. MaxPayloads -> [of : 0 .. begun, size : Nat]],
                        count : 0 .. MaxPayloads]
      BY <2>1 DEF PieceInv, Tables
    <2>3. /\ alert \in [of : 0 .. begun, symptoms : [1 .. MaxSymptoms -> 0 .. begun],
                        count : 0 .. MaxSymptoms]
          /\ ulAlertCounter \in 0 .. begun /\ sessionId \in 0 .. callbacks
      BY DEF PieceInv, Tables, Numbers
    <2>4. deviceName \in BOOLEAN
      BY Zenon DEF PieceInv
    <2>5. /\ entry.kind \in {"NONE", "ALERT", "HEADER", "CHUNK"}
          /\ actor \in {"task", "fault"} /\ pc \in Places
          /\ script \in Seq(Call)
      BY DEF PieceInv, Making
    <2>6. job.payload \in 0 .. payloads.count
      <3>1. payloads.count \in Nat /\ job \in Jobs
        BY DEF PieceInv, Tables, JobAt
      <3>2. job.payload <= payloads.count
        BY <3>1 DEF PieceInv, JobAt, At, NoJob
      <3> QED
        BY <3>1, <3>2 DEF Jobs
    <2> QED
      BY <2>2, <2>3, <2>4, <2>5, <2>6 DEF BuilderTypeOK
  <1> QED
    BY <1>1, PieceInvInductive, PTL

\* For every chunk size and payload the chunk entries tile their payload:
\* each says where it belongs, all but the last are full, the last one
\* reaches the end, and their number is not cut off by its 16 bits.
THEOREM ChunksTile == Spec => []ChunksTileTheirPayload
  <1>1. PieceInv => ChunksTileTheirPayload
    <2> SUFFICES ASSUME PieceInv, pc = "callback", entry.kind = "CHUNK"
                 PROVE  /\ entry.index \in 1 .. entry.count
                        /\ entry.from = (entry.index - 1) * ChunkSize
                        /\ entry.len \in 1 .. ChunkSize
                        /\ entry.index < entry.count => entry.len = ChunkSize
                        /\ entry.index = entry.count => entry.from + entry.len = entry.size
      BY DEF ChunksTileTheirPayload
    <2> DEFINE size == Slot.size
               n == ChunkCount(size)
               c == job.chunk
               o == (c - 1) * ChunkSize
    <2>1. job \in Jobs /\ At(job) /\ entry = EntryFor(sessionId)
      BY DEF PieceInv, JobAt, Making, Processing
    <2>2. job.payload # 0 /\ c # 0
      BY <2>1, EntryFacts
    <2>3. /\ entry.index = c /\ entry.count = n /\ entry.from = job.offset
          /\ entry.len = ChunkLen /\ entry.size = size
      BY <2>1, <2>2, EntryFacts
    <2>4. size \in 1 .. ChunkSize * MostChunks
      BY <2>1, <2>2, SlotFacts DEF PieceInv, Jobs, At, Slot
    <2>5. c \in Nat /\ 0 < c /\ c <= n /\ job.offset = o
      BY <2>1, <2>2 DEF Jobs, At, Slot
    <2>6. /\ o \in Nat /\ o < size
          /\ c < n => size - o > ChunkSize
          /\ c = n => size - o <= ChunkSize
      BY <2>4, <2>5, ChunkFacts
    <2>7. n \in Nat
      BY <2>4, ChunkCountFacts
    <2>8. ChunkLen = IF size - o < ChunkSize THEN size - o ELSE ChunkSize
      BY <2>5 DEF ChunkLen
    <2> HIDE DEF n, o, c, size
    <2>9. ChunkSize \in Nat \ {0} /\ size \in Nat
      BY <2>4, BuilderAssumption DEF MostChunks
    <2>10. entry.index \in 1 .. entry.count /\ entry.from = o
      BY <2>3, <2>5, <2>7
    <2>11. /\ entry.len \in 1 .. ChunkSize
           /\ c < n => entry.len = ChunkSize
           /\ c = n => o + entry.len = size
      BY <2>3, <2>6, <2>8, <2>9
    <2> QED
      BY <2>3, <2>10, <2>11 DEF o
  <1> QED
    BY <1>1, PieceInvInductive, PTL

-----------------------------------------------------------------------------
(* The crash dump.                                                         *)

\* What is left after the first call.
LEMMA TailCalls ==
  ASSUME script \in Seq(Call), script # <<>>, NEW fp, Calls(script, fp)
  PROVE  /\ Len(Tail(script)) = Len(script) - 1 /\ Len(script) \in Nat /\ Len(script) > 0
         /\ Calls(Tail(script), fp)
  <1>1. Len(script) \in Nat /\ Len(script) > 0 /\ Len(Tail(script)) = Len(script) - 1
    OBVIOUS
  <1>2. \A k \in 1 .. Len(Tail(script)) :
          k + 1 \in 1 .. Len(script) /\ Tail(script)[k] = script[k + 1]
    BY <1>1
  <1> DEFINE n == Len(script)
             rest == Tail(script)
  <1>3. /\ n \in Nat /\ Len(rest) = n - 1
        /\ \A k \in 1 .. n - 1 : k + 1 \in 1 .. n /\ rest[k] = script[k + 1]
    BY <1>1, <1>2
  <1>4. \A j \in 1 .. n :
          /\ j = n => script[j] = [op |-> "payload", size |-> Dump(fp).used]
          /\ j = n - 1 => script[j] = [op |-> "payload", size |-> TraceSize]
          /\ j < n - 1 => script[j].op = "symptom"
    BY DEF Calls
  <1> HIDE DEF rest, n
  <1>5. Calls(rest, fp)
    <2> SUFFICES ASSUME NEW k \in 1 .. Len(rest)
        PROVE  /\ k = Len(rest) => rest[k] = [op |-> "payload", size |-> Dump(fp).used]
               /\ k = Len(rest) - 1 => rest[k] = [op |-> "payload", size |-> TraceSize]
               /\ k < Len(rest) - 1 => rest[k].op = "symptom"
      BY DEF Calls
    <2> DEFINE j == k + 1
    <2>1. j \in 1 .. n /\ rest[k] = script[j]
      BY <1>3
    <2>2. /\ k = Len(rest) => j = n
          /\ k = Len(rest) - 1 => j = n - 1
          /\ k < Len(rest) - 1 => j < n - 1
      BY <1>3
    <2> HIDE DEF j
    <2> QED
      BY <1>4, <2>1, <2>2
  <1> QED
    BY <1>1, <1>5 DEF rest

\* Which call comes first, by how many there are.
LEMMA HeadCall ==
  ASSUME script \in Seq(Call), script # <<>>, NEW fp, Calls(script, fp)
  PROVE  /\ Len(script) = 1 => /\ Head(script).op = "payload"
                               /\ Head(script).size = Dump(fp).used
         /\ Len(script) = 2 => Head(script).op = "payload" /\ Head(script).size = TraceSize
         /\ Len(script) > 2 => Head(script).op = "symptom"
  <1>1. Len(script) \in Nat /\ 1 \in 1 .. Len(script) /\ Head(script) = script[1]
    OBVIOUS
  <1> QED
    BY <1>1 DEF Calls

\* An entry is followed by another of the same alert, or the alert is over.
LEMMA TablesStayOrAlertIsOver ==
  ASSUME SetupEntry \/ SendEntry \/ StoreEntry
  PROVE  UNCHANGED <<actor, script>> /\ (UNCHANGED payloads \/ pc' \in {"idle", "reset"})
  BY DEF SetupEntry, SendEntry, StoreEntry, AfterCallback, NextWay, GoOn, Finish, alertVars

\* The plan, with the number of calls that are left.
LEMMA PlanFollows ==
  ASSUME NEW n \in Nat, Len(script') = n, NEW fp \in BOOLEAN, Calls(script', fp),
         n > 1 => payloads'.count = 0,
         n = 1 => payloads'.count = 1,
         n = 0 /\ payloads'.count > 1 => payloads'.slots[2].size = Dump(fp).used
  PROVE  \E flag \in BOOLEAN : Planned(flag)'
  BY DEF Planned

\* The fault handler's payloads are the trace and, behind it, the dump.
LEMMA StepKeepsPlan ==
  ASSUME Inv, PieceInv, PlanInv, [Next]_vars
  PROVE  PlanInv'
  <1> SUFFICES ASSUME actor' = "fault", pc' \notin {"idle", "reset"}
               PROVE  \E fp \in BOOLEAN : Planned(fp)'
    BY DEF PlanInv
  <1>1. CASE BeginAlert
    <2>1. script' \in FaultAlerts
      BY <1>1 DEF BeginAlert
    <2>2. payloads'.count = 0
      BY <1>1, ResetCleans DEF BeginAlert, Clean
    <2>3. Len(script') > 1 /\ \E fp \in BOOLEAN : Calls(script', fp)
      BY <2>1, FaultCalls
    <2>4. script' \in Seq(Call)
      BY <2>1, FaultCalls
    <2> DEFINE n == Len(script')
    <2>5. n \in Nat /\ n > 1
      BY <2>3, <2>4
    <2> HIDE DEF n
    <2>6. n # 1 /\ n # 0
      BY <2>5
    <2> QED
      BY <2>2, <2>3, <2>5, <2>6, PlanFollows DEF n
  <1>2. CASE UNCHANGED <<payloads, script, actor>> /\ pc \notin {"idle", "reset"}
    BY <1>2 DEF PlanInv, Planned, Calls
  <1>3. CASE FillSlot
    <2>1. pc = "building" /\ script # <<>> /\ UNCHANGED <<script, actor>>
      BY <1>3 DEF FillSlot
    <2>2. payloads'.count = payloads.count
      BY <1>3 DEF FillSlot, PieceInv, Tables
    <2>3. Len(script) # 0
      BY <2>1 DEF PieceInv
    <2> QED
      BY <2>1, <2>2, <2>3 DEF PlanInv, Planned, Calls
  <1>4. CASE CountSlot
    <2>1. pc = "counting" /\ script' = Tail(script) /\ UNCHANGED actor
      BY <1>4 DEF CountSlot
    <2>2. script \in Seq(Call) /\ script # <<>>
      BY <2>1 DEF PieceInv, Counting
    <2>3. PICK fp \in BOOLEAN : Planned(fp)
      BY <2>1 DEF PlanInv
    <2>4. /\ Len(script') = Len(script) - 1 /\ Len(script) \in Nat /\ Len(script) > 0
          /\ Calls(script', fp)
      BY <2>1, <2>2, <2>3, TailCalls DEF Planned
    <2> DEFINE n == Len(script) - 1
    <2>5. CASE Len(script) > 2
      <3>1. Head(script).op = "symptom"
        BY <2>2, <2>3, <2>5, HeadCall DEF Planned
      <3>2. payloads' = payloads
        BY <1>4, <3>1 DEF CountSlot
      <3>3. payloads'.count = 0
        BY <2>3, <2>5, <3>2 DEF Planned
      <3>4. n \in Nat /\ n # 1 /\ n # 0
        BY <2>4, <2>5
      <3> QED
        BY <2>4, <3>3, <3>4, PlanFollows
    <2>6. CASE Len(script) \in {1, 2}
      <3>1. Head(script).op # "symptom"
        BY <2>2, <2>3, <2>6, HeadCall DEF Planned
      <3>2. payloads' = [payloads EXCEPT !.count = @ + 1]
        BY <1>4, <3>1 DEF CountSlot
      <3>3. payloads'.count = payloads.count + 1 /\ payloads'.slots = payloads.slots
        BY <3>2 DEF PieceInv, Tables
      <3>4. payloads.slots[payloads.count + 1].size = Head(script).size
        BY <2>1, <3>1 DEF PieceInv, Counting
      <3>5. CASE Len(script) = 2
        <4>1. payloads'.count = 1
          BY <2>3, <3>3, <3>5 DEF Planned
        <4>2. n \in Nat /\ n = 1 /\ ~(n > 1) /\ n # 0
          BY <2>4, <3>5
        <4> QED
          BY <2>4, <4>1, <4>2, PlanFollows
      <3>6. CASE Len(script) = 1
        <4>1. Head(script).size = Dump(fp).used
          BY <2>2, <2>3, <3>6, HeadCall DEF Planned
        <4>2. payloads.count + 1 = 2
          BY <2>3, <3>6 DEF Planned
        <4>3. payloads'.slots[2].size = Dump(fp).used
          BY <3>3, <3>4, <4>1, <4>2
        <4>4. Len(script') = 0
          BY <2>4, <3>6
        <4> QED
          BY <2>4, <4>3, <4>4, PlanFollows
      <3> QED
        BY <2>6, <3>5, <3>6
    <2> QED
      BY <2>4, <2>5, <2>6
  <1>5. CASE AddFails
    <2>1. /\ pc = "building" /\ script # <<>> /\ script' = Tail(script)
          /\ ~HasRoom(Head(script)) /\ UNCHANGED <<actor, payloads>>
      BY <1>5 DEF AddFails, alertVars
    <2>2. script \in Seq(Call)
      BY DEF PieceInv
    <2>3. PICK fp \in BOOLEAN : Planned(fp)
      BY <2>1 DEF PlanInv
    <2>4. /\ Len(script') = Len(script) - 1 /\ Len(script) \in Nat /\ Len(script) > 0
          /\ Calls(script', fp)
      BY <2>1, <2>2, <2>3, TailCalls DEF Planned
    <2> DEFINE n == Len(script) - 1
    <2>5. Len(script) # 2
      <3> SUFFICES ASSUME Len(script) = 2 PROVE FALSE
        OBVIOUS
      <3>1. Head(script).op = "payload" /\ Head(script).size = TraceSize
        BY <2>1, <2>2, <2>3, HeadCall DEF Planned
      <3>2. payloads.count = 0
        BY <2>3 DEF Planned
      <3>3. TraceSize > 0 /\ 0 < MaxPayloads
        BY BuilderAssumption DEF MostChunks
      <3> QED
        BY <2>1, <3>1, <3>2, <3>3 DEF HasRoom
    <2>6. CASE Len(script) > 2
      <3>1. payloads'.count = 0
        BY <2>1, <2>3, <2>6 DEF Planned
      <3>2. n \in Nat /\ n # 1 /\ n # 0
        BY <2>4, <2>6
      <3> QED
        BY <2>4, <3>1, <3>2, PlanFollows
    <2>7. CASE Len(script) = 1
      <3>1. payloads'.count = 1 /\ Len(script') = 0
        BY <2>1, <2>3, <2>4, <2>7 DEF Planned
      <3> QED
        BY <2>4, <3>1, PlanFollows
    <2> QED
      BY <2>4, <2>5, <2>6, <2>7
  <1>6. CASE NumberAlert \/ EndAlert
    BY <1>2, <1>6 DEF NumberAlert, EndAlert, alertVars
  <1>7. CASE SetupEntry \/ SendEntry \/ StoreEntry
    <2>1. UNCHANGED <<payloads, actor, script>>
      BY <1>7, TablesStayOrAlertIsOver
    <2>2. pc \in {"setup", "callback"}
      BY <1>7 DEF SetupEntry, SendEntry, StoreEntry
    <2> QED
      BY <1>2, <2>1, <2>2
  <1>8. CASE Fault
    BY <1>8 DEF Fault
  <1>9. CASE OutsideDevice \/ UNCHANGED vars
    BY <1>2, <1>9 DEF OutsideDevice, vars, alertVars, runVars
  <1> QED
    BY <1>1, <1>3, <1>4, <1>5, <1>6, <1>7, <1>8, <1>9 DEF Next, Build, Process

\* The dump the fault handler hands on has every piece it wrote, with and
\* without floating point registers, for any size of the captured stack:
\* the buffer is large enough, and the second payload is the whole of it.
THEOREM DumpArrivesWhole == Spec => []DumpIsWhole
  <1>1. Init => PlanInv
    BY DEF Init, PlanInv
  <1>2. Inv /\ PieceInv /\ PlanInv /\ [Next]_vars => PlanInv'
    BY StepKeepsPlan
  <1>3. PieceInv /\ PlanInv => DumpIsWhole
    <2> SUFFICES ASSUME PieceInv, PlanInv, pc = "callback", actor = "fault",
                        entry.kind = "HEADER", entry.payload = 2
                 PROVE  \E fp \in BOOLEAN : Dump(fp).dropped = 0 /\ entry.size = Dump(fp).used
      BY DEF DumpIsWhole
    <2>1. job \in Jobs /\ At(job) /\ entry = EntryFor(sessionId)
      BY DEF PieceInv, JobAt, Making, Processing
    <2>2. job.payload = 2 /\ entry.size = Slot.size
      BY <2>1, EntryFacts
    <2>3. PICK fp \in BOOLEAN : Planned(fp)
      BY DEF PlanInv
    <2>4. payloads.count > 1
      BY <2>1, <2>2 DEF At, PieceInv, Tables
    <2>5. Len(script) = 0
      <3>1. Len(script) \in Nat
        BY DEF PieceInv
      <3> QED
        BY <2>3, <2>4, <3>1 DEF Planned
    <2>6. entry.size = Dump(fp).used
      BY <2>2, <2>3, <2>4, <2>5 DEF Planned, Slot
    <2>7. Dump(fp).dropped = 0
      BY DumpFits DEF BufferAt
    <2> QED
      BY <2>6, <2>7
  <1> QED
    BY <1>1, <1>2, <1>3, InvInductive, PieceInvInductive, PTL DEF Spec
=============================================================================
