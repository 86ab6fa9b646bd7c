----------------------------- MODULE CrashDump ------------------------------
(***************************************************************************)
(* The crash dump (dfmCrashCatcher.c, CrashCatcher.c): the fault handler   *)
(* writes registers and memory regions, piece after piece, into a buffer   *)
(* of fixed size. A piece that does not fit is dropped and the next ones   *)
(* are still tried, so a dump can lack the middle.                         *)
(***************************************************************************)
EXTENDS Naturals, Sequences

CONSTANT StackCapture   (* CRASH_STACK_CAPTURE_SIZE                          *)

ASSUME DumpAssumption == StackCapture \in Nat

(* Mutant: room for every byte, and no more.                               *)
BufferExact == 256 + StackCapture

(* The size of ucDataBuffer, no further region being configured.           *)
CRASH_DUMP_BUFFER_SIZE == 300 + StackCapture

(* The pieces CrashCatcher_Entry writes, in bytes: signature, flags, r0-r3,*)
(* r4-r11, r12, sp, lr to psr, msp to the exception's psr; the floating    *)
(* point registers, or nothing when the coprocessor is off; the addresses  *)
(* and the content of the stack, the only region configured, and of the    *)
(* fault status registers.                                                 *)
Pieces(fp) ==
  <<4, 4, 4 * 4, 8 * 4, 4, 4, 3 * 4, 3 * 4, IF fp THEN 33 * 4 ELSE 0,
    2 * 4, StackCapture, 2 * 4, 5 * 4>>

(* The buffer: where ucBufferPos is in it, and how many pieces were dropped.*)
EmptyBuffer == [used |-> 0, dropped |-> 0]

(* CrashCatcher_DumpMemory: nothing to write, no room, or written.         *)
DumpMemory(buffer, size) ==
  IF size = 0
  THEN buffer
  ELSE IF buffer.used + size >= CRASH_DUMP_BUFFER_SIZE
  THEN [used |-> buffer.used, dropped |-> buffer.dropped + 1]
  ELSE [used |-> buffer.used + size, dropped |-> buffer.dropped]

(* The buffer after every number of pieces.                                *)
BufferAfter(pieces) ==
  LET after[k \in 0 .. Len(pieces)] ==
        IF k = 0 THEN EmptyBuffer ELSE DumpMemory(after[k - 1], pieces[k])
  IN  after

(* The buffer at CrashCatcher_DumpEnd.                                     *)
Dump(fp) == BufferAfter(Pieces(fp))[Len(Pieces(fp))]
=============================================================================
