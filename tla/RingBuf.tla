------------------------------- MODULE RingBuf -------------------------------
(***************************************************************************)
(* RingBuf.h: a ring buffer between an interrupt handler and the main      *)
(* program.  A data logger fills it with memcpyIn() in the handler and     *)
(* empties it to a file with writeOut(); a player fills it from a file     *)
(* with readIn() and empties it with memcpyOut() in the handler.           *)
(*                                                                         *)
(* The handler runs to its end between any two steps of the main program.  *)
(* The main program's steps are: read m_count with interrupts off, one     *)
(* transfer with the file, update m_count with interrupts off.  A byte is  *)
(* its position in the stream.                                             *)
(***************************************************************************)
EXTENDS Integers, Sequences

CONSTANTS
  Size,         \* bytes in m_buf
  MaxBytes,     \* bound: bytes logged, or bytes in the file played
  MaxFaults     \* bound on the number of failing file writes and reads

ASSUME SizeAssumption == Size \in Nat \ {0}
ASSUME BoundsAssumption == MaxBytes \in Nat /\ MaxFaults \in Nat

VARIABLES
  player,       \* 1: the program plays a file, 0: it logs to one
  m_buf, m_head, m_tail, m_count,
  writeError,   \* the write error flag of Print
  pc,           \* where the main program is: "idle", "writeOut", "failed", "readIn"
  want,         \* bytes the running writeOut or readIn has still to reach
  done,         \* its nwrite or nread
  filePos,      \* bytes readIn has taken from the file
  faults,       \* failing file writes and reads so far
  misread,      \* auxiliary: 1 when a failing read has left the ring or the file out of step
  added,        \* auxiliary: sum of what memcpyIn, write and readIn returned
  removed,      \* auxiliary: sum of what memcpyOut and writeOut returned
  sink          \* auxiliary: the bytes memcpyOut or the file received

main == <<pc, want, done, filePos, faults, misread>>
vars == <<m_buf, m_head, m_tail, m_count, writeError, main, added, removed, sink>>

Cells == 0 .. Size - 1
MinSize(a, b) == IF a < b THEN a ELSE b

\* Mutant: the index reaches Size before it wraps.
AdvancePastEnd(index, n) == IF index + n <= Size THEN index + n ELSE index + n - Size
Advance(index, n) == IF index + n < Size THEN index + n ELSE index + n - Size

TypeOK ==
  /\ m_buf \in [Cells -> Nat]
  /\ m_head \in Cells /\ m_tail \in Cells /\ m_count \in 0 .. Size
  /\ writeError \in {0, 1}
  /\ pc \in {"idle", "writeOut", "failed", "readIn"}
  /\ want \in 0 .. Size /\ done \in 0 .. want
  /\ filePos \in Nat /\ faults \in Nat /\ misread \in {0, 1}
  /\ added \in Nat /\ removed \in Nat
  /\ sink \in Seq(Nat)

\* begin()
Init ==
  /\ player \in {0, 1}
  /\ m_buf = [c \in Cells |-> 0] /\ m_head = 0 /\ m_tail = 0 /\ m_count = 0
  /\ writeError = 0
  /\ pc = "idle" /\ want = 0 /\ done = 0 /\ filePos = 0 /\ faults = 0 /\ misread = 0
  /\ added = 0 /\ removed = 0 /\ sink = <<>>

\* How far the cell c lies behind the index from.
Offset(from, c) == IF c >= from THEN c - from ELSE c - from + Size

\* The bytes first, first + 1, ... stored in n cells from m_head on.
Store(n, first) ==
  m_buf' = [c \in Cells |->
              IF Offset(m_head, c) < n THEN first + Offset(m_head, c) ELSE m_buf[c]]

\* The bytes of n cells from m_tail on are passed on.
Pass(n) == sink' = sink \o [k \in 1 .. n |-> m_buf[Advance(m_tail, k - 1)]]

-----------------------------------------------------------------------------
(* In the interrupt handler.                                               *)

\* The part of count bytes that fits.
Fitting(n) == MinSize(n, Size - m_count)

MemcpyIn(n) ==
  LET moved == Fitting(n) IN
  /\ added + moved <= MaxBytes
  /\ Store(moved, added)
  /\ m_head' = Advance(m_head, moved)
  /\ m_count' = m_count + moved
  /\ added' = added + moved
  /\ UNCHANGED <<m_tail, main, removed, sink>>

\* write(): memcpyIn that records what does not fit.
RingWrite(n) ==
  /\ MemcpyIn(n)
  /\ writeError' = IF n > Size - m_count THEN 1 ELSE writeError

MemcpyOut(n) ==
  LET moved == MinSize(n, m_count) IN
  /\ Pass(moved)
  /\ m_tail' = Advance(m_tail, moved)
  /\ m_count' = m_count - moved
  /\ removed' = removed + moved
  /\ UNCHANGED <<m_buf, m_head, writeError, main, added>>

-----------------------------------------------------------------------------
(* In the main program.                                                    *)

\* writeOut(n), or sync() when n is at least what the buffer holds.
WriteOut(n) ==
  /\ pc = "idle" /\ pc' = "writeOut"
  /\ want' = MinSize(n, m_count) /\ done' = 0
  /\ UNCHANGED <<m_buf, m_head, m_tail, m_count, writeError, filePos, faults, misread, added, removed, sink>>

\* The file takes the bytes up to the end of m_buf or of the request.
WritePiece ==
  LET n == MinSize(Size - m_tail, want - done) IN
  /\ pc = "writeOut" /\ done # want
  /\ Pass(n)
  /\ m_tail' = Advance(m_tail, n)
  /\ done' = done + n
  /\ UNCHANGED <<m_buf, m_head, m_count, writeError, pc, want, filePos, faults, misread, added, removed>>

\* The file takes a part of the piece, its position moves by that much, and the write fails:
\* the loop is left, with the whole piece still to be written.
WriteFails ==
  /\ pc = "writeOut" /\ done # want /\ pc' = "failed"
  /\ faults < MaxFaults /\ faults' = faults + 1
  /\ \E k \in 0 .. MinSize(Size - m_tail, want - done) : Pass(k)
  /\ UNCHANGED <<m_buf, m_head, m_tail, m_count, writeError, want, done, filePos, misread, added, removed>>

\* Mutant: a failed writeOut takes all it wanted to write off the count.
ReleasedAll == want
\* What writeOut takes off m_count: nwrite.
Released == done

WriteOutEnd ==
  /\ pc = "failed" \/ (pc = "writeOut" /\ done = want)
  /\ pc' = "idle"
  /\ m_count' = m_count - Released
  /\ removed' = removed + done
  /\ want' = 0 /\ done' = 0
  /\ UNCHANGED <<m_buf, m_head, m_tail, writeError, filePos, faults, misread, added, sink>>

\* readIn(n)
ReadIn(n) ==
  /\ pc = "idle" /\ pc' = "readIn"
  /\ want' = Fitting(n) /\ done' = 0
  /\ UNCHANGED <<m_buf, m_head, m_tail, m_count, writeError, filePos, faults, misread, added, removed, sink>>

Piece == MinSize(Size - m_head, want - done)

\* The file fills the cells up to the end of m_buf or of the request.
ReadPiece ==
  /\ pc = "readIn" /\ done # want
  /\ filePos + Piece <= MaxBytes /\ filePos' = filePos + Piece
  /\ Store(Piece, filePos)
  /\ m_head' = Advance(m_head, Piece)
  /\ done' = done + Piece
  /\ UNCHANGED <<m_tail, m_count, writeError, pc, want, faults, misread, added, removed, sink>>

\* The file ends before the piece is full: readIn returns nread at once.
ReadShort ==
  /\ pc = "readIn" /\ done # want /\ pc' = "idle"
  /\ filePos + Piece > MaxBytes /\ filePos' = MaxBytes
  /\ Store(MaxBytes - filePos, filePos)
  /\ added' = added + done
  /\ want' = 0 /\ done' = 0
  /\ UNCHANGED <<m_head, m_tail, m_count, writeError, faults, misread, removed, sink>>

\* A read fails, with a part of the piece read and the position moved: readIn returns at once,
\* with m_head behind the pieces before and m_count without them.
ReadFails ==
  /\ pc = "readIn" /\ done # want /\ pc' = "idle"
  /\ faults < MaxFaults /\ faults' = faults + 1
  /\ \E k \in 0 .. MinSize(Piece, MaxBytes - filePos) :
       /\ Store(k, filePos) /\ filePos' = filePos + k
       /\ misread' = IF k > 0 \/ done > 0 THEN 1 ELSE misread
  /\ added' = added + done
  /\ want' = 0 /\ done' = 0
  /\ UNCHANGED <<m_head, m_tail, m_count, writeError, removed, sink>>

ReadInEnd ==
  /\ pc = "readIn" /\ done = want /\ pc' = "idle"
  /\ m_count' = m_count + done
  /\ added' = added + done
  /\ want' = 0 /\ done' = 0
  /\ UNCHANGED <<m_buf, m_head, m_tail, writeError, filePos, faults, misread, removed, sink>>

-----------------------------------------------------------------------------
\* Requests of any length: one more than the buffer holds stands for all above.
Lengths == 1 .. Size + 1

WriteOutStep == WritePiece \/ WriteFails \/ WriteOutEnd
ReadInStep == ReadPiece \/ ReadShort \/ ReadFails \/ ReadInEnd

LogNext ==
  \/ \E n \in Lengths : (MemcpyIn(n) /\ UNCHANGED writeError) \/ RingWrite(n) \/ WriteOut(n)
  \/ WriteOutStep

PlayNext == ReadInStep \/ \E n \in Lengths : MemcpyOut(n) \/ ReadIn(n)

Next ==
  /\ \/ player = 0 /\ LogNext
     \/ player = 1 /\ PlayNext
  /\ UNCHANGED player

Spec ==
  /\ Init /\ [][Next]_<<vars, player>>
  /\ WF_vars(WriteOutStep) /\ WF_vars(ReadInStep)

-----------------------------------------------------------------------------
(* Properties                                                              *)

\* A first-in first-out buffer: of the logger from memcpyIn to the file, of the player from the
\* file to memcpyOut, where what m_count covers can be taken.  Only a failing file write repeats
\* bytes: the part it wrote comes again with the rest.  A failing file read ends the promise when
\* it or the pieces before it moved anything: the bytes that follow go to the wrong place.
Fifo == INSTANCE ByteFifo WITH
  accepted <- IF player = 1 THEN removed + m_count ELSE added,
  delivered <- IF player = 1 THEN removed ELSE removed + done,
  failed <- faults
InOrder == Fifo!Init /\ [][misread = 0 => Fifo!Next]_(Fifo!fifoVars)

\* writeOut and readIn end, whatever the handler does meanwhile.
Ends == pc # "idle" ~> pc = "idle"

=============================================================================
