---------------------------- MODULE StdioStream ----------------------------
(***************************************************************************)
(* iostream/StdioStream: a stdio stream with one buffer for both           *)
(* directions over a FatFile.  The C rules for update streams are kept by  *)
(* the caller: between output and input, and back, there is an fflush, an  *)
(* fseek or a rewind, except where a read met the end of the file.         *)
(***************************************************************************)
EXTENDS Integers, Sequences, FiniteSetsExt

CONSTANTS
  BufSize,    \* STREAM_BUF_SIZE
  UngetSize,  \* UNGETC_BUF_SIZE
  Bytes,      \* the bytes written; 0 is the newline
  MaxSize,    \* bound on the size of the file
  MaxFaults   \* bound on the calls during which the card fails

VARIABLES
  file, cur,   \* the bytes of the file on the card, the position of the FatFile
  mode,        \* the mode of fopen, "closed"
  status,      \* m_status: a set of flags
  held,        \* the bytes of m_buf that count: before m_p when writing, the m_r from m_p on else
  m_p, m_r, m_w,
  last,        \* direction of the last call, for the rules above
  faults,      \* calls during which the card failed
  ret          \* the last call: its name, what it asked for (bytes, or one number or
               \* mode), the bytes it got, not EOF

stream == <<mode, status, held, m_p, m_r, m_w, last, ret>>
vars == <<file, cur, stream, faults>>

Modes == {"r", "w", "a", "r+", "w+", "a+"}
MayRead == mode \in {"r", "r+", "w+", "a+"}
MayWrite == mode \in Modes \ {"r"}
Appends == mode \in {"a", "a+"}

-----------------------------------------------------------------------------
(* A call is computed on the record of the stream's members; fault counts  *)
(* the accesses to the card up to the one that fails, 0 when none does.    *)

Members(fault) ==
  [file |-> file, cur |-> cur, status |-> status, held |-> held, p |-> m_p, r |-> m_r, w |-> m_w,
   ok |-> TRUE, fault |-> fault, got |-> <<>>]

Put(c, p, b) == SubSeq(c, 1, p) \o b \o SubSeq(c, p + Len(b) + 1, Len(c))

\* FatFile::write: at the end of a file opened to append.
WriteFile(s, b) ==
  LET at == IF Appends /\ b # <<>> THEN Len(s.file) ELSE s.cur
  IN  IF s.fault = 1 THEN [s EXCEPT !.ok = FALSE, !.fault = 0]
      ELSE [s EXCEPT !.file = Put(@, at, b), !.cur = at + Len(b), !.fault = Max({0, s.fault - 1})]

FlushBuf(s) ==
  IF "SWR" \notin s.status
    THEN IF "SRW" \notin s.status
           THEN [s EXCEPT !.status = @ \cup {"ERR"}, !.ok = FALSE]
           ELSE [s EXCEPT !.status = (@ \ {"SRD"}) \cup {"SWR"}, !.r = 0, !.w = BufSize,
                          !.p = 0, !.held = <<>>]
    ELSE LET written == WriteFile(s, s.held)
         IN  [written EXCEPT !.p = 0, !.w = BufSize, !.held = <<>>,
                !.status = IF written.ok THEN @ ELSE @ \cup {"ERR"}]

\* An update stream that has not been written to reads without S_SRD.
FillBuf(s) ==
  LET turned ==
        CASE "SRD" \in s.status -> s
          [] "SRD" \notin s.status /\ "SRW" \notin s.status ->
               [s EXCEPT !.status = @ \cup {"ERR"}, !.ok = FALSE]
          [] {"SRD", "SRW", "SWR"} \cap s.status = {"SRW"} -> s
          [] OTHER ->
               LET f == FlushBuf(s)
               IN  IF f.ok THEN [f EXCEPT !.status = (@ \ {"SWR"}) \cup {"SRD"}, !.w = 0] ELSE f
      nr == IF turned.fault = 1 THEN -1
            ELSE Min({BufSize - UngetSize, Len(turned.file) - turned.cur})
  IN  IF ~turned.ok THEN turned
      ELSE IF nr <= 0
        THEN [turned EXCEPT !.status = @ \cup {IF nr < 0 THEN "ERR" ELSE "EOF"}, !.r = 0,
                !.held = <<>>, !.p = UngetSize, !.ok = FALSE, !.fault = Max({0, @ - 1})]
        ELSE [turned EXCEPT !.p = UngetSize, !.r = nr,
                !.held = SubSeq(s.file, turned.cur + 1, turned.cur + nr),
                !.cur = @ + nr, !.fault = Max({0, @ - 1})]

\* The next n bytes of the buffer.
Take(s, n) ==
  [s EXCEPT !.got = @ \o SubSeq(s.held, 1, n), !.held = SubSeq(s.held, n + 1, Len(s.held)),
            !.p = @ + n, !.r = @ - n]

\* fread, one byte for getc: EOF when nothing is read, the bytes there are at the end of the file.
RECURSIVE Fread(_, _)
Fread(s, need) ==
  IF need <= s.r THEN Take(s, need)
  ELSE LET f == FillBuf(Take(s, s.r))
       IN  IF f.ok THEN Fread(f, need - s.r) ELSE [f EXCEPT !.ok = f.got # <<>>]

\* fgets with room for num bytes and the terminator: up to the newline.
RECURSIVE Fgets(_, _)
Fgets(s, num) ==
  IF num = 0 THEN s
  ELSE LET f == IF s.r = 0 THEN FillBuf(s) ELSE s
           n == Min({f.r, num})
           ends == {i \in 1 .. n : f.held[i] = 0}
       IN  IF ~f.ok THEN [f EXCEPT !.ok = f.got # <<>>]
           ELSE IF ends # {} THEN Take(f, Min(ends)) ELSE Fgets(Take(f, n), num - n)

Store(s, b) == [s EXCEPT !.held = @ \o b, !.p = @ + Len(b), !.w = @ - Len(b)]

\* write, also of fputs, of the numbers and of putc with its one byte.
RECURSIVE WriteBytes(_, _)
WriteBytes(s, b) ==
  IF Len(b) <= s.w THEN Store(s, b)
  ELSE LET f == FlushBuf(Store(s, SubSeq(b, 1, s.w)))
       IN  IF f.ok THEN WriteBytes(f, SubSeq(b, s.w + 1, Len(b))) ELSE f

\* putCRLF keeps its two bytes together.
PutCRLF(s, b) == LET f == IF s.w < 2 THEN FlushBuf(s) ELSE s IN IF f.ok THEN Store(f, b) ELSE f

\* Mutant: the bytes read ahead are kept.
RepositionKeeps(s, pos) ==
  IF pos \notin 0 .. Len(s.file) THEN [s EXCEPT !.ok = FALSE] ELSE [s EXCEPT !.cur = pos]

\* fseek to the position pos, and rewind.
Reposition(s, pos) ==
  LET f == IF "SWR" \in s.status THEN FlushBuf(s) ELSE s
  IN  IF ~f.ok THEN f
      ELSE IF pos \notin 0 .. Len(f.file) THEN [f EXCEPT !.ok = FALSE]
      ELSE [f EXCEPT !.cur = pos, !.r = 0, !.p = 0, !.held = <<>>]

Ftell ==
  IF "SRD" \in status THEN IF m_r > cur THEN -1 ELSE cur - m_r
  ELSE IF "SWR" \in status THEN cur + m_p ELSE cur

-----------------------------------------------------------------------------
(* The calls.                                                              *)

Returns(call, asked, got, ok) == ret' = [call |-> call, asked |-> asked, got |-> got, ok |-> ok]
Becomes(s) ==
  /\ file' = s.file /\ cur' = s.cur /\ status' = s.status /\ held' = s.held
  /\ m_p' = s.p /\ m_r' = s.r /\ m_w' = s.w

\* The call f, during which the card may fail once; a failure it does not reach is none.
Calls(f(_), call, asked) ==
  \E fault \in 0 .. 2 :
    LET s == f(Members(fault)) IN
    /\ Becomes(s) /\ Returns(call, asked, s.got, s.ok)
    /\ \/ fault = 0 /\ faults' = faults
       \/ fault > 0 /\ s.fault = 0 /\ faults < MaxFaults /\ faults' = faults + 1

NotOpen ==
  /\ cur = 0 /\ mode = "closed" /\ status = {} /\ held = <<>> /\ m_p = 0 /\ m_r = 0 /\ m_w = 0
  /\ last = "none" /\ faults = 0 /\ ret = [call |-> "none", asked |-> <<>>, got |-> <<>>, ok |-> TRUE]
Init == NotOpen /\ \E n \in {0, 2} : file = [i \in 1 .. n |-> i % 2]
Unused == NotOpen /\ file = <<>>

Fopen ==
  /\ mode = "closed" /\ mode' \in Modes
  /\ status' = (CASE mode' = "r" -> {"SRD"} [] mode' \in {"w", "a"} -> {"SWR"} [] OTHER -> {"SRW"})
  /\ file' = (IF mode' \in {"w", "w+"} THEN <<>> ELSE file)
  /\ cur' = 0 /\ held' = <<>> /\ m_p' = 0 /\ m_r' = 0 /\ m_w' = 0 /\ last' = "none"
  /\ Returns("fopen", <<mode'>>, <<>>, TRUE) /\ UNCHANGED faults

Fclose ==
  /\ mode # "closed"
  /\ LET Closed(s) ==
           LET f == IF "SWR" \in s.status THEN FlushBuf(s) ELSE s
           IN  [f EXCEPT !.status = {}, !.held = <<>>, !.p = 0, !.r = 0, !.w = 0, !.cur = 0,
                         !.ok = f.ok /\ f.fault # 1, !.fault = Max({0, f.fault - 1})]
     IN  Calls(Closed, "fclose", <<>>)
  /\ mode' = "closed" /\ last' = "none"

Input ==
  /\ MayRead /\ last # "out"
  /\ \E n \in {1, BufSize} :
       \/ LET Get(s) == Fread(s, n) IN Calls(Get, "fread", <<n>>)
       \/ LET Get(s) == Fgets(s, n) IN Calls(Get, "fgets", <<n>>)
  /\ last' = (IF status' \cap {"EOF"} # status \cap {"EOF"} THEN "none" ELSE "in")
  /\ UNCHANGED mode

Output ==
  /\ MayWrite /\ last # "in" /\ Len(file) + Len(held) < MaxSize
  /\ \E n \in {1, 2, BufSize + 1} \cap (1 .. MaxSize - Len(file) - Len(held)), b \in Bytes :
       LET bytes == [i \in 1 .. n |-> b] IN
       \/ LET Store2(s) == WriteBytes(s, bytes) IN Calls(Store2, "fwrite", bytes)
       \/ n = 2 /\ LET Store2(s) == PutCRLF(s, bytes) IN Calls(Store2, "fwrite", bytes)
  /\ last' = "out" /\ UNCHANGED mode

\* SEEK_SET, SEEK_END and rewind; SEEK_CUR, which adds the position twice, is left out.
Fseek ==
  /\ mode # "closed"
  /\ \E to \in 0 .. Len(file) + m_p + 1 :
       LET Go(s) == Reposition(s, to) IN Calls(Go, "fseek", <<to>>)
  /\ last' = (IF ret'.ok THEN "none" ELSE last) /\ UNCHANGED mode

\* Refused while S_SRD is set: by a stream opened to read, and by an update stream that was read
\* after it was written, also when an fseek came in between.
Fflush ==
  /\ mode # "closed" /\ last # "in"
  /\ LET Flush(s) ==
           IF "SRD" \in s.status \/ {"SWR", "SRW"} \cap s.status = {} THEN [s EXCEPT !.ok = FALSE]
           ELSE LET f == FlushBuf(s)
                IN  [f EXCEPT !.ok = f.ok /\ f.fault # 1, !.fault = Max({0, f.fault - 1})]
     IN  Calls(Flush, "fflush", <<>>)
  /\ last' = "none" /\ UNCHANGED mode

\* Refused unless S_SRD is set and m_buf has room before m_p.
Ungetc ==
  /\ MayRead /\ last # "out"
  /\ \E c \in {Max(Bytes)} :
       IF "SRD" \notin status \/ m_p = 0
         THEN Returns("ungetc", <<c>>, <<>>, FALSE) /\ UNCHANGED <<status, held, m_p, m_r>>
         ELSE /\ Returns("ungetc", <<c>>, <<c>>, TRUE)
              /\ held' = <<c>> \o held /\ m_p' = m_p - 1 /\ m_r' = m_r + 1
              /\ status' = status \ {"EOF"}
  /\ last' = "in" /\ UNCHANGED <<file, cur, mode, m_w, faults>>

Clearerr ==
  /\ status' = status \ {"EOF", "ERR"} /\ status # status'
  /\ Returns("clearerr", <<>>, <<>>, TRUE) /\ UNCHANGED <<file, cur, mode, held, m_p, m_r, m_w, last, faults>>

Next == Fopen \/ Fclose \/ Input \/ Output \/ Fseek \/ Fflush \/ Ungetc \/ Clearerr

Spec == Init /\ [][Next]_vars

-----------------------------------------------------------------------------
(* Properties.                                                             *)

Writing == "SWR" \in status
Position == IF Writing THEN (IF Appends /\ held # <<>> THEN Len(file) ELSE cur) + m_p ELSE cur - m_r
Content == IF Writing THEN Put(file, Position - m_p, held) ELSE file

Stdio == INSTANCE StdioFile WITH
  content <- Content, saved <- file, pos <- Position, error <- "ERR" \in status,
  ahead <- IF mode = "closed" THEN <<>>
           ELSE IF Writing THEN SubSeq(Content, Position + 1, Len(Content))
           ELSE held \o SubSeq(file, cur + 1, Len(file))

\* The buffer does not show: what is read, written, pushed back and saved, and where, is what a
\* file without one would do, whatever the sizes and the turns between reading and writing; bytes
\* are lost only by a call that reports it (fillBuf, flushBuf, fread, write, fseek, fclose).  After
\* an fflush that succeeds everything is on the card, and one is refused only when everything is.
IsStdio == Stdio!Spec

\* ftell tells the position (StdioStream.h:320): not on an append stream before it has written
\* its buffer, and not on an update stream that has only been read, where S_SRD is never set.
TellsPosition == mode # "closed" => Ftell \in {Position, -1}
=============================================================================
